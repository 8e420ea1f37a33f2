------------------------------- MODULE Accounts -------------------------------
(***************************************************************************)
(* The rows of the table users and the two links mailed to their owners:   *)
(* the one that verifies the address of a new account and the one that     *)
(* sets a new password.  Registration and both requests for a link read    *)
(* the table first and write it in a later statement, with other requests  *)
(* in between; using a link is one UPDATE.  A mail is sent by a task in    *)
(* the background that a failure of the mail server or a restart loses.    *)
(***************************************************************************)
EXTENDS Integers, Sequences, FiniteSets

CONSTANTS
    Emails,      \* addresses
    Requests,    \* registrations and requests for a link in flight
    None,        \* SQL NULL
    Cooldown,    \* RESEND_COOLDOWN_SECONDS, of both kinds of link
    VerifyTTL,   \* TOKEN_TTL_HOURS
    ResetTTL,    \* TOKEN_TTL_MINUTES
    MaxTime,     \* bound: last instant of the clock
    MaxIds,      \* bound: accounts ever inserted
    MaxLinks     \* bound: links ever issued

ASSUME DurationsAssumption == {Cooldown, VerifyTTL, ResetTTL} \subseteq Nat \ {0}
ASSUME BoundsAssumption == {MaxTime, MaxIds, MaxLinks} \subseteq Nat
ASSUME NoneAssumption == None \notin Int

Kinds == {"verify", "reset"}

TTL(kind) == IF kind = "verify" THEN VerifyTTL ELSE ResetTTL

VARIABLES
    now,         \* the clock of the database
    users,       \* the rows of users
    ids,         \* the last id the sequence of users gave
    issued,      \* issued[t]: what link t was issued for (history)
    uses,        \* uses[t]: how often link t has been accepted (history)
    outbox,      \* links whose mail is still to be sent
    inbox,       \* links in the mailbox of their owner
    req          \* req[r]: the request r serves

vars == <<now, users, ids, issued, uses, outbox, inbox, req>>

Times == 0 .. MaxTime + VerifyTTL + ResetTTL

(* token, expires and sent are the columns of each kind of link; pw is the  *)
(* link that set the password, 0 for the one given at the registration.     *)
Row == [id : 1 .. MaxIds, email : Emails, verified : BOOLEAN, pw : 0 .. MaxLinks,
        token : [Kinds -> 1 .. MaxLinks \cup {None}],
        expires : [Kinds -> Times \cup {None}],
        sent : [Kinds -> Times \cup {None}]]

Request == [stage : {"idle", "register", "verify", "reset"},
            email : Emails \cup {None}, id : 0 .. MaxIds]

Idle == [stage |-> "idle", email |-> None, id |-> 0]

Registered(e) == \E u \in users : u.email = e

Becomes(r, request) == req' = [req EXCEPT ![r] = request]

Respond(r) == Becomes(r, Idle)

Replace(u, v) == users' = (users \ {u}) \cup {v}

NextLink == Len(issued) + 1

(* The row u with a new link of that kind, valid from now.                  *)
WithLink(u, kind) ==
    [u EXCEPT !.token[kind] = NextLink,
              !.expires[kind] = now + TTL(kind),
              !.sent[kind] = now]

Issue(kind, id) ==
    /\ issued' = Append(issued, [kind |-> kind, id |-> id, at |-> now])
    /\ uses' = Append(uses, 0)
    /\ outbox' = outbox \cup {NextLink}

------------------------------------------------------------------------------
(* POST /register: no account has the address yet, the password is hashed.  *)

RegisterCheck(r, e) ==
    /\ req[r].stage = "idle"
    /\ ~Registered(e)
    /\ Becomes(r, [stage |-> "register", email |-> e, id |-> 0])
    /\ UNCHANGED <<now, users, ids, issued, uses, outbox, inbox>>

NoLink == [kind \in Kinds |-> None]

(* Mutant of Fresh: the row takes the last id given.                        *)
FreshOld(e) == [id |-> ids, email |-> e, verified |-> FALSE, pw |-> 0,
                token |-> NoLink, expires |-> NoLink, sent |-> NoLink]

Fresh(e) == [id |-> ids + 1, email |-> e, verified |-> FALSE, pw |-> 0,
             token |-> NoLink, expires |-> NoLink, sent |-> NoLink]

(* Mutant of RegisterCommit: users has no UNIQUE (email).                   *)
RegisterUnguarded(r) ==
    /\ req[r].stage = "register"
    /\ ids < MaxIds /\ Len(issued) < MaxLinks
    /\ users' = users \cup {WithLink(Fresh(req[r].email), "verify")}
    /\ ids' = ids + 1
    /\ Issue("verify", ids + 1)
    /\ Respond(r)
    /\ UNCHANGED <<now, inbox>>

(* One transaction: the row (UNIQUE (email)), its profile and its link; the *)
(* mail is spawned after the commit.                                        *)
RegisterCommit(r) ==
    /\ req[r].stage = "register"
    /\ ~Registered(req[r].email)
    /\ ids < MaxIds /\ Len(issued) < MaxLinks
    /\ users' = users \cup {WithLink(Fresh(req[r].email), "verify")}
    /\ ids' = ids + 1
    /\ Issue("verify", ids + 1)
    /\ Respond(r)
    /\ UNCHANGED <<now, inbox>>

------------------------------------------------------------------------------
(* POST /resend-verification and POST /forgot-password find the account by  *)
(* its address, then store a new link if the conditions of the UPDATE hold. *)

FindAccount(r, e, kind) ==
    /\ req[r].stage = "idle"
    /\ \E u \in users :
          /\ u.email = e
          /\ kind = "verify" => ~u.verified
          /\ Becomes(r, [stage |-> kind, email |-> e, id |-> u.id])
    /\ UNCHANGED <<now, users, ids, issued, uses, outbox, inbox>>

Cooled(u, kind) == u.sent[kind] # None => u.sent[kind] < now - Cooldown

(* Mutant of CanStore: the UPDATE of the resend relies on the SELECT.       *)
CanStoreIfUnsent(u, kind) == Cooled(u, kind)

(* Mutant of CanStore: the cooldown is not in the UPDATE.                   *)
CanStoreAnytime(u, kind) == kind = "verify" => ~u.verified

CanStore(u, kind) == /\ Cooled(u, kind)
                     /\ kind = "verify" => ~u.verified

StoreLink(r) ==
    LET kind == req[r].stage IN
    /\ kind \in Kinds
    /\ Len(issued) < MaxLinks
    /\ \E u \in users :
          /\ u.id = req[r].id
          /\ CanStore(u, kind)
          /\ Replace(u, WithLink(u, kind))
    /\ Issue(kind, req[r].id)
    /\ Respond(r)
    /\ UNCHANGED <<now, ids, inbox>>

(* The answer of a request that stored nothing: the UPDATE matched no row,  *)
(* the address was taken meanwhile, the database failed.                    *)
Answer(r) ==
    /\ req[r].stage # "idle"
    /\ Respond(r)
    /\ UNCHANGED <<now, users, ids, issued, uses, outbox, inbox>>

------------------------------------------------------------------------------
(* POST /verify-email and POST /reset-password: one UPDATE of the row that  *)
(* has the token, while it is valid.                                        *)

Cleared(u, kind) == [u EXCEPT !.token[kind] = None, !.expires[kind] = None]

Valid(u, kind, t) == u.token[kind] = t /\ u.expires[kind] > now

Used(t) == /\ uses' = [uses EXCEPT ![t] = @ + 1]
           /\ UNCHANGED <<now, ids, issued, outbox, inbox, req>>

Verify(t) ==
    /\ \E u \in users : /\ Valid(u, "verify", t)
                        /\ ~u.verified
                        /\ Replace(u, [Cleared(u, "verify") EXCEPT !.verified = TRUE])
    /\ Used(t)

(* Mutant of Reset: the password changes, the token stays.                  *)
ResetKeepsToken(t) ==
    /\ \E u \in users : /\ Valid(u, "reset", t)
                        /\ Replace(u, [u EXCEPT !.pw = t])
    /\ Used(t)

Reset(t) ==
    /\ \E u \in users : /\ Valid(u, "reset", t)
                        /\ Replace(u, [Cleared(u, "reset") EXCEPT !.pw = t])
    /\ Used(t)

------------------------------------------------------------------------------
(* DELETE /user.                                                            *)
DeleteUser(u) ==
    /\ users' = users \ {u}
    /\ UNCHANGED <<now, ids, issued, uses, outbox, inbox, req>>

(* The background task sends the mail, or the mail server refuses it.       *)
SendMail(t) ==
    /\ inbox' = inbox \cup {t}
    /\ outbox' = outbox \ {t}
    /\ UNCHANGED <<now, users, ids, issued, uses, req>>

LoseMail(t) ==
    /\ outbox' = outbox \ {t}
    /\ UNCHANGED <<now, users, ids, issued, uses, inbox, req>>

(* The process stops: its requests and its background tasks are lost.       *)
Restart ==
    /\ outbox' = {}
    /\ req' = [r \in Requests |-> Idle]
    /\ UNCHANGED <<now, users, ids, issued, uses, inbox>>

Tick ==
    /\ now < MaxTime
    /\ now' = now + 1
    /\ UNCHANGED <<users, ids, issued, uses, outbox, inbox, req>>

------------------------------------------------------------------------------
Init ==
    /\ now = 0
    /\ users = {} /\ ids = 0
    /\ issued = <<>> /\ uses = <<>>
    /\ outbox = {} /\ inbox = {}
    /\ req = [r \in Requests |-> Idle]

Next ==
    \/ \E r \in Requests :
          \/ \E e \in Emails : \/ RegisterCheck(r, e)
                               \/ \E kind \in Kinds : FindAccount(r, e, kind)
          \/ RegisterCommit(r) \/ StoreLink(r) \/ Answer(r)
    \/ \E t \in inbox : Verify(t) \/ Reset(t)
    \/ \E t \in outbox : SendMail(t) \/ LoseMail(t)
    \/ \E u \in users : DeleteUser(u)
    \/ Restart
    \/ Tick

Spec == Init /\ [][Next]_vars

------------------------------------------------------------------------------
(* Properties                                                               *)

TypeOK ==
    /\ now \in 0 .. MaxTime
    /\ users \subseteq Row
    /\ ids \in 0 .. MaxIds
    /\ issued \in Seq([kind : Kinds, id : 1 .. MaxIds, at : 0 .. MaxTime])
    /\ uses \in Seq(Nat) /\ Len(uses) = Len(issued)
    /\ outbox \cup inbox \subseteq 1 .. Len(issued)
    /\ req \in [Requests -> Request]

(* However registrations of the same address interleave, one account has it. *)
OneAccountPerEmail ==
    \A u, v \in users : u.email = v.email => u = v

(* A verified account has no verification link left: a resend that found it *)
(* unverified stores nothing if it has been verified meanwhile.             *)
VerifiedHasNoLink ==
    \A u \in users : u.verified => u.token["verify"] = None

(* Two links of one kind for one account are always more than the cooldown  *)
(* apart, whoever asks for them and however their requests overlap.         *)
LinksAreSpaced ==
    \A s, t \in 1 .. Len(issued) :
        /\ s < t
        /\ issued[s].kind = issued[t].kind
        /\ issued[s].id = issued[t].id
        => issued[t].at - issued[s].at > Cooldown

(* A link is accepted at most once, before it expires, while its account    *)
(* exists (an account registered again with the same address is another     *)
(* one), and not after a newer link of its kind was issued.                 *)
Newest(t) == \A s \in t + 1 .. Len(issued) :
                issued[s].kind # issued[t].kind \/ issued[s].id # issued[t].id

LinksWorkOnce ==
    [][\A t \in DOMAIN uses :
          uses'[t] # uses[t]
          => /\ uses[t] = 0
             /\ now < issued[t].at + TTL(issued[t].kind)
             /\ \E u \in users : u.id = issued[t].id
             /\ Newest(t)]_vars
==============================================================================
