---------------------------- MODULE AccountsProofs ----------------------------
(***************************************************************************)
(* Theorems of Accounts, for any addresses, any number of requests, any    *)
(* cooldown and any lives of the links.                                    *)
(***************************************************************************)
EXTENDS Accounts, TLAPS

USE DurationsAssumption, BoundsAssumption, NoneAssumption

Link == [kind : Kinds, id : 1 .. MaxIds, at : 0 .. MaxTime]

(* An id names one account, now and for ever.                               *)
IdsHold ==
    /\ \A u, v \in users : u.id = v.id => u = v
    /\ \A u \in users : u.id <= ids
    /\ \A t \in 1 .. Len(issued) : issued[t].id <= ids

(* The token of a row is the newest link of its kind, unused, and expires   *)
(* when it should.                                                          *)
IsLink(u, kind, t) ==
    /\ t \in 1 .. Len(issued)
    /\ issued[t].kind = kind /\ issued[t].id = u.id
    /\ uses[t] = 0
    /\ u.expires[kind] = issued[t].at + TTL(kind)
    /\ Newest(t)

TokensHold ==
    \A u \in users, kind \in Kinds :
        u.token[kind] # None => IsLink(u, kind, u.token[kind])

(* No link of an account is later than the time kept in its row.            *)
SentHolds ==
    \A u \in users : \A t \in 1 .. Len(issued) :
        issued[t].id = u.id => /\ u.sent[issued[t].kind] # None
                               /\ issued[t].at <= u.sent[issued[t].kind]

(* A registration has an address.                                           *)
RequestsHold ==
    \A r \in Requests : req[r].stage = "register" => req[r].email \in Emails

IInv == /\ TypeOK /\ RequestsHold
        /\ OneAccountPerEmail /\ VerifiedHasNoLink /\ LinksAreSpaced
        /\ IdsHold /\ TokensHold /\ SentHolds

(* The invariant holds initially.                                           *)
LEMMA InitIInv == Init => IInv
<1> SUFFICES ASSUME Init PROVE IInv
  OBVIOUS
<1>1. Len(issued) = 0 /\ issued \in Seq(Link) /\ uses \in Seq(Nat)
  BY DEF Init
<1>2. TypeOK
  BY <1>1 DEF Init, TypeOK, Idle, Request, Link
<1> QED
  BY <1>1, <1>2 DEF Init, IInv, OneAccountPerEmail, VerifiedHasNoLink, LinksAreSpaced,
                    IdsHold, TokensHold, SentHolds, RequestsHold, Idle

------------------------------------------------------------------------------
(* Rows.                                                                    *)

(* A row with a new link differs from the old one in that link only.        *)
LEMMA RowWithLink ==
  ASSUME NEW u \in Row, NEW kind \in Kinds, now \in 0 .. MaxTime,
         NextLink \in 1 .. MaxLinks
  PROVE  LET v == WithLink(u, kind) IN
         /\ v \in Row
         /\ v.id = u.id /\ v.email = u.email /\ v.verified = u.verified
         /\ \A k \in Kinds :
              /\ v.token[k] = IF k = kind THEN NextLink ELSE u.token[k]
              /\ v.expires[k] = IF k = kind THEN now + TTL(kind) ELSE u.expires[k]
              /\ v.sent[k] = IF k = kind THEN now ELSE u.sent[k]
<1>1. now + TTL(kind) \in Times /\ now \in Times
  BY DEF TTL, Times
<1> QED
  BY <1>1 DEF WithLink, Row

(* A row that loses a link keeps the other one.                             *)
LEMMA RowCleared ==
  ASSUME NEW u \in Row, NEW kind \in Kinds
  PROVE  LET v == Cleared(u, kind) IN
         /\ v \in Row
         /\ v.id = u.id /\ v.email = u.email /\ v.verified = u.verified
         /\ \A k \in Kinds : /\ v.token[k] = IF k = kind THEN None ELSE u.token[k]
                             /\ v.expires[k] = IF k = kind THEN None ELSE u.expires[k]
                             /\ v.sent[k] = u.sent[k]
BY DEF Cleared, Row

(* A new row is a row.                                                      *)
LEMMA RowFresh ==
  ASSUME NEW e \in Emails, ids \in Nat, ids < MaxIds
  PROVE  /\ Fresh(e) \in Row
         /\ Fresh(e).id = ids + 1 /\ Fresh(e).email = e /\ Fresh(e).verified = FALSE
         /\ \A k \in Kinds : Fresh(e).token[k] = None
BY DEF Fresh, Row, NoLink

------------------------------------------------------------------------------
(* Links.                                                                   *)

(* A link that was issued has a kind, an account and a time.                *)
LEMMA LinkTyped ==
  ASSUME TypeOK, NEW t \in 1 .. Len(issued)
  PROVE  /\ issued[t].kind \in Kinds /\ issued[t].id \in 1 .. MaxIds
         /\ issued[t].at \in 0 .. MaxTime
<1>1. issued \in Seq(Link)
  BY DEF TypeOK, Link
<1>2. issued[t] \in Link
  BY <1>1
<1> QED
  BY <1>2 DEF Link

(* A link that is issued is one more, the others stay.                      *)
LEMMA OneMoreLink ==
  ASSUME TypeOK, NEW kind \in Kinds, NEW id \in 1 .. MaxIds, Issue(kind, id)
  PROVE  /\ issued' \in Seq(Link) /\ uses' \in Seq(Nat)
         /\ Len(issued') = Len(issued) + 1 /\ Len(uses') = Len(issued')
         /\ Len(issued) \in Nat
         /\ \A t \in 1 .. Len(issued) : issued'[t] = issued[t] /\ uses'[t] = uses[t]
         /\ issued'[NextLink] = [kind |-> kind, id |-> id, at |-> now]
         /\ uses'[NextLink] = 0
         /\ outbox' = outbox \cup {NextLink}
<1> DEFINE link == [kind |-> kind, id |-> id, at |-> now]
<1>1. link \in Link /\ issued \in Seq(Link) /\ uses \in Seq(Nat)
  BY DEF TypeOK, Link
<1>2. Len(uses) = Len(issued)
  BY DEF TypeOK
<1>3. issued' = Append(issued, link) /\ uses' = Append(uses, 0)
  BY DEF Issue
<1> HIDE DEF link
<1>4. issued' \in Seq(Link) /\ Len(issued') = Len(issued) + 1
      /\ issued'[Len(issued) + 1] = link
      /\ \A t \in 1 .. Len(issued) : issued'[t] = issued[t]
  BY <1>1, <1>3
<1>5. uses' \in Seq(Nat) /\ Len(uses') = Len(uses) + 1
      /\ uses'[Len(uses) + 1] = 0
      /\ \A t \in 1 .. Len(uses) : uses'[t] = uses[t]
  BY <1>1, <1>3
<1> QED
  BY <1>1, <1>2, <1>4, <1>5 DEF Issue, NextLink, link

(* Between two states with the same links, what holds for a token holds on. *)
LEMMA SameLinks ==
  ASSUME NEW u, NEW v, NEW kind, NEW t, IsLink(u, kind, t), UNCHANGED issued,
         uses'[t] = uses[t], v.id = u.id, v.expires[kind] = u.expires[kind]
  PROVE  IsLink(v, kind, t)'
BY DEF IsLink, Newest

(* A row v with a new link takes the place of the row of its id, which was  *)
(* cooled, or is the first with it; the other rows are others.              *)
LEMMA LinkAdded ==
  ASSUME IInv, NEW kind \in Kinds, NEW v \in Row, Issue(kind, v.id), UNCHANGED now,
         NEW others \in SUBSET users, users' = others \cup {v},
         \A w \in others : w.id # v.id /\ w.email # v.email,
         ids <= ids', v.id <= ids', ids' \in 0 .. MaxIds,
         v.verified => v.token["verify"] = None,
         v.token[kind] = NextLink, v.expires[kind] = now + TTL(kind), v.sent[kind] = now,
         \/ v.id = ids + 1 /\ \A k \in Kinds \ {kind} : v.token[k] = None
         \/ \E u \in users :
               /\ u.id = v.id /\ Cooled(u, kind)
               /\ \A k \in Kinds \ {kind} : /\ v.token[k] = u.token[k]
                                            /\ v.expires[k] = u.expires[k]
                                            /\ v.sent[k] = u.sent[k]
  PROVE  /\ OneAccountPerEmail' /\ VerifiedHasNoLink' /\ LinksAreSpaced'
         /\ IdsHold' /\ TokensHold' /\ SentHolds'
<1> USE DEF IInv
<1> DEFINE L == Len(issued)
<1>1. v.id \in 1 .. MaxIds
  BY DEF Row
<1>2. /\ L \in Nat /\ Len(issued') = L + 1 /\ NextLink = L + 1
      /\ \A t \in 1 .. L : issued'[t] = issued[t] /\ uses'[t] = uses[t]
      /\ issued'[L + 1] = [kind |-> kind, id |-> v.id, at |-> now]
      /\ uses'[L + 1] = 0
  BY <1>1, OneMoreLink DEF NextLink
<1>3. /\ issued'[L + 1].kind = kind /\ issued'[L + 1].id = v.id
      /\ issued'[L + 1].at = now
  BY <1>2
<1>4. /\ now \in 0 .. MaxTime /\ ids \in 0 .. MaxIds /\ users \subseteq Row
      /\ \A t \in 1 .. L : /\ issued[t].kind \in Kinds /\ issued[t].id \in 1 .. MaxIds
                           /\ issued[t].at \in 0 .. MaxTime
  BY LinkTyped DEF TypeOK
<1>5. \A u \in Row : \A k \in Kinds : u.sent[k] \in Times \cup {None} /\ u.id \in Int
  BY DEF Row
<1> HIDE DEF L
<1>t. \A t \in 1 .. L + 1 : t \in 1 .. L \/ t = L + 1
  BY <1>2
<1>6. ASSUME NEW t \in 1 .. L, issued[t].id = v.id, issued[t].kind = kind
      PROVE  now - issued[t].at > Cooldown
  <2>1. PICK u \in users : u.id = v.id /\ Cooled(u, kind)
    BY <1>4, <1>6 DEF IdsHold, L
  <2>2. u.sent[kind] # None /\ issued[t].at <= u.sent[kind]
    BY <1>6, <2>1 DEF SentHolds, L
  <2>3. u.sent[kind] < now - Cooldown /\ u.sent[kind] \in Int
    BY <1>4, <1>5, <2>1, <2>2 DEF Cooled, Times
  <2> QED
    BY <1>4, <2>2, <2>3
<1>7. OneAccountPerEmail' /\ VerifiedHasNoLink'
  BY DEF OneAccountPerEmail, VerifiedHasNoLink
<1>8. LinksAreSpaced'
  <2> SUFFICES ASSUME NEW s \in 1 .. L + 1, NEW t \in 1 .. L + 1, s < t,
                      issued'[s].kind = issued'[t].kind, issued'[s].id = issued'[t].id
               PROVE  issued'[t].at - issued'[s].at > Cooldown
    BY <1>2 DEF LinksAreSpaced
  <2>1. s \in 1 .. L
    BY <1>2
  <2>2. CASE t \in 1 .. L
    BY <1>2, <2>1, <2>2 DEF LinksAreSpaced, L
  <2>3. CASE t = L + 1
    BY <1>2, <1>3, <1>6, <2>1, <2>3
  <2> QED
    BY <1>t, <2>2, <2>3
<1>9. IdsHold'
  <2>1. \A t \in 1 .. L : issued[t].id <= ids /\ issued[t].id \in Int
    BY <1>4 DEF IdsHold, L
  <2>2. \A t \in 1 .. L + 1 : issued'[t].id <= ids'
    <3> SUFFICES ASSUME NEW t \in 1 .. L + 1 PROVE issued'[t].id <= ids'
      OBVIOUS
    <3>1. CASE t \in 1 .. L
      BY <1>2, <1>4, <2>1, <3>1
    <3> QED
      BY <1>t, <1>3, <3>1
  <2>3. \A u \in users : u.id <= ids /\ u.id \in Int
    BY <1>4, <1>5 DEF IdsHold
  <2>4. \A u, w \in users' : u.id = w.id => u = w
    BY DEF IdsHold
  <2>5. \A u \in users' : u.id <= ids'
    BY <1>4, <2>3
  <2> QED
    BY <1>2, <2>2, <2>4, <2>5 DEF IdsHold
<1>10. TokensHold'
  <2> SUFFICES ASSUME NEW w \in users', NEW k \in Kinds, w.token[k] # None
               PROVE  IsLink(w, k, w.token[k])'
    BY DEF TokensHold
  <2>1. ASSUME NEW u \in users, u.token[k] # None, w.token[k] = u.token[k],
               w.expires[k] = u.expires[k], w.id = u.id, w.id # v.id \/ k # kind
        PROVE  IsLink(w, k, w.token[k])'
    <3>1. IsLink(u, k, u.token[k])
      BY <2>1 DEF TokensHold
    <3>2. u.token[k] \in 1 .. L
      BY <3>1 DEF IsLink, L
    <3>3. \A s \in w.token[k] + 1 .. L + 1 :
             issued'[s].kind # issued'[w.token[k]].kind \/ issued'[s].id # issued'[w.token[k]].id
      <4> SUFFICES ASSUME NEW s \in w.token[k] + 1 .. L + 1
                   PROVE  \/ issued'[s].kind # issued'[w.token[k]].kind
                          \/ issued'[s].id # issued'[w.token[k]].id
        OBVIOUS
      <4>1. issued'[w.token[k]].kind = k /\ issued'[w.token[k]].id = w.id
        BY <1>2, <2>1, <3>1, <3>2 DEF IsLink
      <4>2. CASE s = L + 1
        BY <1>3, <2>1, <4>1, <4>2
      <4>3. CASE s # L + 1
        <5>1. s \in u.token[k] + 1 .. L /\ s \in 1 .. L
          BY <1>2, <2>1, <3>2, <4>3
        <5>2. issued[s].kind # k \/ issued[s].id # u.id
          BY <3>1, <5>1 DEF IsLink, Newest, L
        <5> QED
          BY <1>2, <2>1, <4>1, <5>1, <5>2
      <4> QED
        BY <4>2, <4>3
    <3> QED
      BY <1>2, <2>1, <3>1, <3>2, <3>3 DEF IsLink, Newest, L
  <2>2. CASE w = v /\ k = kind
    BY <1>2, <1>3, <2>2, <1>4 DEF IsLink, Newest
  <2>3. CASE w = v /\ k # kind
    <3>1. PICK u \in users : /\ u.id = v.id /\ v.token[k] = u.token[k]
                             /\ v.expires[k] = u.expires[k]
      BY <2>3
    <3> QED
      BY <2>1, <2>3, <3>1
  <2>4. CASE w \in others
    BY <2>1, <2>4
  <2> QED
    BY <2>2, <2>3, <2>4
<1>11. SentHolds'
  <2> SUFFICES ASSUME NEW w \in users', NEW t \in 1 .. L + 1, issued'[t].id = w.id
               PROVE  /\ w.sent[issued'[t].kind] # None
                      /\ issued'[t].at <= w.sent[issued'[t].kind]
    BY <1>2 DEF SentHolds
  <2>1. now # None /\ now <= now
    BY <1>4
  <2>2. CASE t = L + 1
    BY <1>3, <2>1, <2>2
  <2>3. CASE t \in 1 .. L /\ w \in others
    BY <1>2, <2>3 DEF SentHolds, L
  <2>4. CASE t \in 1 .. L /\ w = v /\ issued[t].kind = kind
    <3>1. now - issued[t].at > Cooldown
      BY <1>2, <1>6, <2>4
    <3>2. issued'[t] = issued[t] /\ issued[t].at \in Int
      BY <1>2, <1>4, <2>4
    <3> QED
      BY <1>4, <2>4, <3>1, <3>2
  <2>5. CASE t \in 1 .. L /\ w = v /\ issued[t].kind # kind
    <3>1. issued[t].id = v.id /\ issued[t].id <= ids /\ issued[t].kind \in Kinds
      BY <1>2, <1>4, <2>5 DEF IdsHold, L
    <3>2. PICK u \in users : u.id = v.id /\ v.sent[issued[t].kind] = u.sent[issued[t].kind]
      BY <1>4, <2>5, <3>1
    <3> QED
      BY <1>2, <2>5, <3>1, <3>2 DEF SentHolds, L
  <2> QED
    BY <1>t, <2>2, <2>3, <2>4, <2>5
<1> QED
  BY <1>7, <1>8, <1>9, <1>10, <1>11

(* A row v takes the place of u, whose link of one kind has been used.      *)
LEMMA LinkUsed ==
  ASSUME IInv, NEW u \in users, NEW kind \in Kinds, NEW v \in Row,
         u.token[kind] # None, Used(u.token[kind]), Replace(u, v),
         v.id = u.id, v.email = u.email,
         v.verified => kind = "verify" \/ u.verified,
         \A k \in Kinds : /\ v.token[k] = IF k = kind THEN None ELSE u.token[k]
                          /\ k # kind => v.expires[k] = u.expires[k]
                          /\ v.sent[k] = u.sent[k]
  PROVE  IInv'
<1> USE DEF IInv
<1> DEFINE t == u.token[kind]
<1>1. users' = (users \ {u}) \cup {v}
  BY DEF Replace
<1>2. /\ UNCHANGED <<now, ids, issued, outbox, inbox, req>>
      /\ uses' = [uses EXCEPT ![t] = @ + 1]
  BY DEF Used
<1>3. IsLink(u, kind, t)
  BY DEF TokensHold
<1>4. t \in 1 .. Len(issued) /\ issued[t].kind = kind /\ issued[t].id = u.id
  BY <1>3 DEF IsLink
<1>5. /\ uses' \in Seq(Nat) /\ Len(uses') = Len(uses)
      /\ \A s \in 1 .. Len(issued) : s # t => uses'[s] = uses[s]
  <2>1. uses \in Seq(Nat) /\ Len(uses) = Len(issued) /\ t \in 1 .. Len(uses)
    BY <1>4 DEF TypeOK
  <2>2. uses[t] + 1 \in Nat
    BY <2>1
  <2> QED
    BY <1>2, <2>1, <2>2
<1> HIDE DEF t
<1>6. TypeOK' /\ RequestsHold'
  BY <1>1, <1>2, <1>5 DEF TypeOK, RequestsHold
<1>7. OneAccountPerEmail'
  BY <1>1 DEF OneAccountPerEmail
<1>8. VerifiedHasNoLink'
  BY <1>1 DEF VerifiedHasNoLink, Kinds
<1>9. LinksAreSpaced'
  BY <1>2 DEF LinksAreSpaced
<1>10. IdsHold'
  <2>1. \A w \in users' : w.id <= ids'
    BY <1>1, <1>2 DEF IdsHold
  <2>2. \A w, x \in users' : w.id = x.id => w = x
    BY <1>1 DEF IdsHold
  <2> QED
    BY <1>2, <2>1, <2>2 DEF IdsHold
<1>11. TokensHold'
  <2> SUFFICES ASSUME NEW w \in users', NEW k \in Kinds, w.token[k] # None
               PROVE  IsLink(w, k, w.token[k])'
    BY DEF TokensHold
  <2>1. CASE w = v
    <3>1. k # kind /\ w.token[k] = u.token[k] /\ w.expires[k] = u.expires[k] /\ w.id = u.id
      BY <2>1
    <3>2. IsLink(u, k, u.token[k])
      BY <3>1 DEF TokensHold
    <3>3. u.token[k] \in 1 .. Len(issued) /\ u.token[k] # t
      BY <1>4, <3>1, <3>2 DEF IsLink
    <3> QED
      BY <1>2, <1>5, <3>1, <3>2, <3>3, SameLinks
  <2>2. CASE w \in users \ {u}
    <3>1. IsLink(w, k, w.token[k])
      BY <2>2 DEF TokensHold
    <3>2. w.id # u.id
      BY <2>2 DEF IdsHold
    <3>3. w.token[k] \in 1 .. Len(issued) /\ w.token[k] # t
      BY <1>4, <3>1, <3>2 DEF IsLink
    <3> QED
      BY <1>2, <1>5, <3>1, <3>3, SameLinks
  <2> QED
    BY <1>1, <2>1, <2>2
<1>12. SentHolds'
  <2> SUFFICES ASSUME NEW w \in users', NEW s \in 1 .. Len(issued), issued[s].id = w.id
               PROVE  w.sent[issued[s].kind] # None /\ issued[s].at <= w.sent[issued[s].kind]
    BY <1>2 DEF SentHolds
  <2>1. issued[s].kind \in Kinds
    BY LinkTyped
  <2>2. CASE w = v
    <3>1. v.sent[issued[s].kind] = u.sent[issued[s].kind]
      BY <2>1
    <3> QED
      BY <2>2, <3>1 DEF SentHolds
  <2>3. CASE w \in users
    BY <2>3 DEF SentHolds
  <2> QED
    BY <1>1, <2>2, <2>3
<1> QED
  BY <1>6, <1>7, <1>8, <1>9, <1>10, <1>11, <1>12

(* A row can go; what the rest speaks of stays.                             *)
LEMMA RowsGo ==
  ASSUME IInv, UNCHANGED <<ids, issued, uses>>, users' \subseteq users, TypeOK', RequestsHold'
  PROVE  IInv'
<1>1. OneAccountPerEmail' /\ VerifiedHasNoLink' /\ LinksAreSpaced'
  BY DEF IInv, OneAccountPerEmail, VerifiedHasNoLink, LinksAreSpaced
<1>2. IdsHold' /\ SentHolds'
  BY DEF IInv, IdsHold, SentHolds
<1>3. TokensHold'
  BY DEF IInv, TokensHold, IsLink, Newest
<1> QED
  BY <1>1, <1>2, <1>3 DEF IInv

------------------------------------------------------------------------------
(* Steps.                                                                   *)

(* What a request becomes is a request.                                     *)
LEMMA RequestTyped ==
  ASSUME TypeOK, NEW r \in Requests, NEW request \in Request, Becomes(r, request)
  PROVE  req' \in [Requests -> Request]
BY DEF TypeOK, Becomes

(* The request nobody serves is one.                                        *)
LEMMA IdleTyped == Idle \in Request
BY DEF Idle, Request

(* The end of a request leaves the others.                                  *)
LEMMA RespondKeeps ==
  ASSUME IInv, NEW r \in Requests, Respond(r)
  PROVE  req' \in [Requests -> Request] /\ RequestsHold'
<1>1. req' \in [Requests -> Request]
  BY IdleTyped, RequestTyped DEF IInv, Respond
<1>2. \A q \in Requests : req'[q] = req[q] \/ req'[q].stage = "idle"
  BY DEF IInv, TypeOK, Respond, Becomes, Idle
<1> QED
  BY <1>1, <1>2 DEF IInv, RequestsHold

(* A registration adds a row of an id and an address nobody has.            *)
LEMMA RegisterKeeps ==
  ASSUME IInv, NEW r \in Requests, RegisterCommit(r)
  PROVE  IInv'
<1> DEFINE e == req[r].email
           u == Fresh(e)
           v == WithLink(u, "verify")
<1> USE DEF IInv
<1>1. Len(issued) \in Nat /\ now \in 0 .. MaxTime /\ ids \in 0 .. MaxIds
  BY DEF TypeOK
<1>2. /\ ids < MaxIds /\ Len(issued) < MaxLinks /\ ~Registered(e)
      /\ users' = users \cup {v} /\ ids' = ids + 1 /\ Issue("verify", ids + 1)
      /\ Respond(r) /\ UNCHANGED <<now, inbox>>
  BY DEF RegisterCommit
<1>3. e \in Emails
  BY DEF RegisterCommit, RequestsHold
<1> HIDE DEF e
<1>4. /\ u \in Row /\ u.id = ids + 1 /\ u.email = e /\ u.verified = FALSE
      /\ \A k \in Kinds : u.token[k] = None
  <2>1. ids \in Nat /\ ids < MaxIds
    BY <1>1, <1>2
  <2> HIDE DEF v, IInv
  <2> QED
    BY <1>3, <2>1, RowFresh
<1> HIDE DEF u
<1>5. "verify" \in Kinds /\ NextLink \in 1 .. MaxLinks
  BY <1>1, <1>2 DEF Kinds, NextLink
<1>6. /\ v \in Row /\ v.id = ids + 1 /\ v.email = e /\ v.verified = FALSE
      /\ \A k \in Kinds :
           /\ v.token[k] = IF k = "verify" THEN NextLink ELSE u.token[k]
           /\ v.expires[k] = IF k = "verify" THEN now + TTL("verify") ELSE u.expires[k]
           /\ v.sent[k] = IF k = "verify" THEN now ELSE u.sent[k]
  BY <1>1, <1>4, <1>5, RowWithLink
<1> HIDE DEF v
<1>7. \A w \in users : w.id # v.id /\ w.email # v.email
  <2>1. \A w \in users : w.id <= ids /\ w.id \in Int
    BY DEF IdsHold, TypeOK, Row
  <2> QED
    BY <1>1, <1>2, <1>6, <2>1 DEF Registered
<1>8. /\ OneAccountPerEmail' /\ VerifiedHasNoLink' /\ LinksAreSpaced'
      /\ IdsHold' /\ TokensHold' /\ SentHolds'
  <2>1. v.token["verify"] = NextLink /\ v.expires["verify"] = now + TTL("verify")
        /\ v.sent["verify"] = now
    BY <1>5, <1>6
  <2>2. \A k \in Kinds \ {"verify"} : v.token[k] = None
    BY <1>4, <1>6
  <2>3. ids <= ids' /\ v.id <= ids' /\ ids' \in 0 .. MaxIds
    BY <1>1, <1>2, <1>6
  <2> QED
    BY <1>2, <1>5, <1>6, <1>7, <2>1, <2>2, <2>3, LinkAdded
<1>9. TypeOK' /\ RequestsHold'
  <2>1. ids + 1 \in 1 .. MaxIds
    BY <1>1, <1>2
  <2>2. /\ issued' \in Seq(Link) /\ uses' \in Seq(Nat) /\ Len(uses') = Len(issued')
        /\ Len(issued') = Len(issued) + 1 /\ outbox' = outbox \cup {NextLink}
    BY <1>2, <1>5, <2>1, OneMoreLink
  <2>3. outbox' \cup inbox' \subseteq 1 .. Len(issued')
    BY <1>1, <1>2, <2>2 DEF TypeOK, NextLink
  <2>4. req' \in [Requests -> Request] /\ RequestsHold'
    BY <1>2, RespondKeeps
  <2>5. users' \subseteq Row /\ ids' \in 0 .. MaxIds /\ now' \in 0 .. MaxTime
    BY <1>1, <1>2, <1>6, <2>1 DEF TypeOK
  <2> QED
    BY <2>2, <2>3, <2>4, <2>5 DEF TypeOK, Link
<1> QED
  BY <1>8, <1>9

(* A new link takes the place of the one the row had.                       *)
LEMMA StoreKeeps ==
  ASSUME IInv, NEW r \in Requests, StoreLink(r)
  PROVE  IInv'
<1> DEFINE kind == req[r].stage
<1> USE DEF IInv
<1>1. Len(issued) \in Nat /\ now \in 0 .. MaxTime /\ ids \in 0 .. MaxIds /\ users \subseteq Row
  BY DEF TypeOK
<1>2. PICK u \in users : u.id = req[r].id /\ CanStore(u, kind) /\ Replace(u, WithLink(u, kind))
  BY DEF StoreLink
<1>3. /\ kind \in Kinds /\ Len(issued) < MaxLinks /\ Issue(kind, u.id)
      /\ Respond(r) /\ UNCHANGED <<now, ids, inbox>>
  BY <1>2 DEF StoreLink
<1> DEFINE v == WithLink(u, kind)
<1> HIDE DEF kind
<1>4. NextLink \in 1 .. MaxLinks
  BY <1>1, <1>3 DEF NextLink
<1>5. /\ v \in Row /\ v.id = u.id /\ v.email = u.email /\ v.verified = u.verified
      /\ \A k \in Kinds :
           /\ v.token[k] = IF k = kind THEN NextLink ELSE u.token[k]
           /\ v.expires[k] = IF k = kind THEN now + TTL(kind) ELSE u.expires[k]
           /\ v.sent[k] = IF k = kind THEN now ELSE u.sent[k]
  BY <1>1, <1>3, <1>4, RowWithLink
<1>6. users' = (users \ {u}) \cup {v}
  BY <1>2 DEF Replace
<1> HIDE DEF v
<1>7. v.verified => v.token["verify"] = None
  BY <1>2, <1>5 DEF CanStore, VerifiedHasNoLink, Kinds
<1>8. /\ OneAccountPerEmail' /\ VerifiedHasNoLink' /\ LinksAreSpaced'
      /\ IdsHold' /\ TokensHold' /\ SentHolds'
  <2>1. v.token[kind] = NextLink /\ v.expires[kind] = now + TTL(kind) /\ v.sent[kind] = now
    BY <1>3, <1>5
  <2>2. \A k \in Kinds \ {kind} : /\ v.token[k] = u.token[k] /\ v.expires[k] = u.expires[k]
                                  /\ v.sent[k] = u.sent[k]
    BY <1>5
  <2>3. ids <= ids' /\ v.id <= ids' /\ ids' \in 0 .. MaxIds
    BY <1>1, <1>3, <1>5 DEF IdsHold
  <2>4. \A w \in users \ {u} : w.id # v.id /\ w.email # v.email
    BY <1>5 DEF IdsHold, OneAccountPerEmail
  <2>5. Issue(kind, v.id) /\ u.id = v.id /\ Cooled(u, kind)
    BY <1>2, <1>3, <1>5 DEF CanStore
  <2>6. users \ {u} \in SUBSET users
    OBVIOUS
  <2>7. \E x \in users :
           /\ x.id = v.id /\ Cooled(x, kind)
           /\ \A k \in Kinds \ {kind} : /\ v.token[k] = x.token[k]
                                        /\ v.expires[k] = x.expires[k]
                                        /\ v.sent[k] = x.sent[k]
    BY <2>2, <2>5
  <2>8. kind \in Kinds /\ v \in Row /\ UNCHANGED now
    BY <1>3, <1>5
  <2> HIDE DEF IInv
  <2> QED
    BY <1>6, <1>7, <2>1, <2>3, <2>4, <2>5, <2>6, <2>7, <2>8, LinkAdded
<1>9. TypeOK' /\ RequestsHold'
  <2>1. u.id \in 1 .. MaxIds
    BY <1>1 DEF Row
  <2>2. /\ issued' \in Seq(Link) /\ uses' \in Seq(Nat) /\ Len(uses') = Len(issued')
        /\ Len(issued') = Len(issued) + 1 /\ outbox' = outbox \cup {NextLink}
    BY <1>3, <2>1, OneMoreLink
  <2>3. outbox' \cup inbox' \subseteq 1 .. Len(issued')
    BY <1>1, <1>3, <2>2 DEF TypeOK, NextLink
  <2>4. req' \in [Requests -> Request] /\ RequestsHold'
    BY <1>3, RespondKeeps
  <2>5. users' \subseteq Row /\ ids' \in 0 .. MaxIds /\ now' \in 0 .. MaxTime
    BY <1>1, <1>3, <1>5, <1>6 DEF TypeOK
  <2> QED
    BY <2>2, <2>3, <2>4, <2>5 DEF TypeOK, Link
<1> QED
  BY <1>8, <1>9

(* A verification uses the link and leaves none.                            *)
LEMMA VerifyKeeps ==
  ASSUME IInv, NEW t \in inbox, Verify(t)
  PROVE  IInv'
<1>1. PICK u \in users : /\ Valid(u, "verify", t)
                         /\ Replace(u, [Cleared(u, "verify") EXCEPT !.verified = TRUE])
  BY DEF Verify
<1> DEFINE w == Cleared(u, "verify")
           v == [w EXCEPT !.verified = TRUE]
<1>2. u \in Row /\ "verify" \in Kinds
  BY DEF IInv, TypeOK, Kinds
<1>3. /\ w \in Row /\ w.id = u.id /\ w.email = u.email
      /\ \A k \in Kinds : /\ w.token[k] = IF k = "verify" THEN None ELSE u.token[k]
                          /\ w.expires[k] = IF k = "verify" THEN None ELSE u.expires[k]
                          /\ w.sent[k] = u.sent[k]
  BY <1>2, RowCleared
<1>4. Used(t) /\ t = u.token["verify"] /\ t # None
  <2>1. t \in 1 .. Len(issued) /\ Len(issued) \in Nat
    BY DEF IInv, TypeOK
  <2> QED
    BY <1>1, <2>1 DEF Verify, Valid
<1>5. Replace(u, v)
  BY <1>1
<1> HIDE DEF w
<1>6. /\ v \in Row /\ v.id = w.id /\ v.email = w.email
      /\ v.token = w.token /\ v.expires = w.expires /\ v.sent = w.sent
  BY <1>3 DEF Row
<1> HIDE DEF v
<1> QED
  BY <1>2, <1>3, <1>4, <1>5, <1>6, LinkUsed

(* A reset uses the link and keeps the one that verifies.                   *)
LEMMA ResetKeeps ==
  ASSUME IInv, NEW t \in inbox, Reset(t)
  PROVE  IInv'
<1>1. PICK u \in users : /\ Valid(u, "reset", t)
                         /\ Replace(u, [Cleared(u, "reset") EXCEPT !.pw = t])
  BY DEF Reset
<1> DEFINE w == Cleared(u, "reset")
           v == [w EXCEPT !.pw = t]
<1>2. u \in Row /\ "reset" \in Kinds /\ u.token["reset"] \in 1 .. MaxLinks \cup {None}
  BY DEF IInv, TypeOK, Kinds, Row
<1>3. /\ w \in Row /\ w.id = u.id /\ w.email = u.email /\ w.verified = u.verified
      /\ \A k \in Kinds : /\ w.token[k] = IF k = "reset" THEN None ELSE u.token[k]
                          /\ w.expires[k] = IF k = "reset" THEN None ELSE u.expires[k]
                          /\ w.sent[k] = u.sent[k]
  BY <1>2, RowCleared
<1>4. Used(t) /\ t = u.token["reset"] /\ t # None
  <2>1. t \in 1 .. Len(issued) /\ Len(issued) \in Nat
    BY DEF IInv, TypeOK
  <2> QED
    BY <1>1, <2>1 DEF Reset, Valid
<1>5. Replace(u, v) /\ t \in 0 .. MaxLinks
  BY <1>1, <1>2, <1>4
<1> HIDE DEF w
<1>6. /\ v \in Row /\ v.id = w.id /\ v.email = w.email /\ v.verified = w.verified
      /\ v.token = w.token /\ v.expires = w.expires /\ v.sent = w.sent
  BY <1>3, <1>5 DEF Row
<1> HIDE DEF v
<1> QED
  BY <1>2, <1>3, <1>4, <1>5, <1>6, LinkUsed

(* A request that begins.                                                   *)
LEMMA BeginKeeps ==
  ASSUME IInv, NEW r \in Requests, NEW request \in Request, Becomes(r, request),
         request.stage = "register" => request.email \in Emails,
         UNCHANGED <<now, users, ids, issued, uses, outbox, inbox>>
  PROVE  IInv'
<1>1. req' \in [Requests -> Request]
  BY RequestTyped DEF IInv
<1>2. \A q \in Requests : req'[q] = req[q] \/ req'[q] = request
  BY DEF IInv, TypeOK, Becomes
<1>3. TypeOK' /\ RequestsHold'
  BY <1>1, <1>2 DEF IInv, TypeOK, RequestsHold
<1> QED
  BY <1>3, RowsGo

(* Steps of a request that only read.                                       *)
LEMMA RequestKeeps ==
  ASSUME IInv, NEW r \in Requests, NEW e \in Emails,
         RegisterCheck(r, e) \/ (\E kind \in Kinds : FindAccount(r, e, kind)) \/ Answer(r)
  PROVE  IInv'
<1>1. CASE RegisterCheck(r, e)
  <2> DEFINE request == [stage |-> "register", email |-> e, id |-> 0]
  <2>1. request \in Request
    BY DEF Request
  <2> QED
    BY <1>1, <2>1, BeginKeeps DEF RegisterCheck
<1>2. ASSUME NEW kind \in Kinds, FindAccount(r, e, kind) PROVE IInv'
  <2>1. PICK u \in users : Becomes(r, [stage |-> kind, email |-> e, id |-> u.id])
    BY <1>2 DEF FindAccount
  <2>2. u.id \in 1 .. MaxIds
    BY DEF IInv, TypeOK, Row
  <2> DEFINE request == [stage |-> kind, email |-> e, id |-> u.id]
  <2>3. request \in Request /\ request.email = e
    BY <2>2 DEF Request, Kinds
  <2>4. UNCHANGED <<now, users, ids, issued, uses, outbox, inbox>>
    BY <1>2 DEF FindAccount
  <2> HIDE DEF request
  <2> QED
    BY <2>1, <2>3, <2>4, BeginKeeps DEF request
<1>3. CASE Answer(r)
  BY <1>3, IdleTyped, BeginKeeps DEF Answer, Respond, Idle
<1> QED
  BY <1>1, <1>2, <1>3

(* What touches neither rows nor links.                                     *)
LEMMA OthersKeep ==
  ASSUME IInv,
         \/ \E t \in outbox : SendMail(t) \/ LoseMail(t)
         \/ \E u \in users : DeleteUser(u)
         \/ Restart \/ Tick \/ UNCHANGED vars
  PROVE  IInv'
<1> USE DEF IInv
<1>1. UNCHANGED <<ids, issued, uses>> /\ users' \subseteq users
  BY DEF SendMail, LoseMail, DeleteUser, Restart, Tick, vars
<1>2. now' \in 0 .. MaxTime
  <2>1. now \in 0 .. MaxTime /\ MaxTime \in Nat
    BY DEF TypeOK
  <2>2. now' = now \/ (now < MaxTime /\ now' = now + 1)
    BY DEF SendMail, LoseMail, DeleteUser, Restart, Tick, vars
  <2> HIDE DEF IInv
  <2> QED
    BY <2>1, <2>2
<1>3. outbox' \cup inbox' \subseteq outbox \cup inbox
  BY DEF SendMail, LoseMail, DeleteUser, Restart, Tick, vars
<1>4. req' = req \/ req' = [r \in Requests |-> Idle]
  BY DEF SendMail, LoseMail, DeleteUser, Restart, Tick, vars
<1>5. req' \in [Requests -> Request] /\ RequestsHold'
  BY <1>4, IdleTyped DEF TypeOK, RequestsHold, Idle
<1>6. TypeOK'
  BY <1>1, <1>2, <1>3, <1>5 DEF TypeOK
<1> HIDE DEF IInv
<1> QED
  BY <1>1, <1>5, <1>6, RowsGo

(* The invariant is kept.                                                   *)
LEMMA NextIInv == IInv /\ [Next]_vars => IInv'
<1> SUFFICES ASSUME IInv, [Next]_vars PROVE IInv'
  OBVIOUS
<1>1. ASSUME NEW r \in Requests, NEW e \in Emails,
             RegisterCheck(r, e) \/ \E kind \in Kinds : FindAccount(r, e, kind)
      PROVE  IInv'
  BY <1>1, RequestKeeps
<1>2. ASSUME NEW r \in Requests, RegisterCommit(r) PROVE IInv'
  BY <1>2, RegisterKeeps
<1>3. ASSUME NEW r \in Requests, StoreLink(r) PROVE IInv'
  BY <1>3, StoreKeeps
<1>4. ASSUME NEW r \in Requests, Answer(r) PROVE IInv'
  BY <1>4, IdleTyped, BeginKeeps DEF Answer, Respond, Idle
<1>5. ASSUME NEW t \in inbox, Verify(t) \/ Reset(t) PROVE IInv'
  BY <1>5, VerifyKeeps, ResetKeeps
<1>6. CASE \/ \E t \in outbox : SendMail(t) \/ LoseMail(t)
           \/ \E u \in users : DeleteUser(u)
           \/ Restart \/ Tick \/ UNCHANGED vars
  BY <1>6, OthersKeep
<1> QED
  BY <1>1, <1>2, <1>3, <1>4, <1>5, <1>6 DEF Next

(* The invariant holds in every state.                                      *)
LEMMA Invariance == Spec => []IInv
BY InitIInv, NextIInv, PTL DEF Spec

------------------------------------------------------------------------------
(* Theorems.                                                                *)

(* Types: rows, links and requests keep their shape, mails in the outbox    *)
(* and in mailboxes are of links that were issued (auth_endpoints).         *)
THEOREM TypeCorrect == Spec => []TypeOK
<1>1. IInv => TypeOK
  BY DEF IInv
<1> QED
  BY <1>1, Invariance, PTL

(* However many registrations of one address overlap, whatever accounts are *)
(* deleted between them, one account has it (POST /register).               *)
THEOREM OneAccount == Spec => []OneAccountPerEmail
<1>1. IInv => OneAccountPerEmail
  BY DEF IInv
<1> QED
  BY <1>1, Invariance, PTL

(* A verified account never has a verification link, whichever resend read  *)
(* it before it was verified (POST /resend-verification).                   *)
THEOREM VerifiedDone == Spec => []VerifiedHasNoLink
<1>1. IInv => VerifiedHasNoLink
  BY DEF IInv
<1> QED
  BY <1>1, Invariance, PTL

(* Links of one kind to one account are more than the cooldown apart, for   *)
(* any number of requests that overlap (POST /forgot-password and           *)
(* POST /resend-verification).                                              *)
THEOREM LinksSpaced == Spec => []LinksAreSpaced
<1>1. IInv => LinksAreSpaced
  BY DEF IInv
<1> QED
  BY <1>1, Invariance, PTL

(* The link a step accepts is the unused, newest one of its row.            *)
LEMMA UseOfLink ==
  ASSUME IInv, NEW u \in users, NEW kind \in Kinds, NEW t,
         Valid(u, kind, t), t # None, Used(t), NEW s \in DOMAIN uses, uses'[s] # uses[s]
  PROVE  /\ uses[s] = 0
         /\ now < issued[s].at + TTL(issued[s].kind)
         /\ \E w \in users : w.id = issued[s].id
         /\ Newest(s)
<1>1. IsLink(u, kind, t)
  BY DEF IInv, TokensHold, Valid
<1>2. s = t
  BY DEF Used
<1>3. /\ u.expires[kind] = issued[t].at + TTL(kind) /\ u.expires[kind] > now
      /\ issued[t].kind = kind
  BY <1>1 DEF IsLink, Valid
<1>4. /\ issued[t].at \in Int /\ TTL(kind) \in Int /\ now \in Int
  <2>1. TypeOK /\ t \in 1 .. Len(issued)
    BY <1>1 DEF IInv, IsLink
  <2>2. issued[t].at \in 0 .. MaxTime /\ now \in 0 .. MaxTime
    BY <2>1, LinkTyped DEF TypeOK
  <2>3. TTL(kind) \in Nat
    BY DEF TTL
  <2> QED
    BY <2>2, <2>3
<1>5. now < issued[t].at + TTL(issued[t].kind)
  BY <1>3, <1>4
<1> QED
  BY <1>1, <1>2, <1>5 DEF IsLink

(* A step that counts the use of a link accepts it by one of the UPDATEs.   *)
LEMMA StepUses ==
  ASSUME IInv, [Next]_vars, NEW s \in DOMAIN uses, uses'[s] # uses[s]
  PROVE  /\ uses[s] = 0
         /\ now < issued[s].at + TTL(issued[s].kind)
         /\ \E w \in users : w.id = issued[s].id
         /\ Newest(s)
<1>1. \A t \in inbox : t # None
  BY DEF IInv, TypeOK
<1>2. ASSUME NEW t \in inbox, Verify(t)
      PROVE  \E u \in users, kind \in Kinds : Valid(u, kind, t) /\ Used(t)
  BY <1>2 DEF Verify, Kinds
<1>3. ASSUME NEW t \in inbox, Reset(t)
      PROVE  \E u \in users, kind \in Kinds : Valid(u, kind, t) /\ Used(t)
  BY <1>3 DEF Reset, Kinds
<1>4. ASSUME NEW kind, NEW id, Issue(kind, id) PROVE FALSE
  <2>1. uses \in Seq(Nat) /\ uses' = Append(uses, 0)
    BY <1>4 DEF IInv, TypeOK, Issue
  <2>2. s \in 1 .. Len(uses)
    BY <2>1
  <2> QED
    BY <2>1, <2>2
<1>5. ASSUME NEW r \in Requests, RegisterCommit(r) PROVE FALSE
  BY <1>4, <1>5 DEF RegisterCommit
<1>6. ASSUME NEW r \in Requests, StoreLink(r) PROVE FALSE
  BY <1>4, <1>6 DEF StoreLink
<1>7. \E t \in inbox : Verify(t) \/ Reset(t)
  BY <1>5, <1>6 DEF Next, vars, RegisterCheck, FindAccount, Answer, SendMail, LoseMail,
                    DeleteUser, Restart, Tick
<1> QED
  BY <1>1, <1>2, <1>3, <1>7, UseOfLink

(* For any life of the links and any overlap of requests: a link is         *)
(* accepted once at most, in its time, for the account it was mailed for,   *)
(* and never after a newer one (POST /verify-email, POST /reset-password).  *)
THEOREM LinksOnce == Spec => LinksWorkOnce
<1> DEFINE Once == \A t \in DOMAIN uses :
                      uses'[t] # uses[t]
                      => /\ uses[t] = 0
                         /\ now < issued[t].at + TTL(issued[t].kind)
                         /\ \E u \in users : u.id = issued[t].id
                         /\ Newest(t)
<1>1. IInv /\ [Next]_vars => [Once]_vars
  BY StepUses
<1> QED
  BY <1>1, Invariance, PTL DEF Spec, LinksWorkOnce
==============================================================================
