----------------------------- MODULE Clients_proofs -----------------------------
(***************************************************************************)
(* Theorems about what the clients hold: the sessions of any number of     *)
(* users and browsers, the documents shown by any number of pages, and the *)
(* opening hours of a shop, for any day and week; and about how any number *)
(* of people become riders.                                                *)
(***************************************************************************)
EXTENDS Sessions, LivePage, RiderAccounts, OpeningHours, FiniteSetTheorems, TLAPS

-----------------------------------------------------------------------------
(***************************************************************************)
(* Sessions                                                                *)
(***************************************************************************)

CallSteps == {"createUser", "readUser", "issue", "rotate", "reuse", "signedIn",
              "signedOut", "savePassword", "saveSuspended", "saveActive", "revoke"}

Revoking(u) == \E c \in Calls : call[c].at = "revoke" /\ call[c].user = u

(* Someone who proved who he is in epoch n need not do so again.            *)
Excused(u, n) == n = epoch[u] \/ u \in cutOff \/ Revoking(u)

TokenKnows(k) ==
  /\ token[k] # "none" => holder[k] \in Users /\ account[holder[k]] # "none"
  /\ token[k] = "live" => Excused(holder[k], issuedIn[k]) \/ k \in late

CookieKnows(b) == cookie[b] # NoToken => token[cookie[b]] # "none"

UserKnows(u) == account[u] = "none" => epoch[u] = 0 /\ u \notin resetLinks

(* What a call that is under way rests on.                                  *)
CallKnows(c) ==
  LET r == call[c] IN
  /\ r.at # "idle" => r.user \in Users
  /\ r.at = "idle" => r.old = NoToken
  /\ r.at = "createUser" => r.epoch = 0
  /\ r.at \notin {"idle", "createUser"} => account[r.user] # "none"
  /\ r.at \in {"readUser", "issue"} => r.overtaken \/ Excused(r.user, r.epoch)
  /\ r.at \in {"rotate", "signedIn"} => r.new \in Tokens /\ token[r.new] # "none"
  /\ r.at = "rotate" => r.old # NoToken
  /\ r.old # NoToken => token[r.old] # "none" /\ r.tab \in Tabs
  /\ r.at \in {"signedIn", "signedOut", "createUser", "readUser", "issue"} => r.tab \in Tabs

SessionInv ==
  /\ SessionsTypeOK
  /\ \A k \in Tokens : TokenKnows(k)
  /\ \A b \in Browsers : CookieKnows(b)
  /\ \A u \in Users : UserKnows(u)
  /\ \A c \in Calls : CallKnows(c)

-----------------------------------------------------------------------------
(* How calls change *)

LEMMA NoCallFacts ==
  /\ NoCall \in CallType /\ NoCall.at = "idle" /\ NoCall.user = NoUser
  /\ NoCall.tab = NoTab /\ NoCall.old = NoToken /\ NoCall.new = NoToken
BY SessionsAssumption DEF NoCall, CallType

LEMMA CallTypes ==
  ASSUME SessionsTypeOK, NEW c \in Calls
  PROVE  /\ call[c] \in CallType /\ call[c].user \in Users \cup {NoUser}
         /\ call[c].old \in Tokens \cup {NoToken} /\ call[c].new \in Tokens \cup {NoToken}
         /\ call[c].epoch \in 0..MaxEpoch /\ call[c].overtaken \in BOOLEAN
         /\ call[c].tab \in Tabs \cup {NoTab}
BY DEF SessionsTypeOK, CallType

LEMMA StepFacts ==
  ASSUME SessionsTypeOK, NEW c \in Calls, NEW at \in CallSteps, Step(c, at)
  PROVE  /\ call' \in [Calls -> CallType]
         /\ \A d \in Calls \ {c} : call'[d] = call[d]
         /\ call'[c].at = at /\ call'[c].user = call[c].user /\ call'[c].tab = call[c].tab
         /\ call'[c].old = call[c].old /\ call'[c].new = call[c].new
         /\ call'[c].epoch = call[c].epoch /\ call'[c].overtaken = call[c].overtaken
BY DEF Step, SessionsTypeOK, CallType, CallSteps

LEMMA AnswerFacts ==
  ASSUME SessionsTypeOK, NEW c \in Calls, Answer(c)
  PROVE  /\ call' \in [Calls -> CallType] /\ call'[c] = NoCall
         /\ \A d \in Calls \ {c} : call'[d] = call[d]
BY NoCallFacts DEF Answer, SessionsTypeOK

LEMMA TakeFacts ==
  ASSUME SessionsTypeOK, NEW c \in Calls, NEW r \in CallType, Take(c, r)
  PROVE  /\ call' \in [Calls -> CallType] /\ call'[c] = r /\ call[c].at = "idle"
         /\ \A d \in Calls \ {c} : call'[d] = call[d]
BY DEF Take, SessionsTypeOK

LEMMA SessionsInitial == SessionsInit => SessionInv
<1> SUFFICES ASSUME SessionsInit PROVE SessionInv
  OBVIOUS
<1>1. 0 \in 0..MaxEpoch /\ 0 \in 0..MaxLost
  BY SessionsAssumption
<1>2. SessionsTypeOK
  BY <1>1, NoCallFacts DEF SessionsInit, SessionsTypeOK
<1>3. \A c \in Calls : CallKnows(c)
  BY NoCallFacts DEF SessionsInit, CallKnows
<1>4. QED
  BY <1>2, <1>3 DEF SessionsInit, SessionInv, TokenKnows, CookieKnows, UserKnows

(* Revocations that are under way stay so when another call goes on.        *)
LEMMA RevokingStays ==
  ASSUME NEW c \in Calls, call[c].at # "revoke" \/ (call'[c].at = "revoke" /\ call'[c].user = call[c].user),
         \A d \in Calls \ {c} : call'[d] = call[d]
  PROVE  \A u : Revoking(u) => Revoking(u)'
BY DEF Revoking

(* A call that changes nothing but itself, and its user is excused when it  *)
(* has to be.                                                               *)
LEMMA OwnStep ==
  ASSUME SessionInv, NEW c \in Calls, call' \in [Calls -> CallType],
         \A d \in Calls \ {c} : call'[d] = call[d],
         call[c].at # "revoke", CallKnows(c)',
         UNCHANGED <<account, resetLinks, cookie, tokenVars, historyVars>>
  PROVE  SessionInv'
<1> USE DEF SessionInv, tokenVars, historyVars
<1>1. \A u : Revoking(u) => Revoking(u)'
  BY RevokingStays
<1>2. \A u, n : Excused(u, n) => Excused(u, n)'
  BY <1>1 DEF Excused
<1>3. SessionsTypeOK'
  BY DEF SessionsTypeOK
<1>4. \A k \in Tokens : TokenKnows(k)'
  BY <1>2 DEF TokenKnows
<1>5. \A b \in Browsers : CookieKnows(b)'
  BY DEF CookieKnows
<1>6. \A u \in Users : UserKnows(u)'
  BY DEF UserKnows
<1>7. \A d \in Calls : CallKnows(d)'
  BY <1>2 DEF CallKnows
<1>8. QED
  BY <1>3, <1>4, <1>5, <1>6, <1>7

(* Requests that begin with the user they are about.                        *)
LEMMA RequestStep ==
  ASSUME SessionInv, NEW c \in Calls, NEW u \in Users, NEW t \in Tabs \cup {NoTab}, NEW at \in CallSteps,
         Take(c, From(u, t, at)),
         \/ at = "createUser" /\ account[u] = "none" /\ t \in Tabs
         \/ at = "issue" /\ account[u] # "none" /\ t \in Tabs
         \/ at \in {"savePassword", "saveSuspended", "saveActive"} /\ account[u] # "none",
         UNCHANGED <<account, resetLinks, cookie, tokenVars, historyVars>>
  PROVE  SessionInv'
<1> DEFINE r == From(u, t, at)
<1>1. /\ r \in CallType /\ r.at = at /\ r.user = u /\ r.tab = t /\ r.old = NoToken
      /\ r.epoch = epoch[u]
  <2>1. SessionsTypeOK
    BY DEF SessionInv
  <2>2. QED
    BY <2>1 DEF From, SessionsTypeOK, CallType, CallSteps
<1>2. Take(c, r)
  OBVIOUS
<1> HIDE DEF r
<1>3. /\ call' \in [Calls -> CallType] /\ call'[c] = r /\ call[c].at = "idle"
      /\ \A d \in Calls \ {c} : call'[d] = call[d]
  BY <1>1, <1>2, TakeFacts DEF SessionInv
<1>4. UserKnows(u)
  BY DEF SessionInv
<1>5. CallKnows(c)'
  BY <1>1, <1>3, <1>4 DEF CallKnows, Excused, UserKnows, historyVars
<1>6. QED
  BY <1>3, <1>5, OwnStep

LEMMA SigningInStep ==
  ASSUME SessionInv, NEW c \in Calls, NEW t \in Tabs, NEW u \in Users,
         register(c, t, u) \/ login(c, t, u)
  PROVE  SessionInv'
<1>1. "createUser" \in CallSteps /\ "issue" \in CallSteps /\ t \in Tabs \cup {NoTab}
  BY DEF CallSteps
<1>2. CASE register(c, t, u)
  BY <1>1, <1>2, RequestStep DEF register
<1>3. CASE login(c, t, u)
  BY <1>1, <1>3, RequestStep DEF login
<1>4. QED
  BY <1>2, <1>3

LEMMA AccountRequestStep ==
  ASSUME SessionInv, NEW c \in Calls, NEW u \in Users,
         resetPassword(c, u) \/ changePassword(c, u) \/ suspend(c, u) \/ reactivate(c, u)
  PROVE  SessionInv'
<1>1. /\ {"savePassword", "saveSuspended", "saveActive"} \subseteq CallSteps
      /\ NoTab \in Tabs \cup {NoTab}
  BY DEF CallSteps
<1>2. account[u] # "none"
  BY DEF resetPassword, changePassword, suspend, reactivate, SessionInv, UserKnows
<1>3. CASE resetPassword(c, u) \/ changePassword(c, u)
  BY <1>1, <1>2, <1>3, RequestStep DEF resetPassword, changePassword, By
<1>4. CASE suspend(c, u)
  BY <1>1, <1>2, <1>4, RequestStep DEF suspend, By
<1>5. CASE reactivate(c, u)
  BY <1>1, <1>2, <1>5, RequestStep DEF reactivate, By
<1>6. QED
  BY <1>3, <1>4, <1>5

(* What a refresh goes on with.                                             *)
LEMMA RefreshFacts ==
  ASSUME SessionInv, NEW c \in Calls, NEW t \in Tabs, refresh(c, t)
  PROVE  LET k == cookie[BrowserOf[t]] IN
         /\ k \in Tokens /\ holder[k] \in Users /\ token[k] # "none" /\ ~ Locked(t)
         /\ call[c].at = "idle" /\ call' \in [Calls -> CallType]
         /\ call'[c].user = holder[k] /\ call'[c].tab = t /\ call'[c].old = k
         /\ call'[c].epoch = issuedIn[k] /\ (call'[c].overtaken <=> k \in late)
         /\ \A d \in Calls \ {c} : call'[d] = call[d]
         /\ \/ call'[c].at = "readUser" /\ token[k] = "live"
            \/ call'[c].at = "reuse" /\ token[k] = "revoked"
<1> DEFINE k == cookie[BrowserOf[t]]
           u == holder[k]
           q == From(u, t, "readUser")
           r == [q EXCEPT !.old = k, !.epoch = issuedIn[k], !.overtaken = (k \in late)]
           s == [r EXCEPT !.at = "reuse"]
<1>1. BrowserOf[t] \in Browsers
  BY SessionsAssumption
<1>2. k \in Tokens /\ ~ Locked(t)
  BY <1>1 DEF refresh, SessionInv, SessionsTypeOK
<1>3. token[k] # "none" /\ u \in Users
  BY <1>1, <1>2 DEF SessionInv, CookieKnows, TokenKnows, refresh
<1>4. q \in CallType /\ q.at = "readUser" /\ q.user = u /\ q.tab = t
  <2>1. SessionsTypeOK
    BY DEF SessionInv
  <2> HIDE DEF u
  <2>2. QED
    BY <1>3, <2>1 DEF From, SessionsTypeOK, CallType
<1>5. issuedIn[k] \in 0..MaxEpoch /\ (k \in late) \in BOOLEAN
  BY <1>2 DEF SessionInv, SessionsTypeOK
<1>6. \/ token[k] = "live" /\ Take(c, r)
      \/ token[k] = "revoked" /\ Take(c, s)
  BY DEF refresh
<1> HIDE DEF q, k, u
<1>7. /\ r \in CallType /\ r.at = "readUser" /\ r.user = u /\ r.tab = t /\ r.old = k
      /\ r.epoch = issuedIn[k] /\ r.overtaken = (k \in late)
  BY <1>2, <1>4, <1>5 DEF CallType
<1> HIDE DEF r
<1>8. /\ s \in CallType /\ s.at = "reuse" /\ s.user = u /\ s.tab = t /\ s.old = k
      /\ s.epoch = issuedIn[k] /\ s.overtaken = (k \in late)
  BY <1>7 DEF CallType
<1> HIDE DEF s
<1>9. CASE token[k] = "live" /\ Take(c, r)
  BY <1>2, <1>3, <1>7, <1>9, TakeFacts DEF k, u, SessionInv
<1>10. CASE token[k] = "revoked" /\ Take(c, s)
  BY <1>2, <1>3, <1>8, <1>10, TakeFacts DEF k, u, SessionInv
<1>11. QED
  BY <1>6, <1>9, <1>10

LEMMA RefreshStep ==
  ASSUME SessionInv, NEW c \in Calls, NEW t \in Tabs, refresh(c, t)
  PROVE  SessionInv'
<1>1. PICK k \in Tokens, u \in Users :
      /\ holder[k] = u /\ token[k] # "none"
      /\ call[c].at = "idle" /\ call' \in [Calls -> CallType]
      /\ call'[c].user = u /\ call'[c].tab = t /\ call'[c].old = k
      /\ call'[c].epoch = issuedIn[k] /\ (call'[c].overtaken <=> k \in late)
      /\ \A d \in Calls \ {c} : call'[d] = call[d]
      /\ \/ call'[c].at = "readUser" /\ token[k] = "live"
         \/ call'[c].at = "reuse" /\ token[k] = "revoked"
  BY RefreshFacts
<1>2. UNCHANGED <<account, resetLinks, cookie, tokenVars, historyVars>>
  BY DEF refresh
<1>3. TokenKnows(k)
  BY <1>1 DEF SessionInv
<1>4. Revoking(u) => Revoking(u)'
  BY <1>1, RevokingStays
<1>5. Excused(u, issuedIn[k]) => Excused(u, issuedIn[k])'
  BY <1>2, <1>4 DEF Excused, historyVars, tokenVars
<1>6. issuedIn'[k] = issuedIn[k] /\ token' = token
  BY <1>2 DEF tokenVars
<1>7. (call[c].at = "readUser" => call[c].overtaken \/ Excused(u, call[c].epoch))'
  BY <1>1, <1>3, <1>5, <1>6 DEF TokenKnows
<1>8. CallKnows(c)'
  BY <1>1, <1>2, <1>3, <1>6, <1>7 DEF CallKnows, TokenKnows
<1>9. QED
  BY <1>1, <1>2, <1>8, OwnStep

LEMMA AssertActiveStep ==
  ASSUME SessionInv, NEW c \in Calls, assertActive(c)
  PROVE  SessionInv'
<1>1. /\ call[c].at = "readUser" /\ CallKnows(c)
      /\ UNCHANGED <<account, resetLinks, cookie, tokenVars, historyVars>>
  BY DEF assertActive, SessionInv
<1>2. CASE Step(c, "issue")
  <2>1. "issue" \in CallSteps
    BY DEF CallSteps
  <2>2. /\ call' \in [Calls -> CallType]
        /\ \A d \in Calls \ {c} : call'[d] = call[d]
        /\ call'[c].at = "issue" /\ call'[c].user = call[c].user /\ call'[c].tab = call[c].tab
        /\ call'[c].old = call[c].old
        /\ call'[c].epoch = call[c].epoch /\ call'[c].overtaken = call[c].overtaken
    BY <1>2, <2>1, StepFacts DEF SessionInv
  <2>3. \A u : Revoking(u) => Revoking(u)'
    BY <1>1, <2>2, RevokingStays
  <2>4. \A u, n : Excused(u, n) => Excused(u, n)'
    BY <1>1, <2>3 DEF Excused, historyVars
  <2>5. CallKnows(c)'
    BY <1>1, <2>2, <2>4 DEF CallKnows, tokenVars
  <2>6. QED
    BY <1>1, <2>2, <2>5, OwnStep
<1>3. CASE Answer(c)
  <2>1. /\ call' \in [Calls -> CallType] /\ call'[c] = NoCall
        /\ \A d \in Calls \ {c} : call'[d] = call[d]
    BY <1>3, AnswerFacts DEF SessionInv
  <2>2. CallKnows(c)'
    BY <2>1, NoCallFacts DEF CallKnows
  <2>3. QED
    BY <1>1, <2>1, <2>2, OwnStep
<1>4. QED
  BY <1>2, <1>3 DEF assertActive

(* A step that issues no token, takes no account back to none, and excuses  *)
(* whom the last one did.                                                   *)
LEMMA SessionFrame ==
  ASSUME SessionInv, SessionsTypeOK',
         \A d \in Calls : call'[d] = call[d] \/ CallKnows(d)',
         \A u \in Users : account'[u] = "none" => account[u] = "none",
         \A u \in Users : UserKnows(u)',
         \A k \in Tokens : \/ token'[k] = token[k]
                           \/ token[k] # "none" /\ token'[k] \in {"revoked", "expired"},
         \A b \in Browsers : \/ cookie'[b] \in {cookie[b], NoToken}
                             \/ token[cookie'[b]] # "none",
         \A u \in Users : \A n : Excused(u, n) => Excused(u, n)',
         UNCHANGED <<holder, issuedIn, late>>
  PROVE  SessionInv'
<1> USE DEF SessionInv
<1>1. \A k \in Tokens : token[k] # "none" => token'[k] # "none"
  OBVIOUS
<1>2. ASSUME NEW k \in Tokens PROVE TokenKnows(k)'
  <2>1. TokenKnows(k)
    OBVIOUS
  <2>2. token'[k] # "none" => holder[k] \in Users /\ account[holder[k]] # "none"
    BY <2>1 DEF TokenKnows
  <2>3. token'[k] = "live" => Excused(holder[k], issuedIn[k]) \/ k \in late
    BY <2>1 DEF TokenKnows
  <2>4. holder[k] \in Users => (Excused(holder[k], issuedIn[k]) => Excused(holder[k], issuedIn[k])')
    <3>1. PICK u, n : u = holder[k] /\ n = issuedIn[k]
      OBVIOUS
    <3>2. u \in Users => (Excused(u, n) => Excused(u, n)')
      OBVIOUS
    <3>3. QED
      BY <3>1, <3>2 DEF Excused, Revoking
  <2>5. QED
    BY <2>2, <2>3, <2>4 DEF TokenKnows
<1>3. ASSUME NEW b \in Browsers PROVE CookieKnows(b)'
  <2>1. CookieKnows(b) /\ cookie'[b] \in Tokens \cup {NoToken}
    BY DEF SessionsTypeOK
  <2>2. QED
    BY <2>1, <1>1 DEF CookieKnows
<1>4. ASSUME NEW d \in Calls, call'[d] = call[d] PROVE CallKnows(d)'
  <2>1. CallKnows(d) /\ call[d] \in CallType
    BY DEF SessionsTypeOK
  <2>2. call[d].at # "idle" => call[d].user \in Users
    BY <2>1 DEF CallKnows
  <2>3. call[d].at \notin {"idle", "createUser"} => account'[call[d].user] # "none"
    BY <2>1 DEF CallKnows
  <2>4. PICK u, n : u = call[d].user /\ n = call[d].epoch
    OBVIOUS
  <2>5. (call[d].at \in {"readUser", "issue"} => call[d].overtaken \/ Excused(call[d].user, call[d].epoch))'
    <3>1. call[d].at \in {"readUser", "issue"} => call[d].overtaken \/ Excused(u, n)
      BY <2>1, <2>4 DEF CallKnows
    <3>2. u \in Users => (Excused(u, n) => Excused(u, n)')
      OBVIOUS
    <3>3. call[d].at \in {"readUser", "issue"} => call[d].overtaken \/ Excused(u, n)'
      BY <2>2, <2>4, <3>1, <3>2
    <3>4. QED
      BY <1>4, <2>4, <3>3 DEF Excused, Revoking
  <2>6. call[d].old # NoToken => token'[call[d].old] # "none" /\ call[d].tab \in Tabs
    BY <2>1, <1>1 DEF CallKnows, CallType
  <2>7. call[d].at \in {"rotate", "signedIn"} => call[d].new \in Tokens /\ token'[call[d].new] # "none"
    BY <2>1, <1>1 DEF CallKnows
  <2>8. QED
    BY <1>4, <2>1, <2>2, <2>3, <2>5, <2>6, <2>7 DEF CallKnows
<1>5. QED
  BY <1>2, <1>3, <1>4

(* The same for one call that goes on, by another way than a revocation.    *)
LEMMA CallFrame ==
  ASSUME SessionInv, SessionsTypeOK', NEW c \in Calls,
         \A d \in Calls \ {c} : call'[d] = call[d],
         call[c].at # "revoke" \/ call'[c] = call[c], CallKnows(c)',
         \A u \in Users : account'[u] = "none" => account[u] = "none",
         \A k \in Tokens : \/ token'[k] = token[k]
                           \/ token[k] # "none" /\ token'[k] \in {"revoked", "expired"},
         \A b \in Browsers : \/ cookie'[b] \in {cookie[b], NoToken}
                             \/ token[cookie'[b]] # "none",
         \A u \in Users : u \in resetLinks' => u \in resetLinks,
         UNCHANGED <<holder, issuedIn, late, epoch, cutOff>>
  PROVE  SessionInv'
<1>1. \A u : Revoking(u) => Revoking(u)'
  BY RevokingStays
<1>2. \A u \in Users : \A n : Excused(u, n) => Excused(u, n)'
  BY <1>1 DEF Excused
<1>3. \A u \in Users : UserKnows(u)'
  BY DEF UserKnows, SessionInv
<1>4. QED
  BY <1>2, <1>3, SessionFrame

(* What a call that has ended knows is nothing.                             *)
LEMMA Ended ==
  ASSUME NEW c \in Calls, call'[c] = NoCall PROVE CallKnows(c)'
BY NoCallFacts DEF CallKnows

LEMMA CreateUserStep ==
  ASSUME SessionInv, NEW c \in Calls, CreateUser(c) PROVE SessionInv'
<1>1. /\ call[c].at = "createUser" /\ CallKnows(c) /\ SessionsTypeOK
      /\ UNCHANGED <<resetLinks, cookie, tokenVars, historyVars>>
  BY DEF CreateUser, SessionInv
<1>2. PICK u \in Users : u = call[c].user
  BY <1>1 DEF CallKnows
<1>3. CASE account[u] = "none"
  <2>1. /\ account' = [account EXCEPT ![u] = "active"] /\ Step(c, "issue") /\ "issue" \in CallSteps
    BY <1>2, <1>3 DEF CreateUser, CallSteps
  <2>2. /\ account'[u] = "active" /\ \A v \in Users \ {u} : account'[v] = account[v]
        /\ account' \in [Users -> {"none", "active", "suspended"}]
    BY <1>1, <2>1 DEF SessionsTypeOK
  <2>3. /\ call' \in [Calls -> CallType] /\ \A d \in Calls \ {c} : call'[d] = call[d]
        /\ call'[c].at = "issue" /\ call'[c].user = u /\ call'[c].tab = call[c].tab
        /\ call'[c].old = call[c].old /\ call'[c].epoch = call[c].epoch
    BY <1>1, <1>2, <2>1, StepFacts
  <2>4. SessionsTypeOK'
    BY <1>1, <2>2, <2>3 DEF SessionsTypeOK, tokenVars, historyVars
  <2>5. epoch[u] = 0 /\ call[c].epoch = 0
    BY <1>1, <1>3 DEF SessionInv, UserKnows, CallKnows
  <2>6. CallKnows(c)'
    BY <1>1, <2>2, <2>3, <2>5 DEF CallKnows, Excused, tokenVars, historyVars
  <2>7. QED
    BY <1>1, <2>2, <2>3, <2>4, <2>6, CallFrame DEF tokenVars, historyVars
<1>4. CASE account[u] # "none"
  <2>1. UNCHANGED account /\ Answer(c)
    BY <1>2, <1>4 DEF CreateUser
  <2>2. /\ call' \in [Calls -> CallType] /\ call'[c] = NoCall
        /\ \A d \in Calls \ {c} : call'[d] = call[d]
    BY <1>1, <2>1, AnswerFacts
  <2>3. QED
    BY <1>1, <2>1, <2>2, Ended, OwnStep
<1>5. QED
  BY <1>3, <1>4

LEMMA CookieStep ==
  ASSUME SessionInv, NEW c \in Calls, setRefreshCookie(c) \/ clearCookie(c) PROVE SessionInv'
<1>1. /\ call[c].at \in {"signedIn", "signedOut"} /\ CallKnows(c) /\ SessionsTypeOK /\ Answer(c)
      /\ UNCHANGED <<account, resetLinks, tokenVars, historyVars>>
  BY DEF setRefreshCookie, clearCookie, SessionInv
<1>2. /\ call' \in [Calls -> CallType] /\ call'[c] = NoCall
      /\ \A d \in Calls \ {c} : call'[d] = call[d]
  BY <1>1, AnswerFacts
<1>3. PICK k \in Tokens \cup {NoToken}, b \in Browsers :
        cookie' = [cookie EXCEPT ![b] = k] /\ (k # NoToken => token[k] # "none")
  <2>1. BrowserOf[call[c].tab] \in Browsers
    BY <1>1, SessionsAssumption DEF CallKnows
  <2>2. CASE setRefreshCookie(c)
    BY <2>1, <2>2, <1>1 DEF setRefreshCookie, CallKnows
  <2>3. CASE clearCookie(c)
    BY <2>1, <2>3 DEF clearCookie
  <2>4. QED
    BY <2>2, <2>3
<1>4. /\ cookie' \in [Browsers -> Tokens \cup {NoToken}]
      /\ \A a \in Browsers : cookie'[a] \in {cookie[a], NoToken} \/ token[cookie'[a]] # "none"
  BY <1>1, <1>3 DEF SessionsTypeOK
<1>5. SessionsTypeOK'
  BY <1>1, <1>2, <1>4 DEF SessionsTypeOK, tokenVars, historyVars
<1>6. QED
  BY <1>1, <1>2, <1>4, <1>5, Ended, CallFrame DEF tokenVars, historyVars

LEMMA RotateStep ==
  ASSUME SessionInv, NEW c \in Calls, Rotate(c) PROVE SessionInv'
<1>1. /\ call[c].at = "rotate" /\ CallKnows(c) /\ SessionsTypeOK /\ Step(c, "signedIn")
      /\ UNCHANGED <<account, resetLinks, cookie, holder, issuedIn, late, historyVars>>
      /\ "signedIn" \in CallSteps
  BY DEF Rotate, SessionInv, CallSteps
<1>2. PICK k \in Tokens :
        /\ k = call[c].old /\ token[k] # "none"
        /\ token' = [token EXCEPT ![k] = IF token[k] = "expired" THEN "expired" ELSE "revoked"]
  BY <1>1, CallTypes DEF Rotate, CallKnows
<1>3. /\ call' \in [Calls -> CallType] /\ \A d \in Calls \ {c} : call'[d] = call[d]
      /\ call'[c].at = "signedIn" /\ call'[c].user = call[c].user /\ call'[c].tab = call[c].tab
      /\ call'[c].old = call[c].old /\ call'[c].new = call[c].new
  BY <1>1, StepFacts
<1>4. /\ token' \in [Tokens -> {"none", "live", "revoked", "expired"}]
      /\ \A j \in Tokens : \/ token'[j] = token[j]
                           \/ token[j] # "none" /\ token'[j] \in {"revoked", "expired"}
      /\ \A j \in Tokens : token[j] # "none" => token'[j] # "none"
  BY <1>1, <1>2 DEF SessionsTypeOK
<1>5. SessionsTypeOK'
  BY <1>1, <1>3, <1>4 DEF SessionsTypeOK, historyVars
<1>6. CallKnows(c)'
  BY <1>1, <1>2, <1>3, <1>4 DEF CallKnows
<1>7. QED
  BY <1>1, <1>3, <1>4, <1>5, <1>6, CallFrame DEF historyVars

LEMMA ReuseStep ==
  ASSUME SessionInv, NEW c \in Calls, reuseDetected(c) PROVE SessionInv'
<1>1. /\ call[c].at = "reuse" /\ SessionsTypeOK /\ Answer(c) /\ RevokeAll(call[c].user)
      /\ UNCHANGED <<account, resetLinks, cookie, holder, issuedIn, late, historyVars>>
  BY DEF reuseDetected, SessionInv
<1>2. /\ call' \in [Calls -> CallType] /\ call'[c] = NoCall
      /\ \A d \in Calls \ {c} : call'[d] = call[d]
  BY <1>1, AnswerFacts
<1>3. /\ token' \in [Tokens -> {"none", "live", "revoked", "expired"}]
      /\ \A j \in Tokens : \/ token'[j] = token[j]
                           \/ token[j] # "none" /\ token'[j] \in {"revoked", "expired"}
  BY <1>1 DEF SessionsTypeOK, RevokeAll, LiveTokensOf
<1>4. SessionsTypeOK'
  BY <1>1, <1>2, <1>3 DEF SessionsTypeOK, historyVars
<1>5. QED
  BY <1>1, <1>2, <1>3, <1>4, Ended, CallFrame DEF historyVars

(* Who signs out shows a token that was issued to him.                      *)
LEMMA LogoutFacts ==
  ASSUME SessionInv, NEW c \in Calls, NEW t \in Tabs, logout(c, t)
  PROVE  LET k == cookie[BrowserOf[t]] IN
         /\ k \in Tokens /\ holder[k] \in Users /\ token[k] # "none"
         /\ token' = [token EXCEPT ![k] = IF token[k] = "live" THEN "revoked" ELSE token[k]]
         /\ provoked' = provoked \cup {holder[k]}
         /\ call[c].at = "idle" /\ call' \in [Calls -> CallType]
         /\ call'[c].at = "signedOut" /\ call'[c].user = holder[k]
         /\ call'[c].tab = t /\ call'[c].old = NoToken
         /\ \A d \in Calls \ {c} : call'[d] = call[d]
         /\ UNCHANGED <<account, resetLinks, cookie, holder, issuedIn, late, epoch, cutOff, lost>>
<1> DEFINE k == cookie[BrowserOf[t]]
           r == From(holder[k], t, "signedOut")
<1>1. BrowserOf[t] \in Browsers /\ SessionsTypeOK
  BY SessionsAssumption DEF SessionInv
<1>2. k \in Tokens
  BY <1>1 DEF logout, SessionsTypeOK
<1>3. token[k] # "none" /\ holder[k] \in Users /\ account[holder[k]] # "none"
  BY <1>1, <1>2 DEF SessionInv, CookieKnows, TokenKnows, logout
<1>4. /\ r \in CallType /\ r.at = "signedOut" /\ r.user = holder[k] /\ r.tab = t
      /\ r.old = NoToken
  BY <1>1, <1>3 DEF From, SessionsTypeOK, CallType
<1>5. /\ token' = [token EXCEPT ![k] = IF token[k] = "live" THEN "revoked" ELSE token[k]]
      /\ provoked' = provoked \cup {holder[k]} /\ Take(c, r)
      /\ UNCHANGED <<account, resetLinks, cookie, holder, issuedIn, late, epoch, cutOff, lost>>
  BY DEF logout
<1> HIDE DEF r, k
<1>6. /\ call' \in [Calls -> CallType] /\ call'[c] = r /\ call[c].at = "idle"
      /\ \A d \in Calls \ {c} : call'[d] = call[d]
  BY <1>1, <1>4, <1>5, TakeFacts
<1>7. QED
  BY <1>2, <1>3, <1>4, <1>5, <1>6 DEF k

LEMMA LogoutStep ==
  ASSUME SessionInv, NEW c \in Calls, NEW t \in Tabs, logout(c, t) PROVE SessionInv'
<1>1. PICK k \in Tokens, u \in Users :
         /\ u = holder[k] /\ token[k] # "none"
         /\ token' = [token EXCEPT ![k] = IF token[k] = "live" THEN "revoked" ELSE token[k]]
         /\ provoked' = provoked \cup {u}
         /\ call[c].at = "idle" /\ call' \in [Calls -> CallType]
         /\ call'[c].at = "signedOut" /\ call'[c].user = u
         /\ call'[c].tab = t /\ call'[c].old = NoToken
         /\ \A d \in Calls \ {c} : call'[d] = call[d]
         /\ UNCHANGED <<account, resetLinks, cookie, holder, issuedIn, late, epoch, cutOff, lost>>
  BY LogoutFacts
<1>2. SessionsTypeOK /\ TokenKnows(k)
  BY DEF SessionInv
<1>3. /\ token' \in [Tokens -> {"none", "live", "revoked", "expired"}]
      /\ \A j \in Tokens : \/ token'[j] = token[j]
                           \/ token[j] # "none" /\ token'[j] \in {"revoked", "expired"}
  BY <1>1, <1>2 DEF SessionsTypeOK
<1>4. SessionsTypeOK'
  BY <1>1, <1>2, <1>3 DEF SessionsTypeOK
<1>5. CallKnows(c)'
  BY <1>1, <1>2 DEF CallKnows, TokenKnows
<1>6. QED
  BY <1>1, <1>3, <1>4, <1>5, CallFrame

LEMMA ForgotExpireStep ==
  ASSUME SessionInv, (\E u \in Users : forgotPassword(u)) \/ (\E k \in Tokens : Expire(k))
  PROVE  SessionInv'
<1>0. SessionsTypeOK
  BY DEF SessionInv
<1>1. ASSUME NEW u \in Users, forgotPassword(u) PROVE SessionInv'
  <2>1. /\ account[u] # "none" /\ resetLinks' = resetLinks \cup {u}
        /\ UNCHANGED <<account, cookie, call, tokenVars, historyVars>>
    BY <1>1 DEF forgotPassword
  <2>2. SessionsTypeOK'
    BY <1>0, <2>1 DEF SessionsTypeOK, tokenVars, historyVars
  <2>3. \A v \in Users : UserKnows(v)'
    BY <2>1 DEF SessionInv, UserKnows, historyVars
  <2>4. \A v \in Users : \A n : Excused(v, n) => Excused(v, n)'
    BY <2>1 DEF Excused, Revoking, historyVars
  <2>5. QED
    BY <2>1, <2>2, <2>3, <2>4, SessionFrame DEF tokenVars
<1>2. ASSUME NEW k \in Tokens, Expire(k) PROVE SessionInv'
  <2>1. /\ token[k] # "none" /\ holder[k] \in Users
        /\ token' = [token EXCEPT ![k] = "expired"] /\ provoked' = provoked \cup {holder[k]}
        /\ UNCHANGED <<account, resetLinks, cookie, call, holder, issuedIn, late, epoch, cutOff, lost>>
    BY <1>2 DEF Expire, SessionInv, TokenKnows
  <2>2. /\ token' \in [Tokens -> {"none", "live", "revoked", "expired"}]
        /\ \A j \in Tokens : \/ token'[j] = token[j]
                             \/ token[j] # "none" /\ token'[j] \in {"revoked", "expired"}
    BY <1>0, <2>1 DEF SessionsTypeOK
  <2>3. SessionsTypeOK'
    BY <1>0, <2>1, <2>2 DEF SessionsTypeOK
  <2>4. \A v \in Users : UserKnows(v)'
    BY <2>1 DEF SessionInv, UserKnows
  <2>5. \A v \in Users : \A n : Excused(v, n) => Excused(v, n)'
    BY <2>1 DEF Excused, Revoking
  <2>6. QED
    BY <2>1, <2>2, <2>3, <2>4, <2>5, SessionFrame
<1>3. QED
  BY <1>1, <1>2

(* A password change or a suspension begins a new epoch, and goes on to     *)
(* revoke.                                                                  *)
LEMMA NewEpochStep ==
  ASSUME SessionInv, NEW c \in Calls, updatePasswordHash(c) \/ SaveSuspended(c) PROVE SessionInv'
<1>1. PICK u \in Users :
        /\ u = call[c].user /\ epoch[u] < MaxEpoch /\ epoch' = [epoch EXCEPT ![u] = @ + 1]
        /\ provoked' = provoked \cup {u} /\ UNCHANGED <<cutOff, lost>>
  BY DEF updatePasswordHash, SaveSuspended, NewEpoch, SessionInv, CallKnows
<1>2. /\ call[c].at \in {"savePassword", "saveSuspended"} /\ CallKnows(c) /\ SessionsTypeOK
      /\ Step(c, "revoke") /\ "revoke" \in CallSteps
      /\ UNCHANGED <<cookie, tokenVars>>
  BY DEF updatePasswordHash, SaveSuspended, SessionInv, CallSteps
<1>3. /\ account' \in [Users -> {"none", "active", "suspended"}] /\ account[u] # "none"
      /\ \A v \in Users : account'[v] = "none" => account[v] = "none"
  BY <1>1, <1>2 DEF updatePasswordHash, SaveSuspended, SessionsTypeOK, CallKnows
<1>4. resetLinks' \in SUBSET resetLinks
  BY <1>1 DEF updatePasswordHash, SaveSuspended
<1>5. /\ call' \in [Calls -> CallType] /\ \A d \in Calls \ {c} : call'[d] = call[d]
      /\ call'[c].at = "revoke" /\ call'[c].user = u /\ call'[c].tab = call[c].tab
      /\ call'[c].old = call[c].old
  BY <1>1, <1>2, StepFacts
<1>6. /\ epoch' \in [Users -> 0..MaxEpoch]
      /\ \A v \in Users \ {u} : epoch'[v] = epoch[v]
  BY <1>1, <1>2, SessionsAssumption DEF SessionsTypeOK
<1>7. SessionsTypeOK'
  BY <1>1, <1>2, <1>3, <1>4, <1>5, <1>6 DEF SessionsTypeOK, tokenVars
<1>8. \A v : Revoking(v) => Revoking(v)'
  BY <1>2, <1>5, RevokingStays
<1>9. Revoking(u)'
  BY <1>5 DEF Revoking
<1>10. \A v \in Users : \A n : Excused(v, n) => Excused(v, n)'
  BY <1>1, <1>6, <1>8, <1>9 DEF Excused
<1>11. \A v \in Users : UserKnows(v)'
  BY <1>1, <1>3, <1>4, <1>6 DEF UserKnows, SessionInv
<1>12. CallKnows(c)'
  BY <1>1, <1>2, <1>3, <1>5 DEF CallKnows, tokenVars
<1>13. QED
  BY <1>2, <1>3, <1>5, <1>7, <1>10, <1>11, <1>12, SessionFrame DEF tokenVars

LEMMA SaveActiveStep ==
  ASSUME SessionInv, NEW c \in Calls, SaveActive(c) PROVE SessionInv'
<1>1. /\ call[c].at = "saveActive" /\ SessionsTypeOK /\ Answer(c)
      /\ account' = [account EXCEPT ![call[c].user] = "active"]
      /\ UNCHANGED <<resetLinks, cookie, tokenVars, historyVars>>
  BY DEF SaveActive, SessionInv
<1>2. /\ call' \in [Calls -> CallType] /\ call'[c] = NoCall
      /\ \A d \in Calls \ {c} : call'[d] = call[d]
  BY <1>1, AnswerFacts
<1>3. /\ account' \in [Users -> {"none", "active", "suspended"}]
      /\ \A v \in Users : account'[v] = "none" => account[v] = "none"
  BY <1>1 DEF SessionsTypeOK
<1>4. SessionsTypeOK'
  BY <1>1, <1>2, <1>3 DEF SessionsTypeOK, tokenVars, historyVars
<1>5. QED
  BY <1>1, <1>2, <1>3, <1>4, Ended, CallFrame DEF tokenVars, historyVars

LEMMA LoseCallStep ==
  ASSUME SessionInv, NEW c \in Calls, LoseCall(c) PROVE SessionInv'
<1>1. /\ call[c].at # "idle" /\ CallKnows(c) /\ SessionsTypeOK /\ Answer(c)
      /\ lost < MaxLost /\ lost' = lost + 1 /\ provoked' = provoked \cup {call[c].user}
      /\ cutOff' = IF call[c].at = "revoke" THEN cutOff \cup {call[c].user} ELSE cutOff
      /\ UNCHANGED <<account, resetLinks, cookie, tokenVars, epoch>>
  BY DEF LoseCall, SessionInv
<1>2. PICK u \in Users : u = call[c].user
  BY <1>1 DEF CallKnows
<1>3. /\ call' \in [Calls -> CallType] /\ call'[c] = NoCall
      /\ \A d \in Calls \ {c} : call'[d] = call[d]
  BY <1>1, AnswerFacts
<1>4. SessionsTypeOK'
  BY <1>1, <1>2, <1>3, SessionsAssumption DEF SessionsTypeOK, tokenVars
<1>5. \A v \in Users : Revoking(v) => Revoking(v)' \/ v \in cutOff'
  BY <1>1, <1>3 DEF Revoking
<1>6. \A v \in Users : \A n : Excused(v, n) => Excused(v, n)'
  BY <1>1, <1>5 DEF Excused
<1>7. \A v \in Users : UserKnows(v)'
  BY <1>1 DEF SessionInv, UserKnows
<1>8. CallKnows(c)'
  BY <1>3, Ended
<1>9. QED
  BY <1>1, <1>3, <1>4, <1>6, <1>7, <1>8, SessionFrame DEF tokenVars

(* The token a call issues was nobody's.                                    *)
LEMMA IssueFacts ==
  ASSUME SessionInv, NEW c \in Calls, issueTokens(c)
  PROVE  /\ call[c].at = "issue" /\ call[c].user \in Users /\ CallKnows(c)
         /\ \E k \in Tokens :
              /\ token[k] = "none"
              /\ token' = [token EXCEPT ![k] = "live"]
              /\ holder' = [holder EXCEPT ![k] = call[c].user]
              /\ issuedIn' = [issuedIn EXCEPT ![k] = call[c].epoch]
              /\ late' = IF call[c].overtaken THEN late \cup {k} ELSE late
              /\ call'[c].new = k
              /\ call'[c].at = IF call[c].old = NoToken THEN "signedIn" ELSE "rotate"
         /\ call'[c].user = call[c].user /\ call'[c].old = call[c].old /\ call'[c].tab = call[c].tab
         /\ call' \in [Calls -> CallType]
         /\ \A d \in Calls \ {c} : call'[d] = call[d]
         /\ UNCHANGED <<account, resetLinks, cookie, historyVars>>
<1>1. /\ SessionsTypeOK /\ CallKnows(c) /\ call[c] \in CallType
      /\ call[c].at = "issue" /\ call[c].user \in Users
      /\ UNCHANGED <<account, resetLinks, cookie, historyVars>>
  BY CallTypes DEF issueTokens, SessionInv, CallKnows
<1>2. PICK k \in Tokens :
        /\ token[k] = "none"
        /\ token' = [token EXCEPT ![k] = "live"]
        /\ holder' = [holder EXCEPT ![k] = call[c].user]
        /\ issuedIn' = [issuedIn EXCEPT ![k] = call[c].epoch]
        /\ late' = IF call[c].overtaken THEN late \cup {k} ELSE late
        /\ call' = [call EXCEPT ![c].new = k,
                                ![c].at = IF call[c].old = NoToken THEN "signedIn" ELSE "rotate"]
  BY DEF issueTokens
<1>3. /\ call'[c].new = k
      /\ call'[c].at = IF call[c].old = NoToken THEN "signedIn" ELSE "rotate"
      /\ call'[c].user = call[c].user /\ call'[c].old = call[c].old /\ call'[c].tab = call[c].tab
      /\ call' \in [Calls -> CallType]
      /\ \A d \in Calls \ {c} : call'[d] = call[d]
  BY <1>1, <1>2 DEF SessionsTypeOK, CallType
<1>4. QED
  BY <1>1, <1>2, <1>3

LEMMA IssueStep ==
  ASSUME SessionInv, NEW c \in Calls, issueTokens(c) PROVE SessionInv'
<1>1. PICK k \in Tokens :
        /\ token[k] = "none"
        /\ token' = [token EXCEPT ![k] = "live"]
        /\ holder' = [holder EXCEPT ![k] = call[c].user]
        /\ issuedIn' = [issuedIn EXCEPT ![k] = call[c].epoch]
        /\ late' = IF call[c].overtaken THEN late \cup {k} ELSE late
        /\ call'[c].new = k
        /\ call'[c].at = IF call[c].old = NoToken THEN "signedIn" ELSE "rotate"
  BY IssueFacts
<1>2. /\ call[c].at = "issue" /\ call[c].user \in Users /\ CallKnows(c)
      /\ call'[c].user = call[c].user /\ call'[c].old = call[c].old /\ call'[c].tab = call[c].tab
      /\ call' \in [Calls -> CallType]
      /\ \A d \in Calls \ {c} : call'[d] = call[d]
      /\ UNCHANGED <<account, resetLinks, cookie, historyVars>>
  BY IssueFacts
<1>3. SessionsTypeOK /\ call[c].epoch \in 0..MaxEpoch
  BY CallTypes DEF SessionInv
<1>4. /\ token'[k] = "live" /\ holder'[k] = call[c].user /\ issuedIn'[k] = call[c].epoch
      /\ k \in late' <=> call[c].overtaken \/ k \in late
      /\ \A j \in Tokens \ {k} : /\ token'[j] = token[j] /\ holder'[j] = holder[j]
                                /\ issuedIn'[j] = issuedIn[j] /\ (j \in late' <=> j \in late)
      /\ token' \in [Tokens -> {"none", "live", "revoked", "expired"}]
      /\ holder' \in [Tokens -> Users \cup {NoUser}]
      /\ issuedIn' \in [Tokens -> 0..MaxEpoch] /\ late' \in SUBSET Tokens
  BY <1>1, <1>2, <1>3 DEF SessionsTypeOK
<1>5. SessionsTypeOK'
  BY <1>2, <1>3, <1>4 DEF SessionsTypeOK, historyVars
<1>6. \A u : Revoking(u) => Revoking(u)'
  BY <1>2, RevokingStays
<1>7. \A u : \A n : Excused(u, n) => Excused(u, n)'
  BY <1>2, <1>6 DEF Excused, historyVars
<1>8. \A j \in Tokens : token[j] # "none" => token'[j] # "none"
  BY <1>4
<1>9. ASSUME NEW j \in Tokens PROVE TokenKnows(j)'
  <2>1. CASE j = k
    <3>1. PICK u, n : u = call[c].user /\ n = call[c].epoch
      OBVIOUS
    <3>2. call[c].overtaken \/ Excused(u, n)
      BY <1>2, <3>1 DEF CallKnows
    <3>3. call[c].overtaken \/ Excused(u, n)'
      BY <1>7, <3>2
    <3>4. (Excused(holder[j], issuedIn[j]) \/ j \in late)'
      BY <1>4, <2>1, <3>1, <3>3 DEF Excused, Revoking
    <3>5. account'[holder'[j]] # "none" /\ holder'[j] \in Users
      BY <1>2, <1>4, <2>1 DEF CallKnows
    <3>6. QED
      BY <3>4, <3>5 DEF TokenKnows
  <2>2. CASE j # k
    <3>1. TokenKnows(j)
      BY DEF SessionInv
    <3>2. PICK u, n : u = holder[j] /\ n = issuedIn[j]
      OBVIOUS
    <3>3. token[j] = "live" => Excused(u, n) \/ j \in late
      BY <3>1, <3>2 DEF TokenKnows
    <3>4. token[j] = "live" => Excused(u, n)' \/ j \in late
      BY <1>7, <3>3
    <3>5. (token[j] = "live" => Excused(holder[j], issuedIn[j]) \/ j \in late)'
      BY <1>4, <2>2, <3>2, <3>4 DEF Excused, Revoking
    <3>6. QED
      BY <1>2, <1>4, <2>2, <3>1, <3>5 DEF TokenKnows
  <2>3. QED
    BY <2>1, <2>2
<1>10. ASSUME NEW b \in Browsers PROVE CookieKnows(b)'
  <2>1. CookieKnows(b) /\ cookie[b] \in Tokens \cup {NoToken}
    BY <1>3 DEF SessionsTypeOK, SessionInv
  <2>2. QED
    BY <1>2, <1>8, <2>1 DEF CookieKnows
<1>11. \A u \in Users : UserKnows(u)'
  BY <1>2 DEF SessionInv, UserKnows, historyVars
<1>12. ASSUME NEW d \in Calls PROVE CallKnows(d)'
  <2>0. CallKnows(d) /\ call[d].old \in Tokens \cup {NoToken} /\ NoToken \notin Tokens
    BY <1>3, CallTypes, SessionsAssumption DEF SessionInv
  <2>1. CASE d = c
    BY <1>1, <1>2, <1>4, <1>8, <2>0, <2>1 DEF CallKnows
  <2>2. CASE d # c
    <3>1. call'[d] = call[d]
      BY <1>2, <2>2
    <3>2. PICK u, n : u = call[d].user /\ n = call[d].epoch
      OBVIOUS
    <3>3. call[d].at \in {"readUser", "issue"} => call[d].overtaken \/ Excused(u, n)'
      BY <1>7, <2>0, <3>2 DEF CallKnows
    <3>4. (call[d].at \in {"readUser", "issue"} => call[d].overtaken \/ Excused(call[d].user, call[d].epoch))'
      BY <3>1, <3>2, <3>3 DEF Excused, Revoking
    <3>5. QED
      BY <1>2, <1>8, <2>0, <3>1, <3>4 DEF CallKnows
  <2>3. QED
    BY <2>1, <2>2
<1>13. QED
  BY <1>5, <1>9, <1>10, <1>11, <1>12 DEF SessionInv

(* After a revocation no token of the user is live, and every call of his   *)
(* that goes on has been overtaken.                                         *)
LEMMA RevokeStep ==
  ASSUME SessionInv, NEW c \in Calls, revokeTokens(c) PROVE SessionInv'
<1>1. PICK u \in Users : u = call[c].user
  BY DEF revokeTokens, SessionInv, CallKnows
<1>2. /\ call[c].at = "revoke" /\ CallKnows(c) /\ SessionsTypeOK /\ RevokeAll(u)
      /\ call' = Overtake(u, [call EXCEPT ![c] = NoCall])
      /\ UNCHANGED <<account, resetLinks, cookie, holder, issuedIn, late, historyVars>>
  BY <1>1 DEF revokeTokens, SessionInv
<1>3. /\ token' \in [Tokens -> {"none", "live", "revoked", "expired"}]
      /\ \A j \in Tokens : token'[j] = IF token[j] = "live" /\ holder[j] = u
                                         THEN "revoked" ELSE token[j]
  BY <1>2 DEF SessionsTypeOK, RevokeAll, LiveTokensOf
<1>4. /\ call'[c] = NoCall
      /\ \A d \in Calls \ {c} :
           \/ call'[d] = call[d] /\ ~ (call[d].user = u /\ call[d].at \in {"readUser", "issue"})
           \/ /\ call'[d] = [call[d] EXCEPT !.overtaken = TRUE]
              /\ call[d].user = u /\ call[d].at \in {"readUser", "issue"}
  BY <1>2, NoCallFacts DEF Overtake, SessionsTypeOK
<1>5. ASSUME NEW d \in Calls \ {c}
      PROVE
        /\ call'[d] \in CallType /\ call'[d].at = call[d].at /\ call'[d].user = call[d].user
        /\ call'[d].tab = call[d].tab /\ call'[d].old = call[d].old /\ call'[d].new = call[d].new
        /\ call'[d].epoch = call[d].epoch /\ (call[d].overtaken => call'[d].overtaken)
        /\ call[d].user = u /\ call[d].at \in {"readUser", "issue"} => call'[d].overtaken
  <2>1. call[d] \in CallType
    BY <1>2, CallTypes
  <2>2. CASE call'[d] = call[d] /\ ~ (call[d].user = u /\ call[d].at \in {"readUser", "issue"})
    BY <2>1, <2>2
  <2>3. CASE call'[d] = [call[d] EXCEPT !.overtaken = TRUE]
    BY <2>1, <2>3 DEF CallType
  <2>4. QED
    BY <1>4, <2>2, <2>3
<1>6. call' \in [Calls -> CallType]
  <2>1. \A d \in Calls : call'[d] \in CallType
    BY <1>4, <1>5, NoCallFacts
  <2>2. call' = [d \in Calls |-> call'[d]]
    BY <1>2 DEF Overtake
  <2>3. QED
    BY <2>1, <2>2
<1>7. SessionsTypeOK'
  BY <1>2, <1>3, <1>6 DEF SessionsTypeOK, historyVars
<1>8. \A v \in Users \ {u} : Revoking(v) => Revoking(v)'
  BY <1>1, <1>2, <1>5 DEF Revoking
<1>9. \A v \in Users \ {u} : \A n : Excused(v, n) => Excused(v, n)'
  BY <1>2, <1>8 DEF Excused, historyVars
<1>10. \A j \in Tokens : token[j] # "none" <=> token'[j] # "none"
  BY <1>3
<1>11. ASSUME NEW j \in Tokens PROVE TokenKnows(j)'
  <2>1. TokenKnows(j)
    BY DEF SessionInv
  <2>2. PICK v, n : v = holder[j] /\ n = issuedIn[j]
    OBVIOUS
  <2>3. token'[j] = "live" => token[j] = "live" /\ v # u /\ v \in Users
    BY <1>3, <2>1, <2>2 DEF TokenKnows
  <2>4. token'[j] = "live" => Excused(v, n) \/ j \in late
    BY <2>1, <2>2, <2>3 DEF TokenKnows
  <2>5. token'[j] = "live" => Excused(v, n)' \/ j \in late
    BY <1>9, <2>3, <2>4
  <2>6. (token[j] = "live" => Excused(holder[j], issuedIn[j]) \/ j \in late)'
    BY <1>2, <2>2, <2>5 DEF Excused, Revoking
  <2>7. QED
    BY <1>2, <1>10, <2>1, <2>6 DEF TokenKnows
<1>12. ASSUME NEW b \in Browsers PROVE CookieKnows(b)'
  <2>1. CookieKnows(b) /\ cookie[b] \in Tokens \cup {NoToken}
    BY <1>2 DEF SessionsTypeOK, SessionInv
  <2>2. QED
    BY <1>2, <1>10, <2>1 DEF CookieKnows
<1>13. \A v \in Users : UserKnows(v)'
  BY <1>2 DEF SessionInv, UserKnows, historyVars
<1>14. ASSUME NEW d \in Calls PROVE CallKnows(d)'
  <2>0. CallKnows(d) /\ call[d].old \in Tokens \cup {NoToken} /\ NoToken \notin Tokens
    BY <1>2, CallTypes, SessionsAssumption DEF SessionInv
  <2>1. CASE d = c
    BY <1>4, <2>1, Ended
  <2>2. CASE d # c
    <3>1. PICK v, n : v = call[d].user /\ n = call[d].epoch
      OBVIOUS
    <3>2. call[d].at \in {"readUser", "issue"} => v \in Users /\ (call[d].overtaken \/ Excused(v, n))
      BY <2>0, <3>1 DEF CallKnows
    <3>3. call[d].at \in {"readUser", "issue"} => call'[d].overtaken \/ Excused(v, n)'
      BY <1>5, <1>9, <2>2, <3>1, <3>2
    <3>4. (call[d].at \in {"readUser", "issue"} => call[d].overtaken \/ Excused(call[d].user, call[d].epoch))'
      BY <1>5, <2>2, <3>1, <3>3 DEF Excused, Revoking
    <3>5. QED
      BY <1>2, <1>5, <1>10, <2>0, <2>2, <3>4 DEF CallKnows
  <2>3. QED
    BY <2>1, <2>2
<1>15. QED
  BY <1>7, <1>11, <1>12, <1>13, <1>14 DEF SessionInv

LEMMA SessionStep ==
  ASSUME SessionInv, SessionsNext PROVE SessionInv'
<1>1. ASSUME NEW c \in Calls, NEW t \in Tabs,
             \/ \E u \in Users : register(c, t, u) \/ login(c, t, u)
             \/ refresh(c, t) \/ logout(c, t)
      PROVE  SessionInv'
  BY <1>1, SigningInStep, RefreshStep, LogoutStep
<1>2. ASSUME NEW c \in Calls, NEW u \in Users,
             resetPassword(c, u) \/ changePassword(c, u) \/ suspend(c, u) \/ reactivate(c, u)
      PROVE  SessionInv'
  BY <1>2, AccountRequestStep
<1>3. ASSUME NEW c \in Calls,
             \/ CreateUser(c) \/ issueTokens(c) \/ setRefreshCookie(c)
             \/ assertActive(c) \/ Rotate(c) \/ reuseDetected(c) \/ clearCookie(c)
             \/ updatePasswordHash(c) \/ SaveSuspended(c) \/ SaveActive(c) \/ revokeTokens(c)
             \/ LoseCall(c)
      PROVE  SessionInv'
  BY <1>3, CreateUserStep, IssueStep, CookieStep, AssertActiveStep, RotateStep, ReuseStep,
     NewEpochStep, SaveActiveStep, RevokeStep, LoseCallStep
<1>4. QED
  BY <1>1, <1>2, <1>3, ForgotExpireStep DEF SessionsNext

LEMMA SessionInvariant == SessionsSpec => []SessionInv
<1>1. SessionInv /\ UNCHANGED sessionVars => SessionInv'
  BY DEF SessionInv, sessionVars, tokenVars, historyVars, SessionsTypeOK, TokenKnows,
     CookieKnows, UserKnows, CallKnows, Excused, Revoking
<1>2. QED
  BY SessionsInitial, SessionStep, <1>1, PTL DEF SessionsSpec

(* Accounts, tokens, cookies and calls keep their types. *)
THEOREM SessionsTyped == SessionsSpec => []SessionsTypeOK
BY SessionInvariant, PTL DEF SessionInv

(* No session outlives a password change or a suspension (auth.service.ts:  *)
(* 460-466, users.service.ts:253-266), for any number of users, browsers,   *)
(* tabs, requests at a time and lost answers, whether or not tabs share a   *)
(* browser.                                                                 *)
THEOREM SessionsAreCurrent == SessionsSpec => []LiveSessionsAreCurrent
<1>1. SessionInv => LiveSessionsAreCurrent
  BY DEF SessionInv, LiveSessionsAreCurrent, TokenKnows, Excused, Revoking
<1>2. QED
  BY SessionInvariant, <1>1, PTL

-----------------------------------------------------------------------------
(* Replay *)

(* Each tab is in a browser of its own.                                     *)
OneTab == \A s, t \in Tabs : BrowserOf[s] = BrowserOf[t] => s = t

(* A browser shows a retired token only if its user provoked that, or while *)
(* the answer that replaces it is on its way, and the tab is locked.        *)
CookieSafe(b) ==
  LET k == cookie[b] IN
  k # NoToken /\ token[k] = "revoked" =>
    \/ holder[k] \in provoked
    \/ \E c \in Calls : call[c].at = "signedIn" /\ call[c].old = k /\ BrowserOf[call[c].tab] = b

OneCookie(b) == \A a \in Browsers \ {b} : cookie[a] = cookie[b] => cookie[a] = NoToken

Issued(c) == call[c].at \in {"rotate", "signedIn"}

(* Nobody has seen a new token before the answer that brings it.            *)
NewIsUnseen(c) ==
  LET k == call[c].new IN
  Issued(c) =>
    /\ \A b \in Browsers : cookie[b] # k
    /\ \A d \in Calls : call[d].old # k
    /\ \A d \in Calls \ {c} : Issued(d) => call[d].new # k
    /\ token[k] = "revoked" => holder[k] \in provoked

(* The token a refresh came with is in no other browser than its own.       *)
OldIsHere(c) ==
  LET k == call[c].old IN
  k # NoToken => /\ holder[k] = call[c].user
                 /\ \A b \in Browsers : cookie[b] = k => b = BrowserOf[call[c].tab]

WasProvoked(c) == call[c].at \in {"reuse", "revoke"} => call[c].user \in provoked

ReplayInv ==
  /\ SessionInv
  /\ \A b \in Browsers : CookieSafe(b) /\ OneCookie(b)
  /\ \A c \in Calls : NewIsUnseen(c) /\ OldIsHere(c) /\ WasProvoked(c)

LEMMA ReplayInitial == SessionsInit => ReplayInv
BY SessionsInitial, NoCallFacts
   DEF SessionsInit, ReplayInv, CookieSafe, OneCookie, NewIsUnseen, Issued, OldIsHere, WasProvoked

(* A call whose place and tokens stay. *)
SameCall(c) ==
  /\ call'[c].at = call[c].at /\ call'[c].user = call[c].user /\ call'[c].tab = call[c].tab
  /\ call'[c].old = call[c].old /\ call'[c].new = call[c].new

(* One that goes on without a new token, and takes no promised answer back  *)
(* from a user who has not provoked it.                                     *)
QuietCall(c) ==
  /\ call'[c].at \notin {"rotate", "signedIn"}
  /\ \/ call'[c].old = NoToken
     \/ call'[c].old = call[c].old /\ call'[c].user = call[c].user /\ call'[c].tab = call[c].tab
  /\ call'[c].at \in {"reuse", "revoke"} => call'[c].user \in provoked'
  /\ call[c].at = "signedIn" => call[c].user \in provoked'

LEMMA ReplayFrame ==
  ASSUME ReplayInv, SessionInv',
         \A c \in Calls : SameCall(c) \/ QuietCall(c),
         \A k \in Tokens : token'[k] = "revoked" => token[k] = "revoked" \/ holder[k] \in provoked',
         \A b \in Browsers : cookie'[b] \in {cookie[b], NoToken},
         provoked \subseteq provoked', UNCHANGED holder
  PROVE  ReplayInv'
<1> USE DEF ReplayInv
<1>0. /\ NoToken \notin Tokens
      /\ \A b \in Browsers : cookie[b] \in Tokens \cup {NoToken}
      /\ \A c \in Calls : Issued(c) => call[c].new \in Tokens
  BY SessionsAssumption DEF SessionInv, SessionsTypeOK, CallKnows, Issued
<1>1. ASSUME NEW b \in Browsers PROVE CookieSafe(b)'
  <2> SUFFICES ASSUME cookie'[b] # NoToken, token'[cookie'[b]] = "revoked", holder[cookie'[b]] \notin provoked'
               PROVE  \E c \in Calls : /\ call'[c].at = "signedIn" /\ call'[c].old = cookie'[b]
                                       /\ BrowserOf[call'[c].tab] = b
    BY DEF CookieSafe
  <2>1. cookie'[b] = cookie[b] /\ cookie[b] \in Tokens /\ token[cookie[b]] = "revoked"
    BY <1>0
  <2>2. PICK c \in Calls : call[c].at = "signedIn" /\ call[c].old = cookie[b] /\ BrowserOf[call[c].tab] = b
    BY <2>1 DEF CookieSafe
  <2>3. holder[cookie[b]] = call[c].user
    BY <2>1, <2>2, <1>0 DEF OldIsHere
  <2>4. SameCall(c)
    BY <2>1, <2>2, <2>3 DEF QuietCall
  <2>5. QED
    BY <2>1, <2>2, <2>4 DEF SameCall
<1>2. \A b \in Browsers : OneCookie(b)'
  BY DEF OneCookie
<1>3. ASSUME NEW c \in Calls PROVE NewIsUnseen(c)'
  <2> SUFFICES ASSUME call'[c].at \in {"rotate", "signedIn"} PROVE NewIsUnseen(c)'
    BY DEF NewIsUnseen, Issued
  <2>1. SameCall(c) /\ Issued(c) /\ NewIsUnseen(c) /\ call[c].new \in Tokens
    BY <1>0 DEF QuietCall, SameCall, Issued
  <2>2. \A b \in Browsers : cookie'[b] # call[c].new
    BY <1>0, <2>1 DEF NewIsUnseen
  <2>3. \A d \in Calls : call'[d].old # call[c].new
    BY <1>0, <2>1 DEF NewIsUnseen, SameCall, QuietCall
  <2>4. \A d \in Calls \ {c} : Issued(d)' => call'[d].new # call[c].new
    BY <2>1 DEF NewIsUnseen, SameCall, QuietCall, Issued
  <2>5. token'[call[c].new] = "revoked" => holder[call[c].new] \in provoked'
    BY <2>1 DEF NewIsUnseen
  <2>6. QED
    BY <2>1, <2>2, <2>3, <2>4, <2>5 DEF NewIsUnseen, SameCall
<1>4. ASSUME NEW c \in Calls PROVE OldIsHere(c)' /\ WasProvoked(c)'
  <2>1. CASE SameCall(c)
    BY <2>1 DEF SameCall, OldIsHere, WasProvoked
  <2>2. CASE QuietCall(c)
    BY <2>2 DEF QuietCall, OldIsHere, WasProvoked
  <2>3. QED
    BY <2>1, <2>2
<1>5. QED
  BY <1>1, <1>2, <1>3, <1>4

(* A request that begins shows no token, and one that goes on keeps it.     *)
LEMMA QuietStepOf ==
  ASSUME ReplayInv, SessionInv', NEW c \in Calls, QuietCall(c),
         \A d \in Calls \ {c} : call'[d] = call[d],
         \A k \in Tokens : token'[k] = "revoked" => token[k] = "revoked" \/ holder[k] \in provoked',
         \A b \in Browsers : cookie'[b] \in {cookie[b], NoToken},
         provoked \subseteq provoked', UNCHANGED holder
  PROVE  ReplayInv'
BY ReplayFrame DEF SameCall

LEMMA ReplayTypes ==
  ASSUME ReplayInv
  PROVE  /\ SessionInv /\ SessionsTypeOK /\ NoToken \notin Tokens
         /\ \A b \in Browsers : cookie[b] \in Tokens \cup {NoToken}
         /\ \A c \in Calls : CallKnows(c) /\ call[c].old \in Tokens \cup {NoToken}
BY CallTypes, SessionsAssumption DEF ReplayInv, SessionInv, SessionsTypeOK

(* A request by an account's owner needs no tab.                            *)
LEMMA ReplayAccountRequests ==
  ASSUME ReplayInv, SessionInv', NEW c \in Calls, NEW u \in Users,
         resetPassword(c, u) \/ changePassword(c, u) \/ suspend(c, u) \/ reactivate(c, u)
  PROVE  ReplayInv'
<1>1. PICK at \in {"savePassword", "saveSuspended", "saveActive"} : Take(c, From(u, NoTab, at))
  BY DEF resetPassword, changePassword, suspend, reactivate, By
<1>2. UNCHANGED <<cookie, tokenVars, historyVars>>
  BY DEF resetPassword, changePassword, suspend, reactivate
<1> DEFINE r == From(u, NoTab, at)
<1>3. r \in CallType /\ r.at = at /\ r.old = NoToken
  BY ReplayTypes DEF From, SessionsTypeOK, CallType
<1>4. Take(c, r)
  BY <1>1
<1> HIDE DEF r
<1>5. /\ call'[c] = r /\ call[c].at = "idle"
      /\ \A d \in Calls \ {c} : call'[d] = call[d]
  BY <1>3, <1>4, TakeFacts, ReplayTypes
<1>6. QuietCall(c)
  BY <1>3, <1>5 DEF QuietCall
<1>7. QED
  BY <1>2, <1>5, <1>6, QuietStepOf DEF tokenVars, historyVars

LEMMA ReplaySigningIn ==
  ASSUME ReplayInv, SessionInv', NEW c \in Calls, NEW u \in Users, NEW t \in Tabs,
         register(c, t, u) \/ login(c, t, u)
  PROVE  ReplayInv'
<1>1. PICK at \in {"createUser", "issue"} : Take(c, From(u, t, at))
  BY DEF register, login
<1>2. UNCHANGED <<cookie, tokenVars, historyVars>>
  BY DEF register, login
<1> DEFINE r == From(u, t, at)
<1>3. r \in CallType /\ r.at = at /\ r.old = NoToken
  BY ReplayTypes DEF From, SessionsTypeOK, CallType
<1>4. Take(c, r)
  BY <1>1
<1> HIDE DEF r
<1>5. /\ call'[c] = r /\ call[c].at = "idle"
      /\ \A d \in Calls \ {c} : call'[d] = call[d]
  BY <1>3, <1>4, TakeFacts, ReplayTypes
<1>6. QuietCall(c)
  BY <1>3, <1>5 DEF QuietCall
<1>7. QED
  BY <1>2, <1>5, <1>6, QuietStepOf DEF tokenVars, historyVars

(* Calls that go on or end and leave the tokens alone. *)
LEMMA ReplayGoingOn ==
  ASSUME ReplayInv, SessionInv', NEW c \in Calls,
         \/ CreateUser(c) \/ assertActive(c) \/ SaveActive(c)
         \/ updatePasswordHash(c) \/ SaveSuspended(c) \/ LoseCall(c) \/ clearCookie(c)
  PROVE  ReplayInv'
<1>0. SessionsTypeOK
  BY ReplayTypes
<1>1. CASE CreateUser(c) \/ assertActive(c)
  <2>1. /\ call[c].at \in {"createUser", "readUser"} /\ (Step(c, "issue") \/ Answer(c))
        /\ UNCHANGED <<cookie, tokenVars, historyVars>> /\ "issue" \in CallSteps
    BY <1>1 DEF CreateUser, assertActive, CallSteps
  <2>2. QuietCall(c) /\ \A d \in Calls \ {c} : call'[d] = call[d]
    <3>1. CASE Step(c, "issue")
      <4>1. /\ call'[c].at = "issue" /\ call'[c].user = call[c].user /\ call'[c].tab = call[c].tab
            /\ call'[c].old = call[c].old /\ \A d \in Calls \ {c} : call'[d] = call[d]
        BY <1>0, <2>1, <3>1, StepFacts
      <4>2. QED
        BY <2>1, <4>1 DEF QuietCall
    <3>2. CASE Answer(c)
      <4>1. call'[c] = NoCall /\ \A d \in Calls \ {c} : call'[d] = call[d]
        BY <1>0, <3>2, AnswerFacts
      <4>2. QED
        BY <2>1, <4>1, NoCallFacts DEF QuietCall
    <3>3. QED
      BY <2>1, <3>1, <3>2
  <2>3. QED
    BY <2>1, <2>2, QuietStepOf DEF tokenVars, historyVars
<1>2. CASE SaveActive(c) \/ LoseCall(c)
  <2>1. /\ Answer(c) /\ (call[c].at = "signedIn" => call[c].user \in provoked')
        /\ UNCHANGED <<cookie, tokenVars>> /\ provoked \subseteq provoked'
    BY <1>2 DEF SaveActive, LoseCall, historyVars
  <2>2. call'[c] = NoCall /\ \A d \in Calls \ {c} : call'[d] = call[d]
    BY <1>0, <2>1, AnswerFacts
  <2>3. QuietCall(c)
    BY <2>1, <2>2, NoCallFacts DEF QuietCall
  <2>4. QED
    BY <2>1, <2>2, <2>3, QuietStepOf DEF tokenVars
<1>3. CASE updatePasswordHash(c) \/ SaveSuspended(c)
  <2>1. /\ call[c].at \in {"savePassword", "saveSuspended"} /\ Step(c, "revoke")
        /\ "revoke" \in CallSteps /\ UNCHANGED <<cookie, tokenVars>>
        /\ provoked' = provoked \cup {call[c].user}
    BY <1>3 DEF updatePasswordHash, SaveSuspended, NewEpoch, CallSteps
  <2>2. /\ call'[c].at = "revoke" /\ call'[c].user = call[c].user /\ call'[c].tab = call[c].tab
        /\ call'[c].old = call[c].old /\ \A d \in Calls \ {c} : call'[d] = call[d]
    BY <1>0, <2>1, StepFacts
  <2>3. QuietCall(c)
    BY <2>1, <2>2 DEF QuietCall
  <2>4. QED
    BY <2>1, <2>2, <2>3, QuietStepOf DEF tokenVars
<1>4. CASE clearCookie(c)
  <2>1. /\ call[c].at = "signedOut" /\ Answer(c) /\ UNCHANGED <<tokenVars, historyVars>>
        /\ cookie' = [cookie EXCEPT ![BrowserOf[call[c].tab]] = NoToken]
    BY <1>4 DEF clearCookie
  <2>2. call'[c] = NoCall /\ \A d \in Calls \ {c} : call'[d] = call[d]
    BY <1>0, <2>1, AnswerFacts
  <2>3. QuietCall(c)
    BY <2>1, <2>2, NoCallFacts DEF QuietCall
  <2>4. \A b \in Browsers : cookie'[b] \in {cookie[b], NoToken}
    BY <1>0, <2>1 DEF SessionsTypeOK
  <2>5. QED
    BY <2>1, <2>2, <2>3, <2>4, QuietStepOf DEF tokenVars, historyVars
<1>5. QED
  BY <1>1, <1>2, <1>3, <1>4

(* Tokens retired by a sign-out, a revocation or the clock.                 *)
LEMMA ReplayRetirements ==
  ASSUME ReplayInv, SessionInv',
         \/ \E c \in Calls : reuseDetected(c) \/ revokeTokens(c) \/ \E t \in Tabs : logout(c, t)
         \/ \E k \in Tokens : Expire(k)
         \/ \E u \in Users : forgotPassword(u)
  PROVE  ReplayInv'
<1>0. SessionsTypeOK /\ SessionInv
  BY ReplayTypes
<1>1. ASSUME NEW c \in Calls, reuseDetected(c) PROVE ReplayInv'
  <2>1. /\ call[c].at = "reuse" /\ RevokeAll(call[c].user) /\ Answer(c)
        /\ UNCHANGED <<cookie, holder, historyVars>>
        /\ call[c].user \in provoked
    BY <1>1 DEF reuseDetected, ReplayInv, WasProvoked
  <2>2. call'[c] = NoCall /\ \A d \in Calls \ {c} : call'[d] = call[d]
    BY <1>0, <2>1, AnswerFacts
  <2>3. QuietCall(c)
    BY <2>1, <2>2, NoCallFacts DEF QuietCall
  <2>4. \A k \in Tokens : token'[k] = "revoked" => token[k] = "revoked" \/ holder[k] \in provoked
    BY <2>1 DEF RevokeAll, LiveTokensOf
  <2>5. QED
    BY <2>1, <2>2, <2>3, <2>4, QuietStepOf DEF historyVars
<1>2. ASSUME NEW c \in Calls, revokeTokens(c) PROVE ReplayInv'
  <2> DEFINE u == call[c].user
  <2>1. /\ call[c].at = "revoke" /\ RevokeAll(u)
        /\ call' = Overtake(u, [call EXCEPT ![c] = NoCall])
        /\ UNCHANGED <<cookie, holder, historyVars>>
        /\ u \in provoked
    BY <1>2 DEF revokeTokens, ReplayInv, WasProvoked
  <2> HIDE DEF u
  <2>2. call'[c] = NoCall
    BY <1>0, <2>1, NoCallFacts DEF Overtake, SessionsTypeOK
  <2>3. QuietCall(c)
    BY <2>1, <2>2, NoCallFacts DEF QuietCall
  <2>4. ASSUME NEW d \in Calls \ {c} PROVE SameCall(d)
    <3>1. call'[d] = call[d] \/ call'[d] = [call[d] EXCEPT !.overtaken = TRUE]
      BY <1>0, <2>1 DEF Overtake, SessionsTypeOK
    <3>2. call[d] \in CallType
      BY <1>0, CallTypes
    <3>3. QED
      BY <3>1, <3>2 DEF SameCall, CallType
  <2>5. \A k \in Tokens : token'[k] = "revoked" => token[k] = "revoked" \/ holder[k] \in provoked
    BY <2>1 DEF RevokeAll, LiveTokensOf
  <2>6. QED
    BY <2>1, <2>3, <2>4, <2>5, ReplayFrame DEF historyVars
<1>3. ASSUME NEW c \in Calls, NEW t \in Tabs, logout(c, t) PROVE ReplayInv'
  <2>1. PICK k \in Tokens :
         /\ token' = [token EXCEPT ![k] = IF token[k] = "live" THEN "revoked" ELSE token[k]]
         /\ provoked' = provoked \cup {holder[k]}
         /\ call[c].at = "idle" /\ call'[c].at = "signedOut" /\ call'[c].old = NoToken
         /\ \A d \in Calls \ {c} : call'[d] = call[d]
         /\ UNCHANGED <<cookie, holder>>
    BY <1>0, <1>3, LogoutFacts
  <2>2. QuietCall(c)
    BY <2>1 DEF QuietCall
  <2>3. \A j \in Tokens : token'[j] = "revoked" => token[j] = "revoked" \/ holder[j] \in provoked'
    BY <1>0, <2>1 DEF SessionsTypeOK
  <2>4. QED
    BY <2>1, <2>2, <2>3, QuietStepOf
<1>4. ASSUME NEW k \in Tokens, Expire(k) PROVE ReplayInv'
  <2>1. /\ token' = [token EXCEPT ![k] = "expired"] /\ provoked' = provoked \cup {holder[k]}
        /\ UNCHANGED <<cookie, call, holder>>
    BY <1>4 DEF Expire
  <2>2. \A j \in Tokens : token'[j] = "revoked" => token[j] = "revoked"
    BY <1>0, <2>1 DEF SessionsTypeOK
  <2>3. QED
    BY <2>1, <2>2, ReplayFrame DEF SameCall
<1>5. ASSUME NEW u \in Users, forgotPassword(u) PROVE ReplayInv'
  BY <1>5, ReplayFrame DEF forgotPassword, SameCall, tokenVars, historyVars
<1>6. QED
  BY <1>1, <1>2, <1>3, <1>4, <1>5

(* Only a provoked user's token can be found to be replayed: a cookie that  *)
(* is being replaced has its tab locked.                                    *)
LEMMA ReplayRefresh ==
  ASSUME ReplayInv, SessionInv', OneTab, NEW c \in Calls, NEW t \in Tabs, refresh(c, t)
  PROVE  ReplayInv'
<1> DEFINE b == BrowserOf[t]
<1>0. b \in Browsers /\ SessionInv /\ NoToken \notin Tokens
  BY SessionsAssumption, ReplayTypes
<1>1. PICK k \in Tokens :
         /\ k = cookie[b] /\ token[k] # "none" /\ ~ Locked(t)
         /\ call[c].at = "idle" /\ call'[c].user = holder[k] /\ call'[c].tab = t /\ call'[c].old = k
         /\ \A d \in Calls \ {c} : call'[d] = call[d]
         /\ \/ call'[c].at = "readUser" /\ token[k] = "live"
            \/ call'[c].at = "reuse" /\ token[k] = "revoked"
  BY <1>0, RefreshFacts
<1>2. UNCHANGED <<cookie, tokenVars, historyVars>>
  BY DEF refresh
<1> HIDE DEF b
<1> USE DEF ReplayInv
<1>3. \A d \in Calls : call[d].old # NoToken => call[d].tab # t
  BY <1>1 DEF Locked
<1>4. token[k] = "revoked" => holder[k] \in provoked
  <2> SUFFICES ASSUME token[k] = "revoked", holder[k] \notin provoked PROVE FALSE
    OBVIOUS
  <2>1. PICK d \in Calls : call[d].at = "signedIn" /\ call[d].old = k /\ BrowserOf[call[d].tab] = b
    BY <1>0, <1>1 DEF CookieSafe
  <2>2. call[d].tab \in Tabs
    BY <1>0, <2>1, ReplayTypes DEF CallKnows
  <2>3. call[d].tab = t
    BY <2>1, <2>2 DEF OneTab, b
  <2>4. QED
    BY <1>0, <1>3, <2>1, <2>3
<1>5. ASSUME NEW a \in Browsers PROVE CookieSafe(a)' /\ OneCookie(a)'
  <2>1. CookieSafe(a) /\ OneCookie(a)
    OBVIOUS
  <2>2. QED
    BY <1>1, <1>2, <2>1 DEF CookieSafe, OneCookie, tokenVars, historyVars
<1>6. ASSUME NEW d \in Calls PROVE NewIsUnseen(d)' /\ OldIsHere(d)' /\ WasProvoked(d)'
  <2>1. NewIsUnseen(d) /\ OldIsHere(d) /\ WasProvoked(d)
    OBVIOUS
  <2>2. CASE d = c
    <3>1. NewIsUnseen(d)'
      BY <1>1, <2>2 DEF NewIsUnseen, Issued
    <3>2. \A a \in Browsers : cookie[a] = k => a = b
      BY <1>0, <1>1 DEF OneCookie
    <3>3. OldIsHere(d)'
      BY <1>1, <1>2, <2>2, <3>2 DEF OldIsHere, tokenVars, b
    <3>4. WasProvoked(d)'
      BY <1>1, <1>2, <1>4, <2>2 DEF WasProvoked, historyVars
    <3>5. QED
      BY <3>1, <3>3, <3>4
  <2>3. CASE d # c
    <3>1. call'[d] = call[d]
      BY <1>1, <2>3
    <3>2. OldIsHere(d)' /\ WasProvoked(d)'
      BY <1>2, <2>1, <3>1 DEF OldIsHere, WasProvoked, tokenVars, historyVars
    <3>3. Issued(d) => call'[c].old # call[d].new
      BY <1>0, <1>1, <2>1 DEF NewIsUnseen
    <3>4. ~ Issued(c)'
      BY <1>1 DEF Issued
    <3>5. NewIsUnseen(d)'
      <4> SUFFICES ASSUME Issued(d) PROVE NewIsUnseen(d)'
        BY <3>1 DEF NewIsUnseen, Issued
      <4>1. \A e \in Calls : call'[e].old # call[d].new
        BY <1>1, <2>1, <3>3 DEF NewIsUnseen
      <4>2. \A e \in Calls \ {d} : Issued(e)' => call'[e].new # call[d].new
        BY <1>1, <2>1, <3>4 DEF NewIsUnseen, Issued
      <4>3. QED
        BY <1>2, <2>1, <3>1, <4>1, <4>2 DEF NewIsUnseen, tokenVars, historyVars
    <3>6. QED
      BY <3>2, <3>5
  <2>4. QED
    BY <2>2, <2>3
<1>7. QED
  BY <1>5, <1>6

(* A new token is live, and nobody's cookie.                                *)
LEMMA ReplayIssue ==
  ASSUME ReplayInv, SessionInv', NEW c \in Calls, issueTokens(c)
  PROVE  ReplayInv'
<1>0. /\ SessionInv /\ SessionsTypeOK /\ NoToken \notin Tokens
      /\ \A b \in Browsers : cookie[b] \in Tokens \cup {NoToken}
      /\ \A d \in Calls : CallKnows(d) /\ call[d].old \in Tokens \cup {NoToken}
  BY ReplayTypes
<1>1. PICK k \in Tokens :
        /\ token[k] = "none"
        /\ token' = [token EXCEPT ![k] = "live"]
        /\ holder' = [holder EXCEPT ![k] = call[c].user]
        /\ call'[c].new = k
        /\ call'[c].at = IF call[c].old = NoToken THEN "signedIn" ELSE "rotate"
  BY <1>0, IssueFacts
<1>2. /\ call[c].at = "issue"
      /\ call'[c].user = call[c].user /\ call'[c].old = call[c].old /\ call'[c].tab = call[c].tab
      /\ \A d \in Calls \ {c} : call'[d] = call[d]
      /\ UNCHANGED <<cookie, historyVars>>
  BY <1>0, IssueFacts
<1> USE DEF ReplayInv
<1>3. /\ token'[k] = "live" /\ holder'[k] = call[c].user
      /\ \A j \in Tokens \ {k} : token'[j] = token[j] /\ holder'[j] = holder[j]
  BY <1>0, <1>1 DEF SessionsTypeOK
<1>4. /\ \A b \in Browsers : cookie[b] # k
      /\ \A d \in Calls : call[d].old # k
      /\ \A d \in Calls : Issued(d) => call[d].new \in Tokens \ {k}
  <2>1. \A b \in Browsers : cookie[b] # k
    BY <1>0, <1>1 DEF SessionInv, CookieKnows
  <2>2. \A d \in Calls : call[d].old # k
    BY <1>0, <1>1 DEF CallKnows
  <2>3. \A d \in Calls : Issued(d) => call[d].new \in Tokens \ {k}
    BY <1>0, <1>1 DEF CallKnows, Issued
  <2>4. QED
    BY <2>1, <2>2, <2>3
<1>5. ASSUME NEW b \in Browsers PROVE CookieSafe(b)' /\ OneCookie(b)'
  <2>1. CookieSafe(b) /\ OneCookie(b) /\ (cookie[b] = NoToken \/ cookie[b] \in Tokens \ {k})
    BY <1>0, <1>4
  <2>2. OneCookie(b)'
    BY <1>2, <2>1 DEF OneCookie
  <2>3. CookieSafe(b)'
    <3> SUFFICES ASSUME cookie[b] # NoToken, token[cookie[b]] = "revoked", holder[cookie[b]] \notin provoked
                 PROVE  CookieSafe(b)'
      BY <1>2, <1>3, <2>1 DEF CookieSafe, historyVars
    <3>1. PICK d \in Calls : call[d].at = "signedIn" /\ call[d].old = cookie[b]
                             /\ BrowserOf[call[d].tab] = b
      BY <2>1 DEF CookieSafe
    <3>2. call'[d] = call[d]
      BY <1>2, <3>1
    <3>3. QED
      BY <1>2, <3>1, <3>2 DEF CookieSafe
  <2>4. QED
    BY <2>2, <2>3
<1>6. ASSUME NEW d \in Calls PROVE NewIsUnseen(d)' /\ OldIsHere(d)' /\ WasProvoked(d)'
  <2>0. /\ NewIsUnseen(d) /\ OldIsHere(d) /\ WasProvoked(d)
        /\ \A e \in Calls : call'[e].old = call[e].old
        /\ call'[d].user = call[d].user /\ call'[d].tab = call[d].tab
    BY <1>2
  <2>1. OldIsHere(d)'
    <3>1. call[d].old # NoToken => holder'[call[d].old] = holder[call[d].old]
      BY <1>0, <1>3, <1>4
    <3>2. QED
      BY <1>2, <2>0, <3>1 DEF OldIsHere
  <2>2. WasProvoked(d)'
    BY <1>1, <1>2, <2>0 DEF WasProvoked, historyVars
  <2>3. NewIsUnseen(d)'
    <3>1. CASE d = c
      BY <1>1, <1>2, <1>3, <1>4, <2>0, <3>1 DEF NewIsUnseen, Issued
    <3>2. CASE d # c
      <4> SUFFICES ASSUME Issued(d) PROVE NewIsUnseen(d)'
        BY <1>2, <3>2 DEF NewIsUnseen, Issued
      <4>1. call'[d] = call[d] /\ call[d].new \in Tokens \ {k}
        BY <1>2, <1>4, <3>2
      <4>2. \A e \in Calls \ {d} : Issued(e)' => call'[e].new # call[d].new
        BY <1>1, <1>2, <2>0, <4>1 DEF NewIsUnseen, Issued
      <4>3. token'[call[d].new] = token[call[d].new] /\ holder'[call[d].new] = holder[call[d].new]
        BY <1>3, <4>1
      <4>4. QED
        BY <1>2, <2>0, <4>1, <4>2, <4>3 DEF NewIsUnseen, historyVars
    <3>3. QED
      BY <3>1, <3>2
  <2>4. QED
    BY <2>1, <2>2, <2>3
<1>7. QED
  BY <1>5, <1>6

(* The old token is retired while its answer is on its way, in a locked tab.*)
LEMMA ReplayRotate ==
  ASSUME ReplayInv, SessionInv', NEW c \in Calls, Rotate(c)
  PROVE  ReplayInv'
<1>0. /\ SessionInv /\ SessionsTypeOK /\ NoToken \notin Tokens
      /\ \A b \in Browsers : cookie[b] \in Tokens \cup {NoToken}
      /\ \A d \in Calls : CallKnows(d) /\ call[d].old \in Tokens \cup {NoToken}
  BY ReplayTypes
<1>1. /\ call[c].at = "rotate" /\ Step(c, "signedIn") /\ "signedIn" \in CallSteps
      /\ UNCHANGED <<cookie, holder, historyVars>>
  BY DEF Rotate, CallSteps
<1>2. PICK k \in Tokens :
        k = call[c].old /\ token' = [token EXCEPT ![k] = IF token[k] = "expired" THEN "expired" ELSE "revoked"]
  BY <1>0, <1>1 DEF Rotate, CallKnows
<1>3. /\ \A d \in Calls \ {c} : call'[d] = call[d]
      /\ call'[c].at = "signedIn" /\ call'[c].user = call[c].user /\ call'[c].tab = call[c].tab
      /\ call'[c].old = call[c].old /\ call'[c].new = call[c].new
  BY <1>0, <1>1, StepFacts
<1>4. \A j \in Tokens \ {k} : token'[j] = token[j]
  BY <1>0, <1>2 DEF SessionsTypeOK
<1> USE DEF ReplayInv
<1>5. ASSUME NEW b \in Browsers PROVE CookieSafe(b)' /\ OneCookie(b)'
  <2>0. CookieSafe(b) /\ OneCookie(b)
    OBVIOUS
  <2>1. OneCookie(b)'
    BY <1>1, <2>0 DEF OneCookie
  <2>2. CASE cookie[b] = k
    <3>1. BrowserOf[call[c].tab] = b
      BY <1>0, <1>2, <2>2 DEF OldIsHere
    <3>2. QED
      BY <1>1, <1>2, <1>3, <2>1, <2>2, <3>1 DEF CookieSafe
  <2>3. CASE cookie[b] # k
    <3> SUFFICES ASSUME cookie[b] # NoToken, token[cookie[b]] = "revoked", holder[cookie[b]] \notin provoked
                 PROVE  CookieSafe(b)'
      BY <1>0, <1>1, <1>4, <2>1, <2>3 DEF CookieSafe, historyVars
    <3>1. PICK d \in Calls : call[d].at = "signedIn" /\ call[d].old = cookie[b]
                             /\ BrowserOf[call[d].tab] = b
      BY <2>0 DEF CookieSafe
    <3>2. call'[d] = call[d]
      BY <1>1, <1>3, <3>1
    <3>3. QED
      BY <1>1, <3>1, <3>2 DEF CookieSafe
  <2>4. QED
    BY <2>1, <2>2, <2>3
<1>6. ASSUME NEW d \in Calls PROVE NewIsUnseen(d)' /\ OldIsHere(d)' /\ WasProvoked(d)'
  <2>0. NewIsUnseen(d) /\ OldIsHere(d) /\ WasProvoked(d)
    OBVIOUS
  <2>1. \A e \in Calls : /\ (Issued(e)' <=> Issued(e)) /\ call'[e].new = call[e].new
                         /\ call'[e].old = call[e].old /\ call'[e].user = call[e].user
                         /\ call'[e].tab = call[e].tab
    BY <1>1, <1>3 DEF Issued
  <2>2. OldIsHere(d)'
    BY <1>1, <2>0, <2>1 DEF OldIsHere
  <2>3. WasProvoked(d)'
    BY <1>1, <1>3, <2>0 DEF WasProvoked, historyVars
  <2>4. Issued(d) => call[d].new \in Tokens \ {k}
    BY <1>0, <1>2, <2>0 DEF NewIsUnseen, CallKnows, Issued
  <2>5. Issued(d) => token'[call[d].new] = token[call[d].new]
    BY <1>4, <2>4
  <2>6. NewIsUnseen(d)'
    BY <1>1, <2>0, <2>1, <2>5 DEF NewIsUnseen, historyVars
  <2>7. QED
    BY <2>2, <2>3, <2>6
<1>7. QED
  BY <1>5, <1>6

(* The answer that brings a new token to a browser.                         *)
LEMMA ReplayCookie ==
  ASSUME ReplayInv, SessionInv', NEW c \in Calls, setRefreshCookie(c)
  PROVE  ReplayInv'
<1>0. /\ SessionInv /\ SessionsTypeOK /\ NoToken \notin Tokens
      /\ \A b \in Browsers : cookie[b] \in Tokens \cup {NoToken}
      /\ \A d \in Calls : CallKnows(d) /\ call[d].old \in Tokens \cup {NoToken}
  BY ReplayTypes
<1>1. /\ call[c].at = "signedIn" /\ Answer(c) /\ UNCHANGED <<tokenVars, historyVars>>
      /\ call[c].new \in Tokens /\ BrowserOf[call[c].tab] \in Browsers
  BY <1>0, SessionsAssumption DEF setRefreshCookie, CallKnows
<1>2. PICK k \in Tokens, b \in Browsers :
        k = call[c].new /\ b = BrowserOf[call[c].tab] /\ cookie' = [cookie EXCEPT ![b] = k]
  BY <1>1 DEF setRefreshCookie
<1>3. call'[c] = NoCall /\ \A d \in Calls \ {c} : call'[d] = call[d]
  BY <1>0, <1>1, AnswerFacts
<1>4. cookie'[b] = k /\ \A a \in Browsers \ {b} : cookie'[a] = cookie[a]
  BY <1>0, <1>2 DEF SessionsTypeOK
<1> USE DEF ReplayInv
<1>5. /\ \A a \in Browsers : cookie[a] # k
      /\ \A d \in Calls : call[d].old # k
      /\ \A d \in Calls \ {c} : Issued(d) => call[d].new # k
      /\ token[k] = "revoked" => holder[k] \in provoked
  BY <1>1, <1>2 DEF NewIsUnseen, Issued
<1>6. ASSUME NEW a \in Browsers PROVE CookieSafe(a)' /\ OneCookie(a)'
  <2>0. CookieSafe(a) /\ OneCookie(a)
    OBVIOUS
  <2>1. OneCookie(a)'
    BY <1>4, <1>5, <2>0 DEF OneCookie
  <2>2. CASE a = b
    BY <1>1, <1>4, <1>5, <2>1, <2>2 DEF CookieSafe, tokenVars, historyVars
  <2>3. CASE a # b
    <3> SUFFICES ASSUME cookie[a] # NoToken, token[cookie[a]] = "revoked", holder[cookie[a]] \notin provoked
                 PROVE  CookieSafe(a)'
      BY <1>1, <1>4, <2>1, <2>3 DEF CookieSafe, tokenVars, historyVars
    <3>1. PICK d \in Calls : call[d].at = "signedIn" /\ call[d].old = cookie[a]
                             /\ BrowserOf[call[d].tab] = a
      BY <2>0 DEF CookieSafe
    <3>2. call'[d] = call[d]
      BY <1>2, <1>3, <2>3, <3>1
    <3>3. cookie'[a] = cookie[a]
      BY <1>4, <2>3
    <3>4. QED
      BY <3>1, <3>2, <3>3 DEF CookieSafe
  <2>4. QED
    BY <2>1, <2>2, <2>3
<1>7. ASSUME NEW d \in Calls PROVE NewIsUnseen(d)' /\ OldIsHere(d)' /\ WasProvoked(d)'
  <2>0. NewIsUnseen(d) /\ OldIsHere(d) /\ WasProvoked(d)
    OBVIOUS
  <2>1. CASE d = c
    BY <1>3, <2>1, NoCallFacts DEF NewIsUnseen, Issued, OldIsHere, WasProvoked
  <2>2. CASE d # c
    <3>1. call'[d] = call[d]
      BY <1>3, <2>2
    <3>2. WasProvoked(d)'
      BY <1>1, <2>0, <3>1 DEF WasProvoked, historyVars
    <3>3. OldIsHere(d)'
      BY <1>1, <1>4, <1>5, <2>0, <3>1 DEF OldIsHere, tokenVars
    <3>4. NewIsUnseen(d)'
      <4> SUFFICES ASSUME Issued(d) PROVE NewIsUnseen(d)'
        BY <3>1 DEF NewIsUnseen, Issued
      <4>1. call[d].new \in Tokens /\ call[d].new # k
        BY <1>0, <1>5, <2>2 DEF CallKnows, Issued
      <4>2. \A a \in Browsers : cookie'[a] # call[d].new
        BY <1>4, <2>0, <4>1 DEF NewIsUnseen
      <4>3. \A e \in Calls : call'[e].old # call[d].new
        BY <1>0, <1>3, <2>0, <4>1, NoCallFacts DEF NewIsUnseen
      <4>4. \A e \in Calls \ {d} : Issued(e)' => call'[e].new # call[d].new
        BY <1>3, <2>0, NoCallFacts DEF NewIsUnseen, Issued
      <4>5. QED
        BY <1>1, <2>0, <3>1, <4>2, <4>3, <4>4 DEF NewIsUnseen, tokenVars, historyVars
    <3>5. QED
      BY <3>2, <3>3, <3>4
  <2>3. QED
    BY <2>1, <2>2
<1>8. QED
  BY <1>6, <1>7

LEMMA ReplayStep ==
  ASSUME ReplayInv, OneTab, SessionsNext PROVE ReplayInv'
<1>0. SessionInv'
  BY SessionStep DEF ReplayInv
<1>1. ASSUME NEW c \in Calls, NEW t \in Tabs,
             \/ \E u \in Users : register(c, t, u) \/ login(c, t, u)
             \/ refresh(c, t) \/ logout(c, t)
      PROVE  ReplayInv'
  BY <1>0, <1>1, ReplaySigningIn, ReplayRefresh, ReplayRetirements
<1>2. ASSUME NEW c \in Calls, NEW u \in Users,
             resetPassword(c, u) \/ changePassword(c, u) \/ suspend(c, u) \/ reactivate(c, u)
      PROVE  ReplayInv'
  BY <1>0, <1>2, ReplayAccountRequests
<1>3. ASSUME NEW c \in Calls,
             \/ CreateUser(c) \/ issueTokens(c) \/ setRefreshCookie(c)
             \/ assertActive(c) \/ Rotate(c) \/ reuseDetected(c) \/ clearCookie(c)
             \/ updatePasswordHash(c) \/ SaveSuspended(c) \/ SaveActive(c) \/ revokeTokens(c)
             \/ LoseCall(c)
      PROVE  ReplayInv'
  BY <1>0, <1>3, ReplayGoingOn, ReplayIssue, ReplayCookie, ReplayRotate, ReplayRetirements
<1>4. QED
  BY <1>0, <1>1, <1>2, <1>3, ReplayRetirements DEF SessionsNext

(* Where each tab has a browser of its own, a refresh never meets its own   *)
(* retired token (api.ts:40-48), for any number of calls and lost answers:  *)
(* only a user who signed out, changed his password, was suspended, let a   *)
(* token expire or lost an answer can be taken for a thief.                 *)
THEOREM SessionsNotLostUnprovoked ==
  ASSUME OneTab PROVE SessionsSpec => []NeverLoggedOutUnprovoked
<1>1. ReplayInv /\ [SessionsNext]_sessionVars => ReplayInv'
  <2>1. ReplayInv /\ UNCHANGED sessionVars => ReplayInv'
    <3> SUFFICES ASSUME ReplayInv, UNCHANGED sessionVars PROVE ReplayInv'
      OBVIOUS
    <3>1. SessionInv'
      BY DEF ReplayInv, SessionInv, sessionVars, tokenVars, historyVars, SessionsTypeOK,
         TokenKnows, CookieKnows, UserKnows, CallKnows, Excused, Revoking
    <3>2. QED
      BY <3>1, ReplayFrame DEF SameCall, sessionVars, tokenVars, historyVars
  <2>2. QED
    BY <2>1, ReplayStep
<1>2. ReplayInv => NeverLoggedOutUnprovoked
  BY DEF ReplayInv, WasProvoked, NeverLoggedOutUnprovoked
<1>3. QED
  BY ReplayInitial, <1>1, <1>2, PTL DEF SessionsSpec

-----------------------------------------------------------------------------
(***************************************************************************)
(* Live pages                                                              *)
(***************************************************************************)

(* A page that missed nothing shows the document, will fetch it, or is to   *)
(* be told.  The rest is what that rests on: who is in the room is          *)
(* connected, nobody is told of more changes than there were, and versions  *)
(* on their way to a page are no older than the one it shows.               *)
PageInv(p) ==
  /\ link[p] = "down" <=> room[p] = "none"
  /\ told[p] <= version
  /\ shown[p] <= version
  /\ fetch[p].at = "read" => shown[p] <= fetch[p].version /\ fetch[p].version <= version
  /\ p \notin missed =>
       /\ fetch[p].at = "none" => shown[p] = version \/ told[p] > 0
       /\ fetch[p].at = "read" => fetch[p].version = version \/ told[p] > 0

LiveInv == LivePageTypeOK /\ \A p \in Pages : PageInv(p)

LEMMA FetchFacts ==
  /\ Asked \in FetchType /\ Asked.at = "asked" /\ NoFetch \in FetchType /\ NoFetch.at = "none"
  /\ \A v \in 0..MaxVersions : [at |-> "read", version |-> v] \in FetchType
BY LivePageAssumption DEF Asked, NoFetch, FetchType

LEMMA LiveInit == LivePageInit => LiveInv
BY FetchFacts, LivePageAssumption DEF LivePageInit, LiveInv, LivePageTypeOK, PageInv

LEMMA LiveTypes ==
  ASSUME LivePageTypeOK, NEW p \in Pages
  PROVE  /\ version \in Nat /\ told[p] \in Nat /\ shown[p] \in Nat /\ drops \in Nat
         /\ fetch[p] \in FetchType /\ fetch[p].version \in Nat
         /\ link[p] \in {"down", "up"} /\ room[p] \in {"none", "joining", "joined"}
BY LivePageAssumption DEF LivePageTypeOK, FetchType

LEMMA LiveStep ==
  ASSUME LiveInv, LivePageNext
  PROVE  LiveInv' /\ \A p \in Pages : shown'[p] >= shown[p]
<1> USE DEF LiveInv
<1>1. CASE emitOrderStatusChanged
  <2>1. /\ version' = version + 1 /\ version' \in 0..MaxVersions
        /\ UNCHANGED <<link, room, fetch, shown, drops>>
        /\ missed' = missed \cup Deaf /\ missed' \in SUBSET Pages
        /\ \A p \in Pages : told'[p] = IF room[p] = "joined" THEN told[p] + 1 ELSE told[p]
    BY <1>1, LivePageAssumption DEF emitOrderStatusChanged, LivePageTypeOK, Deaf
  <2>2. ASSUME NEW p \in Pages PROVE PageInv(p)' /\ told'[p] \in 0..MaxVersions /\ shown'[p] >= shown[p]
    BY <2>1, LiveTypes, LivePageAssumption DEF PageInv, Deaf
  <2>3. told' = [p \in Pages |-> told'[p]]
    BY <1>1 DEF emitOrderStatusChanged
  <2>4. told' \in [Pages -> 0..MaxVersions]
    BY <2>2, <2>3
  <2>5. LivePageTypeOK'
    BY <2>1, <2>4 DEF LivePageTypeOK
  <2>6. QED
    BY <2>2, <2>5
<1>2. ASSUME NEW p \in Pages, connect(p) \/ handleOrderSubscribe(p) \/ Disconnect(p)
      PROVE  LiveInv' /\ \A q \in Pages : shown'[q] >= shown[q]
  <2>1. LivePageTypeOK'
    BY <1>2, LivePageAssumption DEF connect, handleOrderSubscribe, Disconnect, JoinOnConnect, LivePageTypeOK
  <2>2. ASSUME NEW q \in Pages PROVE PageInv(q)' /\ shown'[q] >= shown[q]
    <3>1. CASE connect(p)
      BY <3>1, LiveTypes DEF connect, JoinOnConnect, PageInv, LivePageTypeOK
    <3>2. CASE handleOrderSubscribe(p)
      BY <3>2, LiveTypes DEF handleOrderSubscribe, PageInv, LivePageTypeOK
    <3>3. CASE Disconnect(p)
      BY <3>3, LiveTypes DEF Disconnect, PageInv, LivePageTypeOK
    <3>4. QED
      BY <1>2, <3>1, <3>2, <3>3
  <2>3. QED
    BY <2>1, <2>2
<1>3. ASSUME NEW p \in Pages,
             handleStatusChanged(p) \/ poll(p) \/ Read(p) \/ Show(p) \/ FetchFails(p)
      PROVE  LiveInv' /\ \A q \in Pages : shown'[q] >= shown[q]
  <2>0. fetch[p] \in FetchType
    BY DEF LivePageTypeOK
  <2>1. LivePageTypeOK'
    <3>1. CASE handleStatusChanged(p) \/ poll(p)
      BY <3>1, <2>0, FetchFacts, LivePageAssumption DEF handleStatusChanged, poll, LivePageTypeOK
    <3>2. CASE Read(p) \/ Show(p) \/ FetchFails(p)
      BY <3>2, <2>0, FetchFacts, LivePageAssumption DEF Read, Show, FetchFails, LivePageTypeOK, FetchType
    <3>3. QED
      BY <1>3, <3>1, <3>2
  <2>2. ASSUME NEW q \in Pages PROVE PageInv(q)' /\ shown'[q] >= shown[q]
    <3>1. CASE handleStatusChanged(p)
      BY <3>1, LiveTypes, FetchFacts DEF handleStatusChanged, PageInv, LivePageTypeOK
    <3>2. CASE poll(p)
      BY <3>2, LiveTypes, FetchFacts DEF poll, PageInv, LivePageTypeOK
    <3>3. CASE Read(p)
      BY <3>3, LiveTypes DEF Read, PageInv, LivePageTypeOK
    <3>4. CASE Show(p)
      BY <3>4, LiveTypes, FetchFacts DEF Show, PageInv, LivePageTypeOK
    <3>5. CASE FetchFails(p)
      BY <3>5, LiveTypes, FetchFacts DEF FetchFails, PageInv, LivePageTypeOK
    <3>6. QED
      BY <1>3, <3>1, <3>2, <3>3, <3>4, <3>5
  <2>3. QED
    BY <2>1, <2>2
<1>4. QED
  BY <1>1, <1>2, <1>3 DEF LivePageNext

LEMMA LiveInvariant == LivePageSpec => []LiveInv
<1>1. LiveInv /\ UNCHANGED pageVars => LiveInv'
  BY DEF LiveInv, pageVars, LivePageTypeOK, PageInv
<1>2. QED
  BY LiveInit, LiveStep, <1>1, PTL DEF LivePageSpec

(* Pages, connections and fetches keep their types. *)
THEOREM PagesTyped == LivePageSpec => []LivePageTypeOK
BY LiveInvariant, PTL DEF LiveInv

(* Any number of pages, however often the document changes and connections  *)
(* drop: with nothing on its way a page that missed nothing is current      *)
(* (orders/[id]/page.tsx:251-260).                                          *)
THEOREM PagesAreCurrent == LivePageSpec => []PageIsCurrent
<1>1. LiveInv => PageIsCurrent
  BY DEF LiveInv, PageIsCurrent, PageInv
<1>2. QED
  BY LiveInvariant, <1>1, PTL

(* No page ever goes back to an earlier version of the document. *)
THEOREM PagesNeverGoBack == LivePageSpec => NeverGoesBack
<1>1. ASSUME LiveInv, [LivePageNext]_pageVars
      PROVE  [\A p \in Pages : shown'[p] >= shown[p]]_pageVars
  BY <1>1, LiveStep
<1>2. QED
  BY LiveInvariant, <1>1, PTL DEF LivePageSpec, NeverGoesBack

-----------------------------------------------------------------------------
(***************************************************************************)
(* Riders                                                                  *)
(***************************************************************************)

(* What a request about u's role rests on: no profile is made twice, and an *)
(* administrator changes the role of somebody who is no rider.              *)
ErrandKnows(e) ==
  LET r == errand[e] u == errand[e].user IN
  /\ r.at # "idle" => u \in People
  /\ r.at \in {"phone", "profile", "role"} => r.role = "rider"
  /\ r.at = "role" => u \in profiles
  /\ r.at = "adminRole" => r.role # "rider" /\ (role[u] # "rider" \/ u \in raced)

(* Only the application that made the profile is yet to save the role.      *)
PersonKnows(u) ==
  /\ role[u] = "rider" => u \in profiles
  /\ u \in profiles =>
       role[u] = "rider" \/ u \in raced \cup stranded \/ ErrandsFor(u, {"role"}) # {}

RiderInv ==
  /\ RiderAccountsTypeOK
  /\ \A e \in Errands : ErrandKnows(e)
  /\ \A u \in People : PersonKnows(u)

LEMMA NoErrandFacts == NoErrand \in ErrandType /\ NoErrand.at = "idle"
  BY DEF NoErrand, ErrandType, Roles

LEMMA WritesInOrder ==
  WriteAfter("start") = "phone" /\ WriteAfter("phone") = "profile" /\ WriteAfter("profile") = "role"
  BY DEF WriteAfter

LEMMA RiderInitial == RiderAccountsInit => RiderInv
<1> SUFFICES ASSUME RiderAccountsInit PROVE RiderInv
  OBVIOUS
<1>1. RiderAccountsTypeOK
  BY NoErrandFacts DEF RiderAccountsInit, RiderAccountsTypeOK, Roles
<1>2. \A e \in Errands : ErrandKnows(e)
  BY NoErrandFacts DEF RiderAccountsInit, ErrandKnows
<1>3. \A u \in People : PersonKnows(u)
  BY DEF RiderAccountsInit, PersonKnows
<1> QED BY <1>1, <1>2, <1>3 DEF RiderInv

(* One errand changes, the others stay.                                     *)
ErrandBecomes(e, r) ==
  /\ r \in ErrandType
  /\ errand'[e] = r
  /\ errand' \in [Errands -> ErrandType]
  /\ \A f \in Errands \ {e} : errand'[f] = errand[f]

LEMMA BeginsErrand ==
  ASSUME RiderAccountsTypeOK, NEW e \in Errands, NEW r \in ErrandType, StartErrand(e, r)
  PROVE  ErrandBecomes(e, r) /\ errand[e].at = "idle"
  BY DEF StartErrand, ErrandBecomes, RiderAccountsTypeOK

LEMMA EndsErrand ==
  ASSUME RiderAccountsTypeOK, NEW e \in Errands, EndErrand(e)
  PROVE  ErrandBecomes(e, NoErrand)
  BY NoErrandFacts DEF EndErrand, ErrandBecomes, RiderAccountsTypeOK

LEMMA GoesOnErrand ==
  ASSUME RiderAccountsTypeOK, NEW e \in Errands, NEW at \in {"profile", "role"}, StepErrand(e, at)
  PROVE  \E r \in ErrandType :
           /\ ErrandBecomes(e, r)
           /\ r.at = at /\ r.user = errand[e].user /\ r.role = errand[e].role
<1> DEFINE r == [errand[e] EXCEPT !.at = at]
<1>1. errand[e] \in ErrandType
  BY DEF RiderAccountsTypeOK
<1>2. /\ r \in ErrandType
      /\ r.at = at /\ r.user = errand[e].user /\ r.role = errand[e].role
  BY <1>1 DEF ErrandType
<1>3. errand' = [errand EXCEPT ![e] = r]
  BY DEF StepErrand
<1> HIDE DEF r
<1>4. ErrandBecomes(e, r)
  BY <1>2, <1>3 DEF ErrandBecomes, RiderAccountsTypeOK
<1> QED BY <1>2, <1>4

(* A step of an errand e of u, by what it does to u: nobody else is         *)
(* concerned.                                                               *)
LEMMA ErrandOf ==
  ASSUME RiderInv, NEW e \in Errands, NEW u \in People, NEW r, ErrandBecomes(e, r),
         errand[e].at = "idle" \/ errand[e].user = u,
         r.at = "idle" \/ r.user = u,
         \A v \in People \ {u} : role'[v] = role[v],
         \A v \in People \ {u} : v \in raced' <=> v \in raced,
         \A v \in People \ {u} : v \in stranded' <=> v \in stranded,
         profiles' \in {profiles, profiles \cup {u}},
         u \in raced => u \in raced',
         RiderAccountsTypeOK', ErrandKnows(e)', PersonKnows(u)',
         role'[u] = "rider" => role[u] = "rider" \/ ErrandsFor(u, {"adminRole"}) = {} \/ u \in raced'
  PROVE  RiderInv'
<1>1. \A f \in Errands \ {e} : errand'[f] = errand[f]
  BY DEF ErrandBecomes
<1>2. errand'[e] = r
  BY DEF ErrandBecomes
<1>3. ASSUME NEW f \in Errands, f # e  PROVE ErrandKnows(f)'
  <2>1. ErrandKnows(f) /\ errand'[f] = errand[f]
    BY <1>1, <1>3 DEF RiderInv
  <2>2. errand[f].at = "adminRole" /\ errand[f].user = u => ErrandsFor(u, {"adminRole"}) # {}
    BY DEF ErrandsFor
  <2> QED BY <2>1, <2>2 DEF ErrandKnows
<1>4. ASSUME NEW v \in People, v # u  PROVE PersonKnows(v)'
  <2>1. PersonKnows(v)
    BY DEF RiderInv
  <2>2. \A f \in ErrandsFor(v, {"role"}) : f \in ErrandsFor(v, {"role"})'
    BY <1>1, <1>4 DEF ErrandsFor
  <2> QED BY <1>4, <2>1, <2>2 DEF PersonKnows
<1> QED BY <1>3, <1>4 DEF RiderInv

LEMMA ApplyStep ==
  ASSUME RiderInv, NEW e \in Errands, NEW u \in People, NEW p \in PhoneNumbers, apply(e, u, p)
  PROVE  RiderInv'
<1> DEFINE r == [at |-> WriteAfter("start"), user |-> u, phone |-> p, role |-> "rider"]
<1>1. /\ r \in ErrandType
      /\ r.at = "phone" /\ r.user = u /\ r.role = "rider"
  BY WritesInOrder DEF ErrandType, Roles
<1>2. /\ StartErrand(e, r)
      /\ UNCHANGED <<role, tokenRole, phoneOf, profiles, raced, stranded>>
  BY DEF apply
<1> HIDE DEF r
<1>3. ErrandBecomes(e, r) /\ errand[e].at = "idle"
  BY <1>1, <1>2, BeginsErrand DEF RiderInv
<1>4. RiderAccountsTypeOK'
  BY <1>2, <1>3 DEF RiderInv, RiderAccountsTypeOK, ErrandBecomes
<1>5. ErrandKnows(e)'
  BY <1>1, <1>3 DEF ErrandKnows, ErrandBecomes
<1>6. \A f \in ErrandsFor(u, {"role"}) : f \in ErrandsFor(u, {"role"})'
  BY <1>3 DEF ErrandsFor, ErrandBecomes
<1>7. PersonKnows(u)'
  BY <1>2, <1>6 DEF RiderInv, PersonKnows
<1> QED BY <1>1, <1>2, <1>3, <1>4, <1>5, <1>7, ErrandOf

LEMMA ChangeAdminRoleStep ==
  ASSUME RiderInv, NEW e \in Errands, NEW u \in People, NEW q \in ROLE_CHANGE_TARGETS,
         changeAdminRole(e, u, q)
  PROVE  RiderInv'
<1> DEFINE r == [at |-> "adminRole", user |-> u, phone |-> NoPhone, role |-> q]
<1>1. /\ r \in ErrandType
      /\ r.at = "adminRole" /\ r.user = u /\ r.role = q /\ q # "rider" /\ role[u] # "rider"
  BY DEF ErrandType, Roles, ROLE_CHANGE_TARGETS, changeAdminRole, MayChangeRole
<1>2. /\ StartErrand(e, r)
      /\ UNCHANGED <<role, tokenRole, phoneOf, profiles, raced, stranded>>
  BY DEF changeAdminRole
<1> HIDE DEF r
<1>3. ErrandBecomes(e, r) /\ errand[e].at = "idle"
  BY <1>1, <1>2, BeginsErrand DEF RiderInv
<1>4. RiderAccountsTypeOK'
  BY <1>2, <1>3 DEF RiderInv, RiderAccountsTypeOK, ErrandBecomes
<1>5. ErrandKnows(e)'
  BY <1>1, <1>2, <1>3 DEF ErrandKnows, ErrandBecomes
<1>6. \A f \in ErrandsFor(u, {"role"}) : f \in ErrandsFor(u, {"role"})'
  BY <1>3 DEF ErrandsFor, ErrandBecomes
<1>7. PersonKnows(u)'
  BY <1>2, <1>6 DEF RiderInv, PersonKnows
<1> QED BY <1>1, <1>2, <1>3, <1>4, <1>5, <1>7, ErrandOf

LEMMA WriteErrandStep ==
  ASSUME RiderInv, NEW e \in Errands, updateProfile(e) \/ CreateRider(e)
  PROVE  RiderInv'
<1>0. PICK u \in People : u = errand[e].user
  BY DEF updateProfile, CreateRider, updateRole, SaveAdminRole, AbandonErrand, RiderInv, ErrandKnows
<1>1. /\ errand[e].role = "rider" /\ ErrandKnows(e)
      /\ errand[e] \in ErrandType
      /\ UNCHANGED <<role, tokenRole, raced, stranded>>
      /\ errand[e].at \in {"phone", "profile"}
      /\ profiles' \in {profiles, profiles \cup {u}}
  BY <1>0 DEF updateProfile, CreateRider, RiderInv, ErrandKnows, RiderAccountsTypeOK
<1>2. PICK r \in ErrandType :
        /\ ErrandBecomes(e, r)
        /\ \/ r = NoErrand /\ profiles' = profiles
           \/ r.at = "profile" /\ r.user = u /\ r.role = "rider" /\ profiles' = profiles
           \/ r.at = "role" /\ r.user = u /\ r.role = "rider" /\ profiles' = profiles \cup {u}
  <2>1. CASE EndErrand(e) /\ profiles' = profiles
    BY <2>1, EndsErrand, NoErrandFacts DEF RiderInv
  <2>2. CASE StepErrand(e, "profile") /\ profiles' = profiles
    BY <1>0, <1>1, <2>2, GoesOnErrand DEF RiderInv
  <2>3. CASE StepErrand(e, "role") /\ profiles' = profiles \cup {u}
    BY <1>0, <1>1, <2>3, GoesOnErrand DEF RiderInv
  <2>4. u \in profiles => profiles \cup {u} = profiles
    OBVIOUS
  <2> QED BY <1>0, <2>1, <2>2, <2>3, <2>4, WritesInOrder DEF updateProfile, CreateRider
<1>3. phoneOf' \in [People -> PhoneNumbers \cup {NoPhone}]
  BY <1>0, <1>1 DEF updateProfile, CreateRider, RiderInv, RiderAccountsTypeOK, ErrandType
<1>4. RiderAccountsTypeOK'
  BY <1>0, <1>1, <1>2, <1>3 DEF RiderInv, RiderAccountsTypeOK, ErrandBecomes
<1>5. ErrandKnows(e)'
  BY <1>0, <1>1, <1>2, NoErrandFacts DEF ErrandKnows, ErrandBecomes
<1>6. \A f \in ErrandsFor(u, {"role"}) : f \in ErrandsFor(u, {"role"})'
  <2>1. \A f \in ErrandsFor(u, {"role"}) : f \in Errands \ {e}
    BY <1>0, <1>1 DEF ErrandsFor
  <2> QED BY <1>2, <2>1 DEF ErrandsFor, ErrandBecomes
<1>7. PersonKnows(u)'
  <2>1. CASE profiles' = profiles
    BY <1>0, <1>1, <1>6, <2>1 DEF RiderInv, PersonKnows
  <2>2. CASE r.at = "role" /\ r.user = u /\ profiles' = profiles \cup {u}
    <3>1. e \in ErrandsFor(u, {"role"})'
      BY <1>2, <2>2 DEF ErrandsFor, ErrandBecomes
    <3>2. PersonKnows(u)
      BY <1>0, <1>1 DEF RiderInv
    <3> QED BY <1>0, <1>1, <2>2, <3>1, <3>2 DEF PersonKnows
  <2> QED BY <1>2, <2>1, <2>2
<1>8. r.at = "idle" \/ r.user = u
  BY <1>2, NoErrandFacts
<1> QED BY <1>0, <1>1, <1>2, <1>4, <1>5, <1>7, <1>8, ErrandOf

LEMMA SaveRoleStep ==
  ASSUME RiderInv, NEW e \in Errands, updateRole(e) \/ SaveAdminRole(e)
  PROVE  RiderInv'
<1>0. PICK u \in People : u = errand[e].user
  BY DEF updateProfile, CreateRider, updateRole, SaveAdminRole, AbandonErrand, RiderInv, ErrandKnows
<1>1. /\ ErrandKnows(e) /\ errand[e] \in ErrandType
      /\ errand[e].at \in {"role", "adminRole"}
      /\ UNCHANGED <<tokenRole, phoneOf, profiles, stranded>>
      /\ role' = [role EXCEPT ![u] = errand[e].role]
      /\ EndErrand(e)
      /\ raced' \in {raced, raced \cup {u}}
  BY <1>0 DEF updateRole, SaveAdminRole, RiderInv, ErrandKnows, RiderAccountsTypeOK
<1>2. ErrandBecomes(e, NoErrand)
  BY <1>0, <1>1, EndsErrand DEF RiderInv
<1>3. RiderAccountsTypeOK'
  BY <1>0, <1>1, <1>2 DEF RiderInv, RiderAccountsTypeOK, ErrandBecomes, ErrandType
<1>4. ErrandKnows(e)'
  BY <1>2, NoErrandFacts DEF ErrandKnows, ErrandBecomes
<1>5. role'[u] = errand[e].role /\ \A v \in People \ {u} : role'[v] = role[v]
  BY <1>0, <1>1 DEF RiderInv, RiderAccountsTypeOK
<1>6. PersonKnows(u)
  BY <1>0, <1>1 DEF RiderInv
<1>7. CASE updateRole(e)
  <2>1. role'[u] = "rider" /\ u \in profiles'
        /\ (ErrandsFor(u, {"adminRole"}) = {} \/ u \in raced')
    BY <1>0, <1>1, <1>5, <1>7 DEF updateRole, ErrandKnows
  <2>2. PersonKnows(u)'
    BY <1>1, <2>1 DEF PersonKnows
  <2> QED BY <1>0, <1>1, <1>2, <1>3, <1>4, <1>5, <2>1, <2>2, NoErrandFacts, ErrandOf
<1>8. CASE SaveAdminRole(e)
  <2>1. /\ errand[e].at = "adminRole" /\ role'[u] # "rider" /\ raced' = raced
        /\ role[u] # "rider" \/ u \in raced
    BY <1>0, <1>1, <1>5, <1>8 DEF SaveAdminRole, ErrandKnows
  <2>2. \A f \in ErrandsFor(u, {"role"}) : f \in ErrandsFor(u, {"role"})'
    <3>1. \A f \in ErrandsFor(u, {"role"}) : f \in Errands \ {e}
      BY <1>0, <2>1 DEF ErrandsFor
    <3> QED BY <1>2, <3>1 DEF ErrandsFor, ErrandBecomes
  <2>3. PersonKnows(u)'
    BY <1>0, <1>1, <1>6, <2>1, <2>2 DEF PersonKnows
  <2> QED BY <1>0, <1>1, <1>2, <1>3, <1>4, <1>5, <2>1, <2>3, NoErrandFacts, ErrandOf
<1> QED BY <1>7, <1>8

LEMMA AbandonErrandStep ==
  ASSUME RiderInv, NEW e \in Errands, AbandonErrand(e)
  PROVE  RiderInv'
<1>0. PICK u \in People : u = errand[e].user
  BY DEF updateProfile, CreateRider, updateRole, SaveAdminRole, AbandonErrand, RiderInv, ErrandKnows
<1>1. /\ ErrandKnows(e) /\ errand[e] \in ErrandType
      /\ UNCHANGED <<role, tokenRole, phoneOf, profiles, raced>>
      /\ EndErrand(e)
      /\ stranded' \in {stranded, stranded \cup {u}}
      /\ errand[e].at = "role" => u \in stranded'
  BY <1>0 DEF AbandonErrand, Applying, ErrandsFor, RiderInv, ErrandKnows, RiderAccountsTypeOK
<1>2. ErrandBecomes(e, NoErrand)
  BY <1>0, <1>1, EndsErrand DEF RiderInv
<1>3. RiderAccountsTypeOK'
  BY <1>0, <1>1, <1>2 DEF RiderInv, RiderAccountsTypeOK, ErrandBecomes
<1>4. ErrandKnows(e)'
  BY <1>2, NoErrandFacts DEF ErrandKnows, ErrandBecomes
<1>5. PersonKnows(u)
  BY <1>0, <1>1 DEF RiderInv
<1>6. errand[e].at # "role" =>
        \A f \in ErrandsFor(u, {"role"}) : f \in ErrandsFor(u, {"role"})'
  BY <1>0, <1>2 DEF ErrandsFor, ErrandBecomes
<1>7. PersonKnows(u)'
  BY <1>0, <1>1, <1>5, <1>6 DEF PersonKnows
<1> QED BY <1>0, <1>1, <1>2, <1>3, <1>4, <1>7, NoErrandFacts, ErrandOf

LEMMA RiderStep == ASSUME RiderInv, [RiderAccountsNext]_accountVars PROVE RiderInv'
<1>1. ASSUME NEW u \in People, refreshRole(u)  PROVE RiderInv'
  BY <1>1 DEF refreshRole, RiderInv, RiderAccountsTypeOK, ErrandKnows, PersonKnows, ErrandsFor
<1>2. CASE UNCHANGED accountVars
  BY <1>2 DEF accountVars, RiderInv, RiderAccountsTypeOK, ErrandKnows, PersonKnows, ErrandsFor
<1> QED
  BY <1>1, <1>2, ApplyStep, ChangeAdminRoleStep, WriteErrandStep, SaveRoleStep, AbandonErrandStep
  DEF RiderAccountsNext

LEMMA RiderInvariant == RiderAccountsSpec => []RiderInv
  BY RiderInitial, RiderStep, PTL DEF RiderAccountsSpec

(* Roles, profiles, phone numbers and errands keep their types.              *)
THEOREM RiderAccountsTyped == RiderAccountsSpec => []RiderAccountsTypeOK
BY RiderInvariant, PTL DEF RiderInv

(* However many applications and administrators are at work on one account, *)
(* whoever has the role of a rider has a profile and the reverse, unless an *)
(* application was cut off before its last write or raced with a change of  *)
(* the role.                                                                *)
THEOREM RidersAreWhole == RiderAccountsSpec => []RidersHaveAProfile
<1>1. RiderInv => RidersHaveAProfile
  <2> SUFFICES ASSUME RiderInv, NEW u \in People, Applying(u) = {},
                      u \notin raced \cup stranded
               PROVE  role[u] = "rider" <=> u \in profiles
    BY DEF RidersHaveAProfile
  <2>1. ErrandsFor(u, {"role"}) = {}
    BY DEF Applying, ErrandsFor
  <2> QED BY <2>1 DEF RiderInv, PersonKnows
<1> QED BY <1>1, RiderInvariant, PTL

-----------------------------------------------------------------------------
(***************************************************************************)
(* Opening hours                                                           *)
(***************************************************************************)

(* The smallest of some numbers: the one with the fewest up to it.          *)
LEMMA Least ==
  ASSUME NEW S, S \subseteq Nat, S # {}
  PROVE  \E n \in S : \A m \in S : n <= m
<1> DEFINE UpTo(n) == {m \in S : m <= n}
           T == {UpTo(n) : n \in S}
<1>1. \A n \in S : UpTo(n) \in FiniteSubsetsOf(Nat)
  <2> SUFFICES ASSUME NEW n \in S
               PROVE  UpTo(n) \in FiniteSubsetsOf(Nat)
    OBVIOUS
  <2>1. UpTo(n) \in SUBSET Nat /\ n \in Nat /\ \A m \in UpTo(n) : m <= n
    OBVIOUS
  <2> HIDE DEF UpTo
  <2>2. IsFiniteSet(UpTo(n))
    BY <2>1, FS_BoundedSetOfNaturals
  <2> QED BY <2>1, <2>2 DEF FiniteSubsetsOf
<1>2. T \subseteq FiniteSubsetsOf(Nat) /\ T # {}
  BY <1>1
<1>3. IsWellFoundedOn(StrictSubsetOrdering(Nat), FiniteSubsetsOf(Nat))
  BY FS_StrictSubsetOrderingWellFounded
<1>4. PICK x \in T : \A y \in T : ~ (<<y, x>> \in StrictSubsetOrdering(Nat))
  <2> HIDE DEF T
  <2> QED BY <1>2, <1>3, WFMin
<1>5. PICK n \in S : x = UpTo(n)
  OBVIOUS
<1>6. ASSUME NEW m \in S, m < n
      PROVE  FALSE
  <2>0. n \in Nat /\ m \in Nat /\ S \subseteq Nat
    OBVIOUS
  <2>1. UpTo(m) \subseteq UpTo(n) /\ n \in UpTo(n) /\ n \notin UpTo(m)
    <3>1. \A k \in S : k <= m => k <= n
      BY <1>6, <2>0
    <3>2. n <= n /\ ~ n <= m
      BY <1>6, <2>0
    <3> QED BY <3>1, <3>2
  <2>2. <<UpTo(m), UpTo(n)>> \in StrictSubsetOrdering(Nat)
    BY <1>1, <2>1 DEF StrictSubsetOrdering, FiniteSubsetsOf
  <2> QED BY <1>4, <1>5, <2>2
<1> QED BY <1>6

(* Multiplication, one fact at a time.                                      *)
LEMMA Product ==
  ASSUME NEW a \in Int, NEW b \in Int, NEW n \in Nat
  PROVE  /\ a * n \in Int
         /\ (a + 1) * n = a * n + n /\ (a - 1) * n = a * n - n
         /\ (a + b) * n = a * n + b * n /\ (a - b) * n = a * n - b * n
         /\ a <= b => a * n <= b * n
OBVIOUS

LEMMA Division ==
  ASSUME NEW a \in Int, NEW n \in Nat \ {0}
  PROVE  /\ a \div n \in Int /\ a % n \in 0 .. n - 1
         /\ a = (a \div n) * n + (a % n)
OBVIOUS

LEMMA DivisionIsUnique ==
  ASSUME NEW n \in Nat \ {0}, NEW q \in Int, NEW r \in 0 .. n - 1
  PROVE  (q * n + r) \div n = q /\ (q * n + r) % n = r
<1> DEFINE a == q * n + r
           p == a \div n
<1>1. q * n \in Int /\ a \in Int
  BY Product
<1>2. p \in Int /\ a % n \in 0 .. n - 1 /\ a = p * n + (a % n)
  BY <1>1, Division
<1>3. ~ q + 1 <= p
  <2>1. q + 1 <= p => (q + 1) * n <= p * n
    BY <1>2, Product
  <2>2. (q + 1) * n = q * n + n
    BY Product
  <2>3. p * n \in Int
    BY <1>2, Product
  <2> QED BY <1>1, <1>2, <2>1, <2>2, <2>3
<1>4. ~ p + 1 <= q
  <2>1. p + 1 <= q => (p + 1) * n <= q * n
    BY <1>2, Product
  <2>2. (p + 1) * n = p * n + n /\ p * n \in Int
    BY <1>2, Product
  <2> QED BY <1>1, <1>2, <2>1, <2>2
<1>5. p = q
  BY <1>2, <1>3, <1>4
<1> QED BY <1>1, <1>2, <1>5

LEMMA TheWeek ==
  /\ DaysInWeek \in Nat \ {0} /\ DayLength \in Nat \ {0} /\ Week \in Nat \ {0}
  /\ \A i \in Int : i * DayLength \in Int
<1>1. DaysInWeek \in Nat \ {0} /\ DayLength \in Nat \ {0}
  BY OpeningHoursAssumption
<1>2. 1 * DayLength <= DaysInWeek * DayLength /\ DaysInWeek * DayLength \in Int
  BY <1>1, Product
<1>3. 1 * DayLength = DayLength
  BY <1>1
<1> QED BY <1>1, <1>2, <1>3, Product DEF Week

(* The clock is at a minute of a day.                                       *)
LEMMA ClockReads ==
  ASSUME OpeningHoursTypeOK
  PROVE  /\ dayOfWeek \in Days /\ minutes \in Minutes
         /\ clock = dayOfWeek * DayLength + minutes
<1>1. clock \in 0 .. Week - 1 /\ clock \in Int
  BY TheWeek DEF OpeningHoursTypeOK
<1>2. PICK d, m : d = dayOfWeek /\ m = minutes
  OBVIOUS
<1>3. d \in Int /\ m \in Minutes /\ clock = d * DayLength + m
  BY <1>1, <1>2, TheWeek, Division DEF dayOfWeek, minutes, Minutes
<1>4. ~ DaysInWeek <= d
  <2>1. DaysInWeek <= d => Week <= d * DayLength
    BY <1>3, TheWeek, Product DEF Week
  <2> QED BY <1>1, <1>3, <2>1, TheWeek DEF Minutes
<1>5. ~ d + 1 <= 0
  <2>1. d + 1 <= 0 => (d + 1) * DayLength <= 0 * DayLength
    BY <1>3, TheWeek, Product
  <2>2. (d + 1) * DayLength = d * DayLength + DayLength
    BY <1>3, TheWeek, Product
  <2>3. 0 * DayLength = 0
    BY TheWeek
  <2> QED BY <1>1, <1>3, <2>1, <2>2, <2>3, TheWeek DEF Minutes
<1>6. d \in Days
  BY <1>3, <1>4, <1>5, TheWeek DEF Days
<1> QED BY <1>2, <1>3, <1>6

LEMMA DaysGoRound ==
  ASSUME OpeningHoursTypeOK, NEW i \in 0 .. DaysInWeek
  PROVE  /\ DayAfter(i) \in Days
         /\ DayAfter(i) = IF dayOfWeek + i < DaysInWeek THEN dayOfWeek + i
                          ELSE dayOfWeek + i - DaysInWeek
<1>1. PICK d \in Days : d = dayOfWeek
  BY ClockReads
<1>2. CASE d + i < DaysInWeek
  <2>1. d + i \in 0 .. DaysInWeek - 1 /\ 0 \in Int
    BY <1>2, TheWeek DEF Days
  <2>2. (0 * DaysInWeek + (d + i)) % DaysInWeek = d + i
    BY <2>1, TheWeek, DivisionIsUnique
  <2>3. 0 * DaysInWeek + (d + i) = d + i
    BY <2>1, TheWeek
  <2> QED BY <1>1, <1>2, <2>1, <2>2, <2>3 DEF DayAfter, Days
<1>3. CASE ~ d + i < DaysInWeek
  <2>1. d + i - DaysInWeek \in 0 .. DaysInWeek - 1 /\ 1 \in Int
    BY <1>3, TheWeek DEF Days
  <2>2. (1 * DaysInWeek + (d + i - DaysInWeek)) % DaysInWeek = d + i - DaysInWeek
    BY <2>1, TheWeek, DivisionIsUnique
  <2>3. 1 * DaysInWeek + (d + i - DaysInWeek) = d + i
    BY <2>1, TheWeek DEF Days
  <2> QED BY <1>1, <1>3, <2>1, <2>2, <2>3 DEF DayAfter, Days
<1> QED BY <1>2, <1>3

(* A remainder is its own, and a week less than that leaves the same.       *)
LEMMA WeeksGoRound ==
  ASSUME NEW n \in Nat \ {0}, NEW r \in 0 .. n - 1
  PROVE  /\ r % n = r /\ r \div n = 0
         /\ (r + n) % n = r /\ (r - n) % n = r
<1>1. PICK z \in Int : z = 0
  OBVIOUS
<1>2. PICK u \in Int : u = 1
  OBVIOUS
<1>3. PICK v \in Int : v = -1
  OBVIOUS
<1>4. z * n + r = r /\ u * n + r = r + n /\ v * n + r = r - n
  BY <1>1, <1>2, <1>3
<1>5. /\ (z * n + r) % n = r /\ (z * n + r) \div n = z
      /\ (u * n + r) % n = r /\ (v * n + r) % n = r
  BY DivisionIsUnique
<1> QED BY <1>1, <1>4, <1>5

(* How many midnights have passed since a moment o of day e was last due:   *)
(* none if that was today, and a week of them if it is due later today.     *)
Midnights(e, o) ==
  IF e < dayOfWeek THEN dayOfWeek - e
  ELSE IF e = dayOfWeek /\ o <= minutes THEN 0
  ELSE dayOfWeek - e + DaysInWeek

LEMMA SinceItOpened ==
  ASSUME OpeningHoursTypeOK, NEW e \in Days, NEW o \in Minutes
  PROVE  /\ Midnights(e, o) \in 0 .. DaysInWeek
         /\ Midnights(e, o) = 0 => e = dayOfWeek /\ o <= minutes
         /\ (clock - (e * DayLength + o)) % Week
              = Midnights(e, o) * DayLength + (minutes - o)
<1>1. PICK d \in Days, m \in Minutes :
        d = dayOfWeek /\ m = minutes /\ clock = d * DayLength + m
  BY ClockReads
<1>2. PICK k : k = Midnights(e, o)
  OBVIOUS
<1>3. /\ k \in 0 .. DaysInWeek
      /\ k = 0 => e = d /\ o <= m
      /\ k = DaysInWeek => m < o
      /\ k = d - e \/ k = d - e + DaysInWeek
  BY <1>1, <1>2, TheWeek DEF Midnights, Days, Minutes
<1>4. PICK dl \in Int, el \in Int, kl \in Int :
        dl = d * DayLength /\ el = e * DayLength /\ kl = k * DayLength
  BY <1>3, TheWeek DEF Days
<1>5. PICK r \in Int : r = kl + (m - o)
  BY <1>4 DEF Minutes
<1>6. r \in 0 .. Week - 1
  <2>1. k = 0 => kl = 0
    BY <1>4, TheWeek
  <2>2. k > 0 => DayLength <= kl
    <3>1. k > 0 => 1 * DayLength <= k * DayLength
      BY <1>3, TheWeek, Product
    <3>2. 1 * DayLength = DayLength
      BY TheWeek
    <3> QED BY <1>4, <3>1, <3>2
  <2>3. k < DaysInWeek => kl <= Week - DayLength
    <3>1. k < DaysInWeek => k * DayLength <= (DaysInWeek - 1) * DayLength
      BY <1>3, TheWeek, Product
    <3>2. (DaysInWeek - 1) * DayLength = Week - DayLength
      BY TheWeek, Product DEF Week
    <3> QED BY <1>4, <3>1, <3>2
  <2>4. k = DaysInWeek => kl = Week
    BY <1>4 DEF Week
  <2> QED BY <1>1, <1>3, <1>4, <2>1, <2>2, <2>3, <2>4, <1>5, TheWeek DEF Minutes
<1>7. clock - (e * DayLength + o) = dl - el + m - o
  BY <1>1, <1>4, TheWeek DEF Minutes
<1>8. Midnights(e, o) * DayLength + (minutes - o) = r
  BY <1>1, <1>2, <1>4, <1>5
<1>9. CASE k = d - e
  <2>1. kl = dl - el
    BY <1>4, <1>9, TheWeek, Product DEF Days
  <2>2. clock - (e * DayLength + o) = r
    BY <1>1, <1>4, <1>7, <1>5, <2>1, TheWeek DEF Minutes
  <2>3. r % Week = r
    BY <1>6, TheWeek, WeeksGoRound
  <2> QED BY <1>1, <1>2, <1>3, <1>8, <2>2, <2>3
<1>10. CASE k = d - e + DaysInWeek
  <2>1. kl = dl - el + Week
    <3>1. d - e \in Int /\ (d - e) * DayLength = dl - el
      BY <1>4, TheWeek, Product DEF Days
    <3>2. k * DayLength = (d - e) * DayLength + DaysInWeek * DayLength
      BY <1>10, <3>1, TheWeek, Product
    <3> QED BY <1>4, <3>1, <3>2 DEF Week
  <2>2. clock - (e * DayLength + o) = r - Week
    BY <1>1, <1>4, <1>7, <1>5, <2>1, TheWeek DEF Minutes
  <2>3. (r - Week) % Week = r
    BY <1>6, TheWeek, WeeksGoRound
  <2> QED BY <1>1, <1>2, <1>3, <1>8, <2>2, <2>3
<1> QED BY <1>1, <1>2, <1>3, <1>9, <1>10

(* An entry of the schedule, told apart by when it closes.                  *)
LEMMA EntryFields ==
  ASSUME OpeningHoursTypeOK, NEW e \in Days
  PROVE  openingHours[e].openTime \in Minutes /\ openingHours[e].closeTime \in Minutes
<1>1. 0 \in Minutes
  BY TheWeek DEF Minutes
<1>2. PICK r \in Entry : r = openingHours[e]
  BY DEF OpeningHoursTypeOK
<1>3. r.openTime \in Minutes /\ r.closeTime \in Minutes
  <2>1. CASE r \in [isClosed : {FALSE}, openTime : Minutes, closeTime : Minutes]
    BY <2>1
  <2>2. CASE r = [isClosed |-> TRUE, openTime |-> 0, closeTime |-> 0]
    <3>1. r.openTime = 0 /\ r.closeTime = 0
      BY <2>2
    <3> QED BY <1>1, <3>1
  <2> QED BY <2>1, <2>2 DEF Entry
<1> QED BY <1>2, <1>3

(* The hours of an entry hold now if it opened today and has not closed, or *)
(* if it opened a midnight ago and runs past it.                            *)
LEMMA EntryIsOpen ==
  ASSUME OpeningHoursTypeOK, NEW e \in Days, NEW k, k = Midnights(e, openingHours[e].openTime)
  PROVE  (clock - OpensAt(e)) % Week < LengthOf(e)
           <=> \/ k = 0 /\ (Overnight(e) \/ minutes < openingHours[e].closeTime)
               \/ k = 1 /\ Overnight(e) /\ minutes < openingHours[e].closeTime
<1>1. PICK o \in Minutes, c \in Minutes :
        o = openingHours[e].openTime /\ c = openingHours[e].closeTime
  BY EntryFields
<1>2. PICK m \in Minutes : m = minutes
  BY ClockReads
<1>3. k \in 0 .. DaysInWeek /\ (clock - OpensAt(e)) % Week = k * DayLength + (m - o)
  BY <1>1, <1>2, SinceItOpened DEF OpensAt
<1>4. LengthOf(e) = IF c <= o THEN c - o + DayLength ELSE c - o
  BY <1>1, TheWeek DEF LengthOf, Minutes
<1>5. PICK kl \in Int : kl = k * DayLength
  BY <1>3, TheWeek
<1>6. k = 0 => kl = 0
  BY <1>5, TheWeek
<1>7. k = 1 => kl = DayLength
  BY <1>5, TheWeek
<1>8. 2 <= k => 2 * DayLength <= kl
  BY <1>3, <1>5, TheWeek, Product
<1>9. Overnight(e) <=> c <= o
  BY <1>1 DEF Overnight
<1>10. /\ o \in Int /\ c \in Int /\ m \in Int /\ k \in Int /\ DayLength \in Int
       /\ 0 <= o /\ 0 <= m /\ 0 <= c /\ c < DayLength /\ m < DayLength
       /\ k = 0 \/ k = 1 \/ 2 <= k
  BY <1>3, TheWeek DEF Minutes
<1>11. PICK l \in Int : l = LengthOf(e) /\ l = IF c <= o THEN c - o + DayLength ELSE c - o
  BY <1>4, <1>10
<1>12. CASE k = 0
  <2>1. kl + (m - o) < l <=> c <= o \/ m < c
    BY <1>6, <1>10, <1>11, <1>12
  <2> QED BY <1>1, <1>2, <1>3, <1>5, <1>9, <1>11, <1>12, <2>1
<1>13. CASE k = 1
  <2>1. kl + (m - o) < l <=> c <= o /\ m < c
    BY <1>7, <1>10, <1>11, <1>13
  <2> QED BY <1>1, <1>2, <1>3, <1>5, <1>9, <1>11, <1>13, <2>1
<1>14. CASE 2 <= k
  <2>1. ~ kl + (m - o) < l
    BY <1>8, <1>10, <1>11, <1>14
  <2>2. k # 0 /\ k # 1
    BY <1>14
  <2> QED BY <1>1, <1>2, <1>3, <1>5, <1>9, <1>11, <2>1, <2>2
<1> QED BY <1>10, <1>12, <1>13, <1>14

(* The page's two questions are the schedule's one.                         *)
LEMMA OpenIsInHours ==
  ASSUME OpeningHoursTypeOK
  PROVE  InHours(clock) <=> StillOpen \/ OpenedToday
<1>1. PICK d \in Days, m \in Minutes : d = dayOfWeek /\ m = minutes
  BY ClockReads
<1>0. DaysInWeek - 1 \in 0 .. DaysInWeek
  BY TheWeek
<1>2. PICK y \in Days : y = DayAfter(DaysInWeek - 1)
  BY <1>0, DaysGoRound
<1>3. y = IF d = 0 THEN DaysInWeek - 1 ELSE d - 1
  <2>1. y = IF d + (DaysInWeek - 1) < DaysInWeek THEN d + (DaysInWeek - 1)
            ELSE d + (DaysInWeek - 1) - DaysInWeek
    BY <1>0, <1>1, <1>2, DaysGoRound
  <2> QED BY <2>1, TheWeek DEF Days
<1>4. ASSUME InHours(clock)
      PROVE  StillOpen \/ OpenedToday
  <2>1. PICK e \in Days : Usable(e) /\ (clock - OpensAt(e)) % Week < LengthOf(e)
    BY <1>4 DEF InHours
  <2>2. PICK k : k = Midnights(e, openingHours[e].openTime)
    OBVIOUS
  <2>3. CASE k = 0 /\ (Overnight(e) \/ minutes < openingHours[e].closeTime)
    <3>1. e = d /\ openingHours[e].openTime <= m
      BY <1>1, <2>2, <2>3, EntryFields, SinceItOpened
    <3> QED BY <1>1, <2>1, <2>3, <3>1, EntryFields DEF OpenedToday, Minutes
  <2>4. CASE k = 1 /\ Overnight(e) /\ minutes < openingHours[e].closeTime
    <3>1. e = y
      BY <1>1, <1>3, <2>2, <2>4, TheWeek DEF Midnights, Days
    <3> QED BY <1>2, <2>1, <2>4, <3>1 DEF StillOpen
  <2> QED BY <2>1, <2>2, <2>3, <2>4, EntryIsOpen
<1>5. ASSUME OpenedToday
      PROVE  InHours(clock)
  <2>1. openingHours[d].openTime <= m
    BY <1>1, <1>5, EntryFields DEF OpenedToday, Minutes
  <2>2. Midnights(d, openingHours[d].openTime) = 0
    BY <1>1, <2>1 DEF Midnights, Days
  <2>3. Usable(d) /\ (clock - OpensAt(d)) % Week < LengthOf(d)
    BY <1>1, <1>5, <2>2, EntryIsOpen DEF OpenedToday
  <2> QED BY <2>3 DEF InHours
<1>6. ASSUME StillOpen
      PROVE  InHours(clock)
  <2>1. Usable(y) /\ Overnight(y) /\ minutes < openingHours[y].closeTime
    BY <1>2, <1>6 DEF StillOpen
  <2>2. Midnights(y, openingHours[y].openTime) \in {0, 1}
    BY <1>1, <1>3, TheWeek DEF Midnights, Days
  <2>3. (clock - OpensAt(y)) % Week < LengthOf(y)
    BY <2>1, <2>2, EntryIsOpen
  <2> QED BY <2>1, <2>3 DEF InHours
<1> QED BY <1>4, <1>5, <1>6

(* The moments at which some entry opens.                                   *)
Opens(n) == \E day \in Days : Usable(day) /\ OpensAt(day) = n % Week

(* Day i from now, at minute x.                                             *)
LEMMA ReadAhead ==
  ASSUME OpeningHoursTypeOK, NEW i \in 0 .. DaysInWeek, NEW x \in Minutes
  PROVE  LET n == (dayOfWeek + i) * DayLength + x IN
         /\ n \in Int /\ n \div DayLength = dayOfWeek + i
         /\ n % Week = DayAfter(i) * DayLength + x
         /\ Opens(n) <=> Usable(DayAfter(i)) /\ openingHours[DayAfter(i)].openTime = x
<1>1. PICK d \in Days : d = dayOfWeek
  BY ClockReads
<1>2. PICK q \in Int : q = d + i
  BY <1>1, TheWeek DEF Days
<1>3. PICK e \in Days : e = DayAfter(i)
  BY DaysGoRound
<1>4. PICK ql \in Int, el \in Int : ql = q * DayLength /\ el = e * DayLength
  BY <1>2, <1>3, TheWeek DEF Days
<1>5. (ql + x) \div DayLength = q
  BY <1>2, <1>4, TheWeek, DivisionIsUnique DEF Minutes
<1>6. PICK r \in Int : r = el + x
  BY <1>4, TheWeek DEF Minutes
<1>7. r \in 0 .. Week - 1
  <2>1. 0 <= e /\ e <= DaysInWeek - 1 /\ e \in Int /\ DaysInWeek - 1 \in Int
    BY TheWeek DEF Days
  <2>2. 0 * DayLength <= e * DayLength /\ e * DayLength <= (DaysInWeek - 1) * DayLength
    BY <2>1, TheWeek, Product
  <2>3. 0 * DayLength = 0 /\ (DaysInWeek - 1) * DayLength = Week - DayLength
    BY TheWeek, Product DEF Week
  <2> QED BY <1>4, <1>6, <2>2, <2>3, TheWeek DEF Minutes
<1>8. q = e \/ q = e + DaysInWeek
  <2>1. e = IF d + i < DaysInWeek THEN d + i ELSE d + i - DaysInWeek
    BY <1>1, <1>3, DaysGoRound
  <2> QED BY <1>2, <2>1, TheWeek DEF Days
<1>9. (ql + x) % Week = r
  <2>1. CASE q = e
    <3>1. ql + x = r
      BY <1>4, <1>6, <2>1
    <3> QED BY <1>7, <3>1, TheWeek, WeeksGoRound
  <2>2. CASE q = e + DaysInWeek
    <3>1. (e + DaysInWeek) * DayLength = e * DayLength + DaysInWeek * DayLength
      BY <1>3, TheWeek, Product DEF Days
    <3>2. ql + x = r + Week
      BY <1>4, <1>6, <2>2, <3>1, TheWeek DEF Week, Minutes
    <3> QED BY <1>7, <3>2, TheWeek, WeeksGoRound
  <2> QED BY <1>8, <2>1, <2>2
<1>10. Opens(ql + x) <=> Usable(e) /\ openingHours[e].openTime = x
  <2>1. ASSUME Usable(e), openingHours[e].openTime = x
        PROVE  Opens(ql + x)
    BY <1>4, <1>6, <1>9, <2>1 DEF Opens, OpensAt
  <2>2. ASSUME NEW day \in Days, Usable(day), OpensAt(day) = r
        PROVE  day = e /\ openingHours[e].openTime = x
    <3>1. PICK o \in Minutes : o = openingHours[day].openTime
      BY EntryFields
    <3>2. day * DayLength + o = r /\ e * DayLength + x = r
      BY <1>4, <1>6, <2>2, <3>1 DEF OpensAt
    <3>3. /\ (day * DayLength + o) \div DayLength = day /\ (day * DayLength + o) % DayLength = o
          /\ (e * DayLength + x) \div DayLength = e /\ (e * DayLength + x) % DayLength = x
      BY TheWeek, DivisionIsUnique DEF Days, Minutes
    <3> QED BY <3>1, <3>2, <3>3
  <2> QED BY <1>9, <2>1, <2>2 DEF Opens
<1>11. ql = (dayOfWeek + i) * DayLength /\ ql + x \in Int
  BY <1>1, <1>2, <1>4, TheWeek DEF Minutes
<1> QED BY <1>1, <1>2, <1>3, <1>4, <1>5, <1>6, <1>9, <1>10, <1>11

(* Every moment of the coming week is one of those.                         *)
LEMMA LookAhead ==
  ASSUME OpeningHoursTypeOK, NEW n \in clock .. clock + Week
  PROVE  \E i \in 0 .. DaysInWeek, x \in Minutes :
           n = (dayOfWeek + i) * DayLength + x
<1>1. PICK d \in Days, m \in Minutes :
        d = dayOfWeek /\ m = minutes /\ clock = d * DayLength + m
  BY ClockReads
<1>2. PICK dl \in Int : dl = d * DayLength
  BY TheWeek DEF Days
<1>3. n \in Int /\ dl <= n /\ n < dl + DayLength + Week
  BY <1>1, <1>2, TheWeek DEF Minutes
<1>4. PICK q \in Int, x \in Minutes : n = q * DayLength + x
  <2>1. /\ n \div DayLength \in Int /\ n % DayLength \in 0 .. DayLength - 1
        /\ n = (n \div DayLength) * DayLength + (n % DayLength)
    BY <1>3, TheWeek, Division
  <2> QED BY <2>1 DEF Minutes
<1>5. PICK ql \in Int : ql = q * DayLength
  BY <1>4, TheWeek
<1>6. d \in Int /\ DaysInWeek \in Int
  BY TheWeek DEF Days
<1>7. ~ q + 1 <= d
  <2>1. q + 1 <= d => (q + 1) * DayLength <= dl
    BY <1>2, <1>6, TheWeek, Product
  <2>2. (q + 1) * DayLength = ql + DayLength
    BY <1>5, TheWeek, Product
  <2> QED BY <1>3, <1>4, <1>5, <2>1, <2>2, TheWeek DEF Minutes
<1>8. ~ d + DaysInWeek + 1 <= q
  <2>1. d + DaysInWeek + 1 <= q => (d + DaysInWeek + 1) * DayLength <= ql
    BY <1>5, <1>6, TheWeek, Product
  <2>2. (d + DaysInWeek + 1) * DayLength = (d + DaysInWeek) * DayLength + DayLength
    BY <1>6, TheWeek, Product
  <2>3. (d + DaysInWeek) * DayLength = dl + Week
    BY <1>2, <1>6, TheWeek, Product DEF Week
  <2> QED BY <1>3, <1>4, <1>5, <2>1, <2>2, <2>3, TheWeek DEF Minutes
<1>9. q - d \in 0 .. DaysInWeek /\ d + (q - d) = q
  BY <1>4, <1>6, <1>7, <1>8, TheWeek
<1> QED BY <1>1, <1>4, <1>9

(* A moment of the coming week before which nothing opens is the next one.  *)
LEMMA NextOpens ==
  ASSUME NEW t \in clock + 1 .. clock + Week, clock \in Int, Opens(t),
         \A n \in clock + 1 .. t - 1 : ~ Opens(n)
  PROVE  NextOpening = t
<1> DEFINE First(u) == Opens(u) /\ \A n \in clock + 1 .. u - 1 : ~ Opens(n)
<1>1. First(t)
  OBVIOUS
<1>2. ASSUME NEW u \in clock + 1 .. clock + Week, First(u)
      PROVE  u = t
  <2>1. u \in Int /\ t \in Int
    BY TheWeek
  <2>2. ~ u < t /\ ~ t < u
    BY <1>2, <2>1
  <2> QED BY <2>1, <2>2
<1>3. NextOpening = CHOOSE u \in clock + 1 .. clock + Week : First(u)
  BY DEF NextOpening, Opens
<1> HIDE DEF First
<1> QED BY <1>1, <1>2, <1>3

(* Some day of the coming week has hours, if any day has.                   *)
LEMMA SomeDayIsNext ==
  ASSUME OpeningHoursTypeOK, \E day \in Days : Usable(day)
  PROVE  NextDays # {} /\ NextDays \subseteq Nat
<1>1. PICK d \in Days : d = dayOfWeek
  BY ClockReads
<1>2. PICK k \in Days : Usable(k)
  OBVIOUS
<1>3. PICK i \in 1 .. DaysInWeek : i = IF d < k THEN k - d ELSE k - d + DaysInWeek
  <2>1. (IF d < k THEN k - d ELSE k - d + DaysInWeek) \in 1 .. DaysInWeek
    BY TheWeek DEF Days
  <2> QED BY <2>1
<1>4. i \in 0 .. DaysInWeek
  BY TheWeek
<1>5. DayAfter(i) = IF d + i < DaysInWeek THEN d + i ELSE d + i - DaysInWeek
  BY <1>1, <1>4, DaysGoRound
<1>6. DayAfter(i) = k
  BY <1>3, <1>5, TheWeek DEF Days
<1> QED BY <1>2, <1>6 DEF NextDays

(* The page's next day is the schedule's.                                   *)
LEMMA OpensOnTheDay ==
  ASSUME OpeningHoursTypeOK, \E day \in Days : Usable(day), ~ (StillOpen \/ OpenedToday)
  PROVE  NextOpening \div DayLength = dayOfWeek + getOpenStatus.in
<1>1. PICK d \in Days, m \in Minutes :
        d = dayOfWeek /\ m = minutes /\ clock = d * DayLength + m
  BY ClockReads
<1>2. PICK dl \in Int : dl = d * DayLength
  BY TheWeek DEF Days
<1>3. clock \in Int /\ clock = dl + m /\ d \in Int
  BY <1>1, <1>2, TheWeek DEF Minutes, Days
<1>4. /\ 0 \in 0 .. DaysInWeek /\ (d + 0) * DayLength = dl
      /\ DayAfter(0) = d
  <2>1. d + 0 = d /\ 0 \in 0 .. DaysInWeek /\ d < DaysInWeek
    BY <1>3, TheWeek DEF Days
  <2> QED BY <1>1, <1>2, <2>1, DaysGoRound
<1>5. CASE Usable(dayOfWeek) /\ minutes < openingHours[dayOfWeek].openTime
  <2>1. PICK o \in Minutes : o = openingHours[d].openTime
    BY EntryFields
  <2>2. getOpenStatus.in = 0
    BY <1>5 DEF getOpenStatus
  <2>3. PICK t : t = dl + o
    OBVIOUS
  <2>4. /\ t \in Int /\ t \div DayLength = d + 0
        /\ Opens(t) <=> Usable(DayAfter(0)) /\ openingHours[DayAfter(0)].openTime = o
    BY <1>1, <1>4, <2>3, ReadAhead
  <2>5. t \in clock + 1 .. clock + Week
    <3>1. DayLength <= Week
      <4>1. 1 * DayLength <= DaysInWeek * DayLength /\ 1 * DayLength = DayLength
        BY TheWeek, Product
      <4> QED BY <4>1 DEF Week
    <3> QED BY <1>1, <1>3, <1>5, <2>1, <2>3, <2>4, <3>1, TheWeek DEF Minutes
  <2>6. ASSUME NEW n \in clock + 1 .. t - 1, Opens(n)
        PROVE  FALSE
    <3>1. n \in clock .. clock + Week /\ n \in Int /\ clock < n /\ n < t
      BY <1>3, <2>4, <2>5, TheWeek
    <3>2. PICK i \in 0 .. DaysInWeek, x \in Minutes : n = (dayOfWeek + i) * DayLength + x
      BY <3>1, LookAhead
    <3>3. ~ 1 <= i
      <4>1. 1 <= i => (d + 1) * DayLength <= (d + i) * DayLength
        BY <1>3, TheWeek, Product
      <4>2. (d + 1) * DayLength = dl + DayLength /\ (d + i) * DayLength \in Int
        BY <1>2, <1>3, TheWeek, Product
      <4> QED BY <1>1, <2>1, <2>3, <3>1, <3>2, <4>1, <4>2, TheWeek DEF Minutes
    <3>4. i = 0
      BY <3>3, TheWeek
    <3>5. openingHours[DayAfter(i)].openTime = x
      BY <2>6, <3>2, ReadAhead
    <3> QED BY <1>1, <1>4, <2>1, <2>3, <3>1, <3>2, <3>4, <3>5 DEF Minutes
  <2>7. Opens(t)
    BY <1>1, <1>4, <1>5, <2>1, <2>4
  <2>8. NextOpening = t
    BY <1>3, <2>5, <2>6, <2>7, NextOpens
  <2> QED BY <1>1, <2>2, <2>4, <2>8
<1>6. CASE ~ (Usable(dayOfWeek) /\ minutes < openingHours[dayOfWeek].openTime)
  <2>1. PICK i \in NextDays : \A j \in NextDays : i <= j
    BY Least, SomeDayIsNext
  <2>2. getOpenStatus.in = i
    <3>1. (CHOOSE n \in NextDays : \A j \in NextDays : n <= j) = i
      <4>1. \A j \in NextDays : (\A l \in NextDays : j <= l) => j = i
        BY <2>1, SomeDayIsNext
      <4> QED BY <2>1, <4>1
    <3> QED BY <1>6, <3>1 DEF getOpenStatus
  <2>3. i \in 1 .. DaysInWeek /\ Usable(DayAfter(i)) /\ i \in 0 .. DaysInWeek
    BY <2>1, TheWeek DEF NextDays
  <2>4. PICK e \in Days : e = DayAfter(i)
    BY <2>3, DaysGoRound
  <2>5. PICK o \in Minutes : o = openingHours[e].openTime
    BY EntryFields
  <2>6. PICK il \in Int : il = (d + i) * DayLength
    BY <1>3, <2>3, TheWeek
  <2>7. PICK t : t = il + o
    OBVIOUS
  <2>8. t \in Int /\ t \div DayLength = d + i /\ Opens(t)
    BY <1>1, <2>3, <2>4, <2>5, <2>6, <2>7, ReadAhead
  <2>9. clock < t
    <3>1. (d + 1) * DayLength <= (d + i) * DayLength
      BY <1>3, <2>3, TheWeek, Product
    <3>2. (d + 1) * DayLength = dl + DayLength
      BY <1>2, <1>3, TheWeek, Product
    <3> QED BY <1>3, <2>6, <2>7, <3>1, <3>2, TheWeek DEF Minutes
  <2>10. t <= clock + Week
    <3>1. (d + DaysInWeek) * DayLength = dl + Week
      BY <1>2, <1>3, TheWeek, Product DEF Week
    <3>2. CASE i = DaysInWeek
      <4>1. e = d
        <5>1. e = IF d + i < DaysInWeek THEN d + i ELSE d + i - DaysInWeek
          BY <1>1, <2>3, <2>4, DaysGoRound
        <5> QED BY <3>2, <5>1, TheWeek DEF Days
      <4>2. o <= m
        BY <1>1, <1>6, <2>3, <2>4, <2>5, <4>1 DEF Minutes
      <4> QED BY <1>3, <2>6, <2>7, <3>1, <3>2, <4>2, TheWeek DEF Minutes
    <3>3. CASE i < DaysInWeek
      <4>1. (d + i + 1) * DayLength <= (d + DaysInWeek) * DayLength
        BY <1>3, <2>3, <3>3, TheWeek, Product
      <4>2. (d + i + 1) * DayLength = il + DayLength
        BY <1>3, <2>3, <2>6, TheWeek, Product
      <4> QED BY <1>3, <2>7, <3>1, <4>1, <4>2, TheWeek DEF Minutes
    <3> QED BY <2>3, <3>2, <3>3, TheWeek
  <2>11. ASSUME NEW n \in clock + 1 .. t - 1, Opens(n)
         PROVE  FALSE
    <3>1. n \in clock .. clock + Week /\ n \in Int /\ clock < n /\ n < t
      BY <1>3, <2>8, <2>10, TheWeek
    <3>2. PICK j \in 0 .. DaysInWeek, x \in Minutes : n = (dayOfWeek + j) * DayLength + x
      BY <3>1, LookAhead
    <3>3. Usable(DayAfter(j)) /\ openingHours[DayAfter(j)].openTime = x
      BY <2>11, <3>2, ReadAhead
    <3>4. CASE j = 0
      <4>1. x <= m
        BY <1>1, <1>4, <1>6, <3>3, <3>4 DEF Minutes
      <4> QED BY <1>1, <1>3, <1>4, <3>1, <3>2, <3>4, <4>1 DEF Minutes
    <3>5. CASE 1 <= j
      <4>1. j \in NextDays
        BY <3>3, <3>5, TheWeek DEF NextDays
      <4>2. i <= j
        BY <2>1, <4>1
      <4>3. CASE j = i
        BY <1>1, <2>4, <2>5, <2>6, <2>7, <3>1, <3>2, <3>3, <4>3
      <4>4. CASE i + 1 <= j
        <5>1. (d + i + 1) * DayLength <= (d + j) * DayLength
          BY <1>3, <2>3, <4>4, TheWeek, Product
        <5>2. (d + i + 1) * DayLength = il + DayLength
          BY <1>3, <2>3, <2>6, TheWeek, Product
        <5>3. (d + j) * DayLength \in Int
          BY <1>3, TheWeek
        <5> QED BY <1>1, <2>7, <3>1, <3>2, <5>1, <5>2, <5>3, TheWeek DEF Minutes
      <4> QED BY <2>3, <4>2, <4>3, <4>4, TheWeek
    <3> QED BY <3>4, <3>5, TheWeek
  <2>12. NextOpening = t
    <3>1. t \in clock + 1 .. clock + Week
      BY <1>3, <2>8, <2>9, <2>10, TheWeek
    <3> QED BY <1>3, <2>8, <2>11, <3>1, NextOpens
  <2> QED BY <1>1, <2>2, <2>8, <2>12
<1> QED BY <1>5, <1>6

(* The schedule keeps its shape and the clock stays within the week.        *)
THEOREM OpeningHoursTyped == OpeningHoursSpec => []OpeningHoursTypeOK
<1>1. OpeningHoursInit => OpeningHoursTypeOK
  BY TheWeek DEF OpeningHoursInit, OpeningHoursTypeOK
<1>2. OpeningHoursTypeOK /\ [OpeningHoursNext]_hoursVars => OpeningHoursTypeOK'
  <2> SUFFICES ASSUME OpeningHoursTypeOK, [OpeningHoursNext]_hoursVars
               PROVE  OpeningHoursTypeOK'
    OBVIOUS
  <2>1. CASE toggleOpen
    BY <2>1 DEF toggleOpen, OpeningHoursTypeOK, Entry
  <2>2. CASE TickClock
    <3>1. clock + 1 \in Int
      BY TheWeek DEF OpeningHoursTypeOK
    <3>2. (clock + 1) % Week \in 0 .. Week - 1
      BY <3>1, TheWeek, Division
    <3> QED BY <2>2, <3>2 DEF TickClock, OpeningHoursTypeOK
  <2>3. CASE UNCHANGED hoursVars
    BY <2>3 DEF hoursVars, OpeningHoursTypeOK
  <2> QED BY <2>1, <2>2, <2>3 DEF OpeningHoursNext
<1> QED BY <1>1, <1>2, PTL DEF OpeningHoursSpec

(* A shop is shown as open exactly in the hours of its schedule, and one    *)
(* that is shown as closed opens on the day the page names, and not before. *)
THEOREM HoursAreShownRight == OpeningHoursSpec => []HoursShownAreTheShops
<1>1. OpeningHoursTypeOK => HoursShownAreTheShops
  <2> SUFFICES ASSUME OpeningHoursTypeOK
               PROVE  HoursShownAreTheShops
    OBVIOUS
  <2>1. CASE \A day \in Days : ~ Usable(day)
    <3>1. getOpenStatus.kind = "unknown"
      BY <2>1 DEF getOpenStatus
    <3>2. isOpenNow = isOpen
      BY <3>1 DEF isOpenNow, OpeningHoursTypeOK
    <3> QED BY <2>1, <3>2 DEF HoursShownAreTheShops
  <2>2. CASE \E day \in Days : Usable(day)
    <3>1. getOpenStatus.kind \in {"open", "unknown"} <=> StillOpen \/ OpenedToday
      <4>1. StillOpen \/ OpenedToday => getOpenStatus.kind = "open"
        BY <2>2 DEF getOpenStatus
      <4>2. ~ (StillOpen \/ OpenedToday) =>
              getOpenStatus.kind \in {"opensLaterToday", "closedUntilTomorrow", "closedUntilDay"}
        BY <2>2 DEF getOpenStatus
      <4> QED BY <4>1, <4>2
    <3>2. isOpenNow <=> isOpen /\ InHours(clock)
      BY <3>1, OpenIsInHours DEF isOpenNow
    <3>3. ~ InHours(clock) => NextOpening \div DayLength = dayOfWeek + getOpenStatus.in
      BY <2>2, OpenIsInHours, OpensOnTheDay
    <3> QED BY <2>2, <3>2, <3>3 DEF HoursShownAreTheShops
  <2> QED BY <2>1, <2>2
<1> QED BY <1>1, OpeningHoursTyped, PTL
=================================================================================
