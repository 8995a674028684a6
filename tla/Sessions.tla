------------------------------- MODULE Sessions -------------------------------
(***************************************************************************)
(* Accounts and sessions: backend/src/auth/auth.service.ts, the refresh    *)
(* cookie of auth.controller.ts, suspension in users.service.ts, and the   *)
(* lock the frontend holds around a refresh (lib/redux/api.ts).            *)
(*                                                                         *)
(* A session is a refresh token: a document the server keeps, and a cookie *)
(* the browser keeps.  Refreshing replaces it by a new one, and a token    *)
(* that was replaced must not be shown again: that is taken for theft, and *)
(* ends every session of the user.  Access tokens are left out, they are   *)
(* never looked up.  A call is a request being answered; `at' is what the  *)
(* handler does next.  The ways to sign in differ in what they ask for and *)
(* not in what they do, so the credential is left out too.                 *)
(***************************************************************************)
EXTENDS Integers

CONSTANTS
  Users, Browsers,
  Tabs, BrowserOf,     \* a tab has its own lock, a browser its own cookie
  Tokens,              \* bound: refresh tokens the server issues
  Calls,               \* bound: requests being answered at a time
  MaxEpoch,            \* bound: password changes and suspensions of a user
  MaxLost,             \* bound: calls that are cut off
  NoUser, NoTab, NoToken

ASSUME SessionsAssumption ==
  /\ BrowserOf \in [Tabs -> Browsers]
  /\ MaxEpoch \in Nat /\ MaxLost \in Nat
  /\ NoUser \notin Users /\ NoTab \notin Tabs /\ NoToken \notin Tokens

VARIABLES
  account,        \* of each user: none, active or suspended
  resetLinks,     \* users holding a link made for the password they have now
  token,          \* of each token: none, live, revoked or expired
  holder,         \* whose token it is
  cookie,         \* what each browser would show
  call,
  (* history *)
  epoch,          \* how often everything of a user's was to be revoked
  issuedIn,       \* the epoch in which the user of a token proved who he is
  late,           \* tokens issued by a call that a revocation overtook
  provoked,       \* users who were signed out on purpose, or whose call was lost
  cutOff,         \* users with a revocation that was cut off
  lost

tokenVars   == <<token, holder, issuedIn, late>>
historyVars == <<epoch, provoked, cutOff, lost>>
sessionVars == <<account, resetLinks, cookie, call, tokenVars, historyVars>>

NoCall == [at |-> "idle", user |-> NoUser, tab |-> NoTab, old |-> NoToken,
           new |-> NoToken, epoch |-> 0, overtaken |-> FALSE]

CallType ==
  [at : {"idle", "createUser", "readUser", "issue", "rotate", "reuse", "signedIn",
         "signedOut", "savePassword", "saveSuspended", "saveActive", "revoke"},
   user : Users \cup {NoUser},
   tab  : Tabs \cup {NoTab},
   old  : Tokens \cup {NoToken},    \* the token a refresh came with
   new  : Tokens \cup {NoToken},    \* the token the call issued
   epoch : 0..MaxEpoch,
   overtaken : BOOLEAN]             \* a revocation has run since it looked

SessionsTypeOK ==
  /\ account \in [Users -> {"none", "active", "suspended"}]
  /\ resetLinks \in SUBSET Users
  /\ token \in [Tokens -> {"none", "live", "revoked", "expired"}]
  /\ holder \in [Tokens -> Users \cup {NoUser}]
  /\ cookie \in [Browsers -> Tokens \cup {NoToken}]
  /\ call \in [Calls -> CallType]
  /\ epoch \in [Users -> 0..MaxEpoch]
  /\ issuedIn \in [Tokens -> 0..MaxEpoch]
  /\ late \in SUBSET Tokens
  /\ provoked \in SUBSET Users
  /\ cutOff \in SUBSET Users
  /\ lost \in 0..MaxLost

SessionsInit ==
  /\ account = [u \in Users |-> "none"]
  /\ resetLinks = {}
  /\ token = [k \in Tokens |-> "none"]
  /\ holder = [k \in Tokens |-> NoUser]
  /\ cookie = [b \in Browsers |-> NoToken]
  /\ call = [c \in Calls |-> NoCall]
  /\ epoch = [u \in Users |-> 0]
  /\ issuedIn = [k \in Tokens |-> 0]
  /\ late = {} /\ provoked = {} /\ cutOff = {}
  /\ lost = 0

-----------------------------------------------------------------------------
(* Calls *)

Take(c, r)   == call[c].at = "idle" /\ call' = [call EXCEPT ![c] = r]
Step(c, at)  == call' = [call EXCEPT ![c].at = at]
Answer(c)    == call' = [call EXCEPT ![c] = NoCall]
From(u, t, at) == [at |-> at, user |-> u, tab |-> t, old |-> NoToken, new |-> NoToken,
                   epoch |-> epoch[u], overtaken |-> FALSE]
By(u, at)    == From(u, NoTab, at)

(* Mutant: nobody takes the lock before refreshing. *)
NoLock(t) == FALSE

(* The tab's lock is held while a refresh of its own is under way. *)
Locked(t) == \E c \in Calls : call[c].tab = t /\ call[c].old # NoToken

-----------------------------------------------------------------------------
(* Signing in *)

register(c, t, u) ==
  /\ account[u] = "none"
  /\ ~ Locked(t)
  /\ Take(c, From(u, t, "createUser"))
  /\ UNCHANGED <<account, resetLinks, cookie, tokenVars, historyVars>>

(* E-mail addresses are unique: a second registration fails here. *)
CreateUser(c) ==
  LET u == call[c].user IN
  /\ call[c].at = "createUser"
  /\ IF account[u] = "none"
       THEN account' = [account EXCEPT ![u] = "active"] /\ Step(c, "issue")
       ELSE UNCHANGED account /\ Answer(c)
  /\ UNCHANGED <<resetLinks, cookie, tokenVars, historyVars>>

(* By password, by a code sent to the phone, or through Google or Facebook. *)
login(c, t, u) ==
  /\ account[u] = "active"
  /\ ~ Locked(t)
  /\ Take(c, From(u, t, "issue"))
  /\ UNCHANGED <<account, resetLinks, cookie, tokenVars, historyVars>>

(* Also the end of a refresh: it issues the new token before it retires the *)
(* old one.                                                                 *)
issueTokens(c) ==
  /\ call[c].at = "issue"
  /\ \E k \in Tokens :
     /\ token[k] = "none"
     /\ token' = [token EXCEPT ![k] = "live"]
     /\ holder' = [holder EXCEPT ![k] = call[c].user]
     /\ issuedIn' = [issuedIn EXCEPT ![k] = call[c].epoch]
     /\ late' = IF call[c].overtaken THEN late \cup {k} ELSE late
     /\ call' = [call EXCEPT ![c].new = k,
                             ![c].at = IF call[c].old = NoToken THEN "signedIn" ELSE "rotate"]
  /\ UNCHANGED <<account, resetLinks, cookie, historyVars>>

(* The answer reaches the browser. *)
setRefreshCookie(c) ==
  /\ call[c].at = "signedIn"
  /\ cookie' = [cookie EXCEPT ![BrowserOf[call[c].tab]] = call[c].new]
  /\ Answer(c)
  /\ UNCHANGED <<account, resetLinks, tokenVars, historyVars>>

-----------------------------------------------------------------------------
(* Refreshing *)

(* The token the browser shows, unknown or expired, is refused: nothing     *)
(* changes, the cookie included.                                            *)
refresh(c, t) ==
  LET k == cookie[BrowserOf[t]]
      u == holder[k]
      r == [From(u, t, "readUser") EXCEPT !.old = k, !.epoch = issuedIn[k],
                                        !.overtaken = (k \in late)]
  IN
  /\ k # NoToken
  /\ ~ Locked(t)
  /\ \/ token[k] = "live" /\ Take(c, r)
     \/ token[k] = "revoked" /\ Take(c, [r EXCEPT !.at = "reuse"])
  /\ UNCHANGED <<account, resetLinks, cookie, tokenVars, historyVars>>

assertActive(c) ==
  /\ call[c].at = "readUser"
  /\ IF account[call[c].user] = "active" THEN Step(c, "issue") ELSE Answer(c)
  /\ UNCHANGED <<account, resetLinks, cookie, tokenVars, historyVars>>

(* An unconditional save of the document that was read. *)
Rotate(c) ==
  LET k == call[c].old IN
  /\ call[c].at = "rotate"
  /\ token' = [token EXCEPT ![k] = IF token[k] = "expired" THEN "expired" ELSE "revoked"]
  /\ Step(c, "signedIn")
  /\ UNCHANGED <<account, resetLinks, cookie, holder, issuedIn, late, historyVars>>

(* Mutant: the query compares a string with an ObjectId and matches nothing,*)
(* as UsersService.suspend once did.                                        *)
NoneMatch(u) == {}

LiveTokensOf(u) == {k \in Tokens : token[k] = "live" /\ holder[k] = u}

RevokeAll(u) ==
  token' = [k \in Tokens |-> IF k \in LiveTokensOf(u) THEN "revoked" ELSE token[k]]

(* Calls of u that go on with what they read before a revocation.           *)
Overtake(u, calls) ==
  [c \in Calls |-> IF calls[c].user = u
                     /\ calls[c].at \in {"readUser", "issue"}
                     THEN [calls[c] EXCEPT !.overtaken = TRUE]
                     ELSE calls[c]]

reuseDetected(c) ==
  /\ call[c].at = "reuse"
  /\ RevokeAll(call[c].user)
  /\ Answer(c)
  /\ UNCHANGED <<account, resetLinks, cookie, holder, issuedIn, late, historyVars>>

-----------------------------------------------------------------------------
(* Signing out *)

logout(c, t) ==
  LET k == cookie[BrowserOf[t]] IN
  /\ k # NoToken
  /\ ~ Locked(t)
  /\ token' = [token EXCEPT ![k] = IF token[k] = "live" THEN "revoked" ELSE token[k]]
  /\ provoked' = provoked \cup {holder[k]}
  /\ Take(c, From(holder[k], t, "signedOut"))
  /\ UNCHANGED <<account, resetLinks, cookie, holder, issuedIn, late, epoch, cutOff, lost>>

clearCookie(c) ==
  /\ call[c].at = "signedOut"
  /\ cookie' = [cookie EXCEPT ![BrowserOf[call[c].tab]] = NoToken]
  /\ Answer(c)
  /\ UNCHANGED <<account, resetLinks, tokenVars, historyVars>>

forgotPassword(u) ==
  /\ account[u] # "none"
  /\ resetLinks' = resetLinks \cup {u}
  /\ UNCHANGED <<account, cookie, call, tokenVars, historyVars>>

resetPassword(c, u) ==
  /\ u \in resetLinks
  /\ Take(c, By(u, "savePassword"))
  /\ UNCHANGED <<account, resetLinks, cookie, tokenVars, historyVars>>

changePassword(c, u) ==
  /\ account[u] # "none"
  /\ Take(c, By(u, "savePassword"))
  /\ UNCHANGED <<account, resetLinks, cookie, tokenVars, historyVars>>

(* From here on u's sessions are to be ended. *)
NewEpoch(u) ==
  /\ epoch[u] < MaxEpoch
  /\ epoch' = [epoch EXCEPT ![u] = @ + 1]
  /\ provoked' = provoked \cup {u}
  /\ UNCHANGED <<cutOff, lost>>

updatePasswordHash(c) ==
  LET u == call[c].user IN
  /\ call[c].at = "savePassword"
  /\ resetLinks' = resetLinks \ {u}
  /\ NewEpoch(u)
  /\ Step(c, "revoke")
  /\ UNCHANGED <<account, cookie, tokenVars>>

suspend(c, u) ==
  /\ account[u] = "active"
  /\ Take(c, By(u, "saveSuspended"))
  /\ UNCHANGED <<account, resetLinks, cookie, tokenVars, historyVars>>

SaveSuspended(c) ==
  LET u == call[c].user IN
  /\ call[c].at = "saveSuspended"
  /\ account' = [account EXCEPT ![u] = "suspended"]
  /\ NewEpoch(u)
  /\ Step(c, "revoke")
  /\ UNCHANGED <<resetLinks, cookie, tokenVars>>

reactivate(c, u) ==
  /\ account[u] = "suspended"
  /\ Take(c, By(u, "saveActive"))
  /\ UNCHANGED <<account, resetLinks, cookie, tokenVars, historyVars>>

SaveActive(c) ==
  /\ call[c].at = "saveActive"
  /\ account' = [account EXCEPT ![call[c].user] = "active"]
  /\ Answer(c)
  /\ UNCHANGED <<resetLinks, cookie, tokenVars, historyVars>>

revokeTokens(c) ==
  LET u == call[c].user IN
  /\ call[c].at = "revoke"
  /\ RevokeAll(u)
  /\ call' = Overtake(u, [call EXCEPT ![c] = NoCall])
  /\ UNCHANGED <<account, resetLinks, cookie, holder, issuedIn, late, historyVars>>

-----------------------------------------------------------------------------
(* External: the clock, and calls that come to nothing half-way *)

Expire(k) ==
  /\ token[k] \in {"live", "revoked"}
  /\ token' = [token EXCEPT ![k] = "expired"]
  /\ provoked' = provoked \cup {holder[k]}
  /\ UNCHANGED <<account, resetLinks, cookie, call, holder, issuedIn, late,
                 epoch, cutOff, lost>>

LoseCall(c) ==
  LET u == call[c].user IN
  /\ call[c].at # "idle" /\ lost < MaxLost
  /\ lost' = lost + 1
  /\ provoked' = provoked \cup {u}
  /\ cutOff' = IF call[c].at = "revoke" THEN cutOff \cup {u} ELSE cutOff
  /\ Answer(c)
  /\ UNCHANGED <<account, resetLinks, cookie, tokenVars, epoch>>

-----------------------------------------------------------------------------
SessionsNext ==
  \/ \E c \in Calls, t \in Tabs :
       \/ \E u \in Users : register(c, t, u) \/ login(c, t, u)
       \/ refresh(c, t) \/ logout(c, t)
  \/ \E c \in Calls, u \in Users :
       resetPassword(c, u) \/ changePassword(c, u) \/ suspend(c, u) \/ reactivate(c, u)
  \/ \E c \in Calls :
       \/ CreateUser(c) \/ issueTokens(c) \/ setRefreshCookie(c)
       \/ assertActive(c) \/ Rotate(c) \/ reuseDetected(c) \/ clearCookie(c)
       \/ updatePasswordHash(c) \/ SaveSuspended(c) \/ SaveActive(c) \/ revokeTokens(c)
       \/ LoseCall(c)
  \/ \E u \in Users : forgotPassword(u)
  \/ \E k \in Tokens : Expire(k)

SessionsSpec == SessionsInit /\ [][SessionsNext]_sessionVars

-----------------------------------------------------------------------------
(* Properties *)

(* Once a password change or a suspension has run to its end, no session    *)
(* from before is left (auth.service.ts:460-466, users.service.ts:253-266), *)
(* except one issued by a sign-in or a refresh that had looked at the       *)
(* account before, and was overtaken.                                       *)
LiveSessionsAreCurrent ==
  \A k \in Tokens : token[k] = "live" =>
    LET u == holder[k] IN
      \/ issuedIn[k] = epoch[u]
      \/ k \in late
      \/ u \in cutOff
      \/ \E c \in Calls : call[c].at = "revoke" /\ call[c].user = u

(* Reuse is never seen where nobody replays a token: whoever did not sign   *)
(* out, was not suspended, kept his password and got all his answers stays  *)
(* signed in, however many queries fail and ask for a refresh at once (the  *)
(* incident told in api.ts:40-48).                                          *)
NeverLoggedOutUnprovoked ==
  \A c \in Calls : call[c].at = "reuse" => call[c].user \in provoked
=============================================================================
