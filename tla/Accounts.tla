------------------------------ MODULE Accounts ------------------------------
(***************************************************************************)
(* Accounts, the ways to sign in to them and their sessions                *)
(* (auth.service.ts, social-auth.service.ts, users.service.ts).            *)
(*                                                                         *)
(* An account is named by its address.  A password is the number of times  *)
(* it has been set, 0 for none.  An identity is a provider and a person,   *)
(* who is named by the address that the provider knows.  A pair of access  *)
(* and refresh token is its position in issued, where its account is kept. *)
(*                                                                         *)
(* A request is a worker that goes from one statement to the next, each in *)
(* a transaction of its own; only unlink locks the row of its account.     *)
(***************************************************************************)
EXTENDS Naturals, Sequences

CONSTANTS
  Workers,      \* requests that the server can work on together
  Users,        \* addresses of accounts
  Staff,        \* those of the shop's staff
  Providers,    \* Google, Facebook
  Identities,   \* who may sign in there
  Callers,      \* who waits for an answer with tokens
  None,
  MaxRequests   \* bound of what may begin, at the server or on the page

ASSUME NobodyIsNone == None \notin Users \union Callers
ASSUME AddressesAreKnown == Staff \subseteq Users /\ Identities \subseteq Providers \X Users

VARIABLES
  account,      \* users: exists, password, session (the refresh token, 0 none)
  links,        \* social_accounts: <<account, identity>>
  issued,       \* the account of each pair of tokens
  revoked,      \* Redis: access tokens on the blacklist
  reset,        \* the reset link of an account: "none", "mailed", "used"
  tickets,      \* Redis: <<identity, verified>> that may register
  codes,        \* Redis: number of sign-in codes of an account
  req,          \* what each worker is doing
  answer,       \* the answer on its way to a caller: a pair, 0 for a refusal
  requests,     \* number of requests made, for the bound
  changed,      \* history: changes and resets of the password
  since,        \* history: the value of changed that the stored session rests on
  excused       \* history: a sign-in overlapped a change, or a change failed halfway

oneTime == <<reset, tickets, codes>>
sessions == <<issued, revoked, answer>>
history == <<changed, since, excused>>
serverVars == <<account, links, oneTime, sessions, req, requests, history>>

Tokens == DOMAIN issued
NoIdentity == <<None, None>>
Idle == [op |-> "idle", pc |-> "idle", user |-> None, identity |-> NoIdentity,
         verified |-> FALSE, token |-> 0, password |-> 0, since |-> 0, caller |-> None]

At(w, pc) == req[w].pc = pc
Goto(w, pc) == req' = [req EXCEPT ![w].pc = pc]
Finish(w) == req' = [req EXCEPT ![w] = Idle]

Linked(id) == \E u \in Users : <<u, id>> \in links
LinksOf(u) == {l \in links : l[1] = u}
HasAccess(u, t) == t \in Tokens /\ issued[t] = u /\ t \notin revoked

(* The row of u is locked by an unlink. *)
Locked(u) == \E w \in Workers : req[w].pc \in {"locked", "delete"} /\ req[w].user = u

-----------------------------------------------------------------------------
(* Requests begin; those that are refused at once leave no trace.          *)

Counted == requests < MaxRequests /\ requests' = requests + 1

Begin(w, r) ==
  /\ req[w] = Idle
  /\ Counted
  /\ req' = [req EXCEPT ![w] = r]
  /\ UNCHANGED <<account, links, issued, revoked, history>>

(* Only one of the requests of a caller is under way. *)
Waits(c) == c # None /\ (answer[c] # None \/ \E w \in Workers : req[w].caller = c)

BeginSignIn(w, op, pc, u, id, c) ==
  /\ ~Waits(c)
  /\ Begin(w, [Idle EXCEPT !.op = op, !.pc = pc, !.user = u, !.identity = id,
                           !.since = changed[u], !.caller = c])
  /\ UNCHANGED answer

BeginRegister(w, u, c) ==
  /\ ~account[u].exists
  /\ BeginSignIn(w, "register", "insert", u, NoIdentity, c)
  /\ UNCHANGED oneTime

(* Registration with a ticket: the address is the provider's if verified.  *)
BeginSocialRegister(w, u, id, c) ==
  /\ \E verified \in BOOLEAN :
       /\ <<id, verified>> \in tickets
       /\ verified => u = id[2]
  /\ ~Linked(id)
  /\ ~account[u].exists
  /\ BeginSignIn(w, "register", "insert", u, id, c)
  /\ UNCHANGED oneTime

(* The identity has been linked since: the ticket is dropped. *)
RefuseTicket(id) ==
  /\ Linked(id)
  /\ \E verified \in BOOLEAN :
       /\ <<id, verified>> \in tickets
       /\ tickets' = tickets \ {<<id, verified>>}
  /\ UNCHANGED <<account, links, reset, codes, sessions, req, requests, history>>

(* login: the password given is compared with the row that was read. *)
BeginLogin(w, u, c) ==
  /\ account[u].password # 0
  /\ BeginSignIn(w, "login", "issue", u, NoIdentity, c)
  /\ UNCHANGED oneTime

(* exchange: the code is taken out of Redis first. *)
BeginExchange(w, u, c) ==
  /\ codes[u] > 0
  /\ BeginSignIn(w, "exchange", "issue", u, NoIdentity, c)
  /\ codes' = [codes EXCEPT ![u] = @ - 1]
  /\ UNCHANGED <<reset, tickets>>

(* refreshTokens: the token matches the row.  It rests on what the session *)
(* it continues rests on.                                                  *)
Continues(w, u, t, c) ==
  /\ req[w] = Idle
  /\ t # 0 /\ account[u].session = t
  /\ req' = [req EXCEPT ![w] = [Idle EXCEPT !.op = "refresh", !.pc = "issue", !.user = u,
                                            !.since = since[u], !.caller = c]]

(* A refresh by another page or device that holds the session's token. *)
BeginRefresh(w, u) ==
  /\ Counted
  /\ Continues(w, u, account[u].session, None)
  /\ UNCHANGED <<account, links, oneTime, sessions, history>>

BeginSignedIn(w, op, pc, u, id) ==
  \E t \in Tokens :
    /\ HasAccess(u, t)
    /\ Begin(w, [Idle EXCEPT !.op = op, !.pc = pc, !.user = u, !.identity = id, !.token = t])
    /\ UNCHANGED <<oneTime, answer>>

BeginLogout(w, u) == BeginSignedIn(w, "logout", "blacklist", u, NoIdentity)

(* changePassword: the current password has matched the row. *)
BeginChange(w, u) ==
  /\ account[u].password # 0
  /\ BeginSignedIn(w, "change", "update", u, NoIdentity)

(* setPassword: of an account that has none *)
BeginSet(w, u) ==
  /\ account[u].password = 0
  /\ BeginSignedIn(w, "set", "update", u, NoIdentity)

(* resetPassword: the link of the mail is valid and has not been used.     *)
BeginReset(w, u) ==
  /\ reset[u] = "mailed"
  /\ Begin(w, [Idle EXCEPT !.op = "reset", !.pc = "update", !.user = u])
  /\ UNCHANGED <<oneTime, answer>>

(* startLink and its callback: the state names the account, once.          *)
BeginLink(w, u, id) ==
  /\ ~Linked(id)
  /\ BeginSignedIn(w, "link", "link", u, id)

BeginUnlink(w, u, p) ==
  BeginSignedIn(w, "unlink", "lock", u, <<p, None>>)

(* startLogin and its callback, for an identity that has an account: a     *)
(* code to exchange for tokens.                                            *)
CallbackSignsIn(u, id) ==
  /\ Counted
  /\ <<u, id>> \in links
  /\ codes' = [codes EXCEPT ![u] = @ + 1]
  /\ UNCHANGED <<account, links, reset, tickets, sessions, req, history>>

(* For the verified address of a customer: the identity is linked first.   *)
BeginCallback(w, id) ==
  LET u == id[2] IN
  /\ ~Linked(id)
  /\ account[u].exists /\ u \notin Staff
  /\ Begin(w, [Idle EXCEPT !.op = "callback", !.pc = "link", !.user = u, !.identity = id])
  /\ UNCHANGED <<oneTime, answer>>

(* For anyone else: a ticket to register with. *)
CallbackRegisters(id) ==
  /\ Counted
  /\ ~Linked(id)
  /\ \E verified \in BOOLEAN :
       /\ verified => ~account[id[2]].exists
       /\ tickets' = tickets \union {<<id, verified>>}
  /\ UNCHANGED <<account, links, reset, codes, sessions, req, history>>

(* forgotPassword: a link, the only one of the account in this model *)
ForgotPassword(u) ==
  /\ Counted
  /\ account[u].exists
  /\ reset[u] = "none"
  /\ reset' = [reset EXCEPT ![u] = "mailed"]
  /\ UNCHANGED <<account, links, tickets, codes, sessions, req, history>>

(* PATCH users/:id by an admin: a password set for someone else, whose     *)
(* session goes on.                                                        *)
AdminSetsPassword(u) ==
  /\ Counted
  /\ account[u].exists /\ ~Locked(u)
  /\ account' = [account EXCEPT ![u].password = @ + 1]
  /\ UNCHANGED <<links, oneTime, sessions, req, history>>

(* Tickets and codes expire, and so does the link of a mail. *)
ExpireOneTime ==
  /\ \/ \E t \in tickets : tickets' = tickets \ {t} /\ UNCHANGED <<reset, codes>>
     \/ \E u \in Users : codes[u] > 0 /\ codes' = [codes EXCEPT ![u] = @ - 1] /\ UNCHANGED <<reset, tickets>>
     \/ \E u \in Users : reset[u] = "mailed" /\ reset' = [reset EXCEPT ![u] = "used"] /\ UNCHANGED <<tickets, codes>>
  /\ UNCHANGED <<account, links, sessions, req, requests, history>>

-----------------------------------------------------------------------------
(* The statements of a request *)

Answered(c, t) == answer' = IF c = None THEN answer ELSE [answer EXCEPT ![c] = t]

Refuse(w) == Answered(req[w].caller, 0) /\ Finish(w)

(* createCustomerAccount: the row and its link are inserted together, or   *)
(* a unique key refuses them.                                              *)
InsertAccount(w) ==
  LET u == req[w].user
      id == req[w].identity IN
  /\ At(w, "insert")
  /\ IF account[u].exists \/ Linked(id)
       THEN Refuse(w) /\ UNCHANGED <<account, links>>
       ELSE /\ account' = [account EXCEPT ![u].exists = TRUE,
                                          ![u].password = IF id = NoIdentity THEN 1 ELSE 0]
            /\ links' = IF id = NoIdentity THEN links ELSE links \union {<<u, id>>}
            /\ Goto(w, IF id = NoIdentity THEN "issue" ELSE "drop")
            /\ UNCHANGED answer
  /\ UNCHANGED <<oneTime, issued, revoked, requests, history>>

DropTicket(w) ==
  /\ At(w, "drop")
  /\ tickets' = {t \in tickets : t[1] # req[w].identity}
  /\ Goto(w, "issue")
  /\ UNCHANGED <<account, links, reset, codes, sessions, requests, history>>

(* issueTokens: the stored hash is replaced, whatever it is by now. *)
IssueTokens(w) ==
  LET u == req[w].user
      t == Len(issued) + 1 IN
  /\ At(w, "issue")
  /\ ~Locked(u)
  /\ issued' = Append(issued, u)
  /\ account' = [account EXCEPT ![u].session = t]
  /\ since' = [since EXCEPT ![u] = req[w].since]
  /\ excused' = [excused EXCEPT ![u] = @ \/ req[w].since # changed[u]]
  /\ Answered(req[w].caller, t)
  /\ Finish(w)
  /\ UNCHANGED <<links, oneTime, revoked, requests, changed>>

(* Mutant: a reset leaves the session open. *)
KeepSession(op) == CASE op \in {"change", "reset"} -> "blacklist" [] OTHER -> "idle"

(* The order of the statements after the password is written. *)
AfterUpdate(op) == CASE op = "change" -> "blacklist" [] op = "reset" -> "revoke" [] OTHER -> "idle"
AfterBlacklist(op) == IF op = "reset" THEN "idle" ELSE "revoke"
AfterRevoke(op) == IF op = "reset" THEN "blacklist" ELSE "idle"

Proceed(w, pc) == IF pc = "idle" THEN Finish(w) ELSE Goto(w, pc)

UpdatePassword(w) ==
  LET u == req[w].user IN
  /\ At(w, "update")
  /\ ~Locked(u)
  /\ account' = [account EXCEPT ![u].password = @ + 1]
  /\ changed' = IF req[w].op = "set" THEN changed ELSE [changed EXCEPT ![u] = @ + 1]
  /\ Proceed(w, AfterUpdate(req[w].op))
  /\ UNCHANGED <<links, oneTime, sessions, requests, since, excused>>

(* blacklistTokenUntilExpiry: of the access token, or of the reset link *)
Blacklist(w) ==
  /\ At(w, "blacklist")
  /\ IF req[w].op = "reset"
       THEN reset' = [reset EXCEPT ![req[w].user] = "used"] /\ UNCHANGED revoked
       ELSE revoked' = revoked \union {req[w].token} /\ UNCHANGED reset
  /\ Proceed(w, AfterBlacklist(req[w].op))
  /\ UNCHANGED <<account, links, tickets, codes, issued, answer, requests, history>>

(* updateRefreshTokenHash(null) *)
RevokeSession(w) ==
  LET u == req[w].user IN
  /\ At(w, "revoke")
  /\ ~Locked(u)
  /\ account' = [account EXCEPT ![u].session = 0]
  /\ Proceed(w, AfterRevoke(req[w].op))
  /\ UNCHANGED <<links, oneTime, sessions, requests, history>>

(* createLink: refused by a unique key if the identity is linked or the    *)
(* account has another of this provider.  It waits for a locked account.   *)
CreateLink(w) ==
  LET u == req[w].user
      id == req[w].identity IN
  /\ At(w, "link")
  /\ ~Locked(u)
  /\ IF Linked(id) \/ \E l \in LinksOf(u) : l[2][1] = id[1]
       THEN UNCHANGED <<links, codes>>
       ELSE /\ links' = links \union {<<u, id>>}
            /\ codes' = IF req[w].op = "link" THEN codes ELSE [codes EXCEPT ![u] = @ + 1]
  /\ Finish(w)
  /\ UNCHANGED <<account, reset, tickets, sessions, requests, history>>

(* Mutant: the row is read without a lock. *)
LockNothing(w) ==
  LET u == req[w].user IN
  /\ At(w, "lock")
  /\ IF account[u].exists
       THEN req' = [req EXCEPT ![w].pc = "locked", ![w].password = account[u].password]
       ELSE Finish(w)
  /\ UNCHANGED <<account, links, oneTime, sessions, requests, history>>

(* unlink: the account's row, with its password, is locked; *)
LockAccount(w) ==
  LET u == req[w].user IN
  /\ At(w, "lock")
  /\ ~Locked(u)
  /\ IF account[u].exists
       THEN req' = [req EXCEPT ![w].pc = "locked", ![w].password = account[u].password]
       ELSE Finish(w)
  /\ UNCHANGED <<account, links, oneTime, sessions, requests, history>>

(* its links are read, *)
LinksOfProvider(u, p) == {l \in LinksOf(u) : l[2][1] = p}

CountLinks(w) ==
  LET u == req[w].user
      target == LinksOfProvider(u, req[w].identity[1]) IN
  /\ At(w, "locked")
  /\ IF target = {} \/ (req[w].password = 0 /\ LinksOf(u) = target)
       THEN Finish(w)
       ELSE Goto(w, "delete")
  /\ UNCHANGED <<account, links, oneTime, sessions, requests, history>>

(* and one is deleted, unless it was the last way to sign in. *)
DeleteLink(w) ==
  /\ At(w, "delete")
  /\ links' = links \ LinksOfProvider(req[w].user, req[w].identity[1])
  /\ Finish(w)
  /\ UNCHANGED <<account, oneTime, sessions, requests, history>>

(* An error, or a lost connection: the statements done so far stay done.    *)
Fail(w) ==
  /\ req[w] # Idle
  /\ excused' = IF req[w].op \in {"change", "reset"} /\ ~At(w, "update")
                  THEN [excused EXCEPT ![req[w].user] = TRUE] ELSE excused
  /\ Refuse(w)
  /\ UNCHANGED <<account, links, oneTime, issued, revoked, requests, changed, since>>

Statement(w) ==
  \/ InsertAccount(w) \/ DropTicket(w) \/ IssueTokens(w)
  \/ UpdatePassword(w) \/ Blacklist(w) \/ RevokeSession(w)
  \/ CreateLink(w) \/ LockAccount(w) \/ CountLinks(w) \/ DeleteLink(w)

(* Requests made to the server; c waits for the tokens of a sign-in. *)
AccountRequest(c) ==
  \/ \E w \in Workers, u \in Users :
       \/ BeginRegister(w, u, c) \/ BeginLogin(w, u, c) \/ BeginExchange(w, u, c)
       \/ \E id \in Identities : BeginSocialRegister(w, u, id, c) \/ BeginLink(w, u, id)
       \/ BeginRefresh(w, u) \/ BeginLogout(w, u)
       \/ BeginChange(w, u) \/ BeginSet(w, u) \/ BeginReset(w, u)
       \/ \E p \in Providers : BeginUnlink(w, u, p)
  \/ \E w \in Workers, id \in Identities : BeginCallback(w, id)
  \/ \E id \in Identities : CallbackRegisters(id) \/ RefuseTicket(id)
  \/ \E u \in Users : ForgotPassword(u) \/ AdminSetsPassword(u)
  \/ \E u \in Users, id \in Identities : CallbackSignsIn(u, id)
  \/ ExpireOneTime

-----------------------------------------------------------------------------
(* Unlinks of two providers sent together must not both go ahead for an     *)
(* account without a password: every account keeps a way to sign in.        *)
LastSignInStays ==
  \A u \in Users : account[u].exists => account[u].password # 0 \/ LinksOf(u) # {}

(* Once a password has been changed or reset, the session from before has   *)
(* ended, and no sign-in with the old password that came before it remains, *)
(* unless one overlapped the change or the change failed halfway.           *)
Changing(u) ==
  \E w \in Workers :
    /\ req[w].user = u /\ req[w].op \in {"change", "reset"}
    /\ req[w].pc \in {"blacklist", "revoke"}
ChangeEndsSessions ==
  \A u \in Users :
    account[u].session # 0 /\ since[u] < changed[u] => Changing(u) \/ excused[u]
=============================================================================
