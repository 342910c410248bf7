--------------------------- MODULE AccountsProofs ---------------------------
(***************************************************************************)
(* Three things that hold whatever requests run and whatever pages ask     *)
(* for.  No account loses its last way to sign in: while an unlink holds   *)
(* the row of an account, no other does, and what it has counted under the *)
(* lock remains until it deletes; every other step only adds ways to sign  *)
(* in (OnlyAdds).  A change of a password ends the sessions that rest on   *)
(* the old one (SessionInv).  A page presents no refresh token twice       *)
(* (StoreInv).                                                             *)
(***************************************************************************)
EXTENDS ClientSession, TLAPS

Fields == {"op", "pc", "user", "identity", "verified", "token", "password", "since", "caller"}

Typed ==
  /\ DOMAIN req = Workers
  /\ \A w \in Workers : DOMAIN req[w] = Fields
  /\ account \in [Users -> [exists : BOOLEAN, password : Nat, session : Nat]]

Unlinking(r) == r.pc \in {"locked", "delete"}

(* Something is left when the links of r's provider are deleted. *)
Remains(r) ==
  \/ account[r.user].password # 0
  \/ \E l \in links : l[1] = r.user /\ l[2][1] # r.identity[1]

OneUnlink ==
  \A v, w \in Workers :
    Unlinking(req[v]) /\ Unlinking(req[w]) /\ req[v].user = req[w].user => v = w

CountHolds ==
  \A w \in Workers : Unlinking(req[w]) /\ req[w].user \in Users =>
    /\ account[req[w].user].exists
    /\ req[w].password # 0 => account[req[w].user].password # 0
    /\ req[w].pc = "delete" => Remains(req[w])

IInv == Typed /\ OneUnlink /\ CountHolds /\ LastSignInStays

-----------------------------------------------------------------------------
(* A step that adds accounts, passwords and links, takes none, and begins  *)
(* no unlink.                                                              *)

SameUnlink(r, s) ==
  r.pc = s.pc /\ r.user = s.user /\ r.identity = s.identity /\ r.password = s.password

Reached == \A u \in Users :
  /\ account[u].exists => account'[u].exists
  /\ account[u].exists /\ account[u].password # 0 => account'[u].password # 0
  /\ ~account[u].exists /\ account'[u].exists =>
       account'[u].password # 0 \/ \E l \in links' : l[1] = u

OnlyAdds ==
  /\ Typed'
  /\ \A w \in Workers : Unlinking(req'[w]) => SameUnlink(req'[w], req[w])
  /\ links \subseteq links'
  /\ Reached

LEMMA OnlyAddsKeepsAll ==
  ASSUME IInv, OnlyAdds
  PROVE  IInv'
<1>1. OneUnlink'
  BY DEF IInv, OneUnlink, OnlyAdds, SameUnlink, Unlinking
<1>2. CountHolds'
  <2> SUFFICES ASSUME NEW w \in Workers, Unlinking(req'[w]), req'[w].user \in Users
               PROVE  /\ account'[req'[w].user].exists
                      /\ req'[w].password # 0 => account'[req'[w].user].password # 0
                      /\ req'[w].pc = "delete" => Remains(req[w])'
    BY DEF CountHolds, Unlinking, Remains
  <2>1. SameUnlink(req'[w], req[w])
    BY DEF OnlyAdds
  <2>2. /\ account[req[w].user].exists
        /\ req[w].password # 0 => account[req[w].user].password # 0
        /\ req[w].pc = "delete" => Remains(req[w])
    BY <2>1 DEF IInv, CountHolds, SameUnlink, Unlinking
  <2>3. Reached /\ links \subseteq links'
    BY DEF OnlyAdds
  <2> QED
    BY <2>1, <2>2, <2>3 DEF SameUnlink, Reached, Remains
<1>3. LastSignInStays'
  BY DEF IInv, OnlyAdds, Reached, LastSignInStays, LinksOf
<1> QED
  BY <1>1, <1>2, <1>3 DEF IInv, OnlyAdds

(* The two ways in which req changes in such a step. *)
LEMMA RequestEnds ==
  ASSUME Typed, NEW w \in Workers, Finish(w)
  PROVE  /\ DOMAIN req' = Workers
         /\ \A v \in Workers : DOMAIN req'[v] = Fields
         /\ \A v \in Workers : Unlinking(req'[v]) => SameUnlink(req'[v], req[v])
  BY DEF Typed, Finish, Idle, Fields, Unlinking, SameUnlink

LEMMA RequestGoesOn ==
  ASSUME Typed, NEW w \in Workers, NEW pc, pc \notin {"locked", "delete"}, Goto(w, pc)
  PROVE  /\ DOMAIN req' = Workers
         /\ \A v \in Workers : DOMAIN req'[v] = Fields
         /\ \A v \in Workers : Unlinking(req'[v]) => SameUnlink(req'[v], req[v])
  BY DEF Typed, Goto, Unlinking, SameUnlink

LEMMA RequestBegins ==
  ASSUME Typed, NEW w \in Workers, NEW r, DOMAIN r = Fields, ~Unlinking(r),
         req' = [req EXCEPT ![w] = r]
  PROVE  /\ DOMAIN req' = Workers
         /\ \A v \in Workers : DOMAIN req'[v] = Fields
         /\ \A v \in Workers : Unlinking(req'[v]) => SameUnlink(req'[v], req[v])
  BY DEF Typed, Unlinking, SameUnlink

-----------------------------------------------------------------------------
(* Requests begin *)

LEMMA RowsStay ==
  ASSUME IInv, UNCHANGED <<account, links>>,
         DOMAIN req' = Workers, \A v \in Workers : DOMAIN req'[v] = Fields,
         \A v \in Workers : Unlinking(req'[v]) => SameUnlink(req'[v], req[v])
  PROVE  OnlyAdds
  BY DEF IInv, OnlyAdds, Typed, Reached

LEMMA NothingBegins ==
  ASSUME IInv, UNCHANGED <<account, links, req>>
  PROVE  OnlyAdds
<1>1. /\ DOMAIN req' = Workers
      /\ \A v \in Workers : DOMAIN req'[v] = Fields
      /\ \A v \in Workers : Unlinking(req'[v]) => SameUnlink(req'[v], req[v])
  BY DEF IInv, Typed, SameUnlink
<1> QED BY <1>1, RowsStay

LEMMA BeginOnlyAdds ==
  ASSUME IInv, NEW w \in Workers, NEW r, DOMAIN r = Fields, ~Unlinking(r), Begin(w, r)
  PROVE  OnlyAdds
<1>1. req' = [req EXCEPT ![w] = r] /\ UNCHANGED <<account, links>>
  BY DEF Begin
<1> QED BY <1>1, RequestBegins, RowsStay DEF IInv

LEMMA SignInBegins ==
  ASSUME IInv, NEW w \in Workers, NEW op, NEW pc \in {"insert", "issue"}, NEW u, NEW id, NEW c,
         BeginSignIn(w, op, pc, u, id, c)
  PROVE  OnlyAdds
<1> DEFINE r == [Idle EXCEPT !.op = op, !.pc = pc, !.user = u, !.identity = id,
                             !.since = changed[u], !.caller = c]
<1>1. DOMAIN r = Fields /\ ~Unlinking(r)
  BY DEF Idle, Fields, Unlinking
<1>2. Begin(w, r)
  BY DEF BeginSignIn
<1> HIDE DEF r
<1> QED BY <1>1, <1>2, BeginOnlyAdds

LEMMA SignedInBegins ==
  ASSUME IInv, NEW w \in Workers, NEW op, NEW pc \in {"blacklist", "update", "link", "lock"},
         NEW u, NEW id, BeginSignedIn(w, op, pc, u, id)
  PROVE  OnlyAdds
<1> PICK t \in Tokens : Begin(w, [Idle EXCEPT !.op = op, !.pc = pc, !.user = u,
                                              !.identity = id, !.token = t])
  BY DEF BeginSignedIn
<1> DEFINE r == [Idle EXCEPT !.op = op, !.pc = pc, !.user = u, !.identity = id, !.token = t]
<1>1. DOMAIN r = Fields /\ ~Unlinking(r)
  BY DEF Idle, Fields, Unlinking
<1>2. Begin(w, r)
  OBVIOUS
<1> HIDE DEF r
<1> QED BY <1>1, <1>2, BeginOnlyAdds

LEMMA ResetBegins ==
  ASSUME IInv, NEW w \in Workers, NEW u, BeginReset(w, u)
  PROVE  OnlyAdds
<1> DEFINE r == [Idle EXCEPT !.op = "reset", !.pc = "update", !.user = u]
<1>1. DOMAIN r = Fields /\ ~Unlinking(r)
  BY DEF Idle, Fields, Unlinking
<1>2. Begin(w, r)
  BY DEF BeginReset
<1> HIDE DEF r
<1> QED BY <1>1, <1>2, BeginOnlyAdds

LEMMA CallbackBegins ==
  ASSUME IInv, NEW w \in Workers, NEW id, BeginCallback(w, id)
  PROVE  OnlyAdds
<1> DEFINE r == [Idle EXCEPT !.op = "callback", !.pc = "link", !.user = id[2], !.identity = id]
<1>1. DOMAIN r = Fields /\ ~Unlinking(r)
  BY DEF Idle, Fields, Unlinking
<1>2. Begin(w, r)
  BY DEF BeginCallback
<1> HIDE DEF r
<1> QED BY <1>1, <1>2, BeginOnlyAdds

LEMMA RefreshBegins ==
  ASSUME IInv, NEW w \in Workers, NEW u, NEW t, NEW c, Continues(w, u, t, c),
         UNCHANGED <<account, links>>
  PROVE  OnlyAdds
<1> DEFINE r == [Idle EXCEPT !.op = "refresh", !.pc = "issue", !.user = u,
                             !.since = since[u], !.caller = c]
<1>1. DOMAIN r = Fields /\ ~Unlinking(r)
  BY DEF Idle, Fields, Unlinking
<1>2. req' = [req EXCEPT ![w] = r]
  BY DEF Continues
<1> HIDE DEF r
<1> QED BY <1>1, <1>2, RequestBegins, RowsStay DEF IInv

(* An admin sets a password: one more way to sign in. *)
LEMMA AdminOnlyAdds ==
  ASSUME IInv, NEW u \in Users, AdminSetsPassword(u)
  PROVE  OnlyAdds
<1>1. \A v \in Workers : SameUnlink(req'[v], req[v])
  BY DEF AdminSetsPassword, SameUnlink
<1>2. account' = [account EXCEPT ![u].password = account[u].password + 1]
  BY DEF AdminSetsPassword
<1> QED
  BY <1>1, <1>2 DEF AdminSetsPassword, IInv, OnlyAdds, Typed, Reached

LEMMA AccountRequestOnlyAdds ==
  ASSUME IInv, NEW c, AccountRequest(c)
  PROVE  OnlyAdds
<1>1. ASSUME NEW w \in Workers, NEW u \in Users,
             \/ BeginRegister(w, u, c) \/ BeginLogin(w, u, c) \/ BeginExchange(w, u, c)
             \/ \E id \in Identities : BeginSocialRegister(w, u, id, c)
      PROVE  OnlyAdds
  BY <1>1, SignInBegins DEF BeginRegister, BeginLogin, BeginExchange, BeginSocialRegister
<1>2. ASSUME NEW w \in Workers, NEW u \in Users,
             \/ \E id \in Identities : BeginLink(w, u, id)
             \/ BeginLogout(w, u) \/ BeginChange(w, u) \/ BeginSet(w, u)
             \/ \E p \in Providers : BeginUnlink(w, u, p)
      PROVE  OnlyAdds
  BY <1>2, SignedInBegins DEF BeginLink, BeginLogout, BeginChange, BeginSet, BeginUnlink
<1>3. ASSUME NEW w \in Workers, NEW u \in Users, BeginRefresh(w, u)
      PROVE  OnlyAdds
  BY <1>3, RefreshBegins DEF BeginRefresh
<1>4. ASSUME NEW w \in Workers, NEW u \in Users, BeginReset(w, u)
      PROVE  OnlyAdds
  BY <1>4, ResetBegins
<1>5. ASSUME NEW w \in Workers, NEW id \in Identities, BeginCallback(w, id)
      PROVE  OnlyAdds
  BY <1>5, CallbackBegins
<1>6. ASSUME NEW u \in Users, AdminSetsPassword(u)
      PROVE  OnlyAdds
  BY <1>6, AdminOnlyAdds
<1>7. ASSUME \/ \E id \in Identities : CallbackRegisters(id) \/ RefuseTicket(id)
             \/ \E u \in Users : ForgotPassword(u)
             \/ \E u \in Users, id \in Identities : CallbackSignsIn(u, id)
             \/ ExpireOneTime
      PROVE  OnlyAdds
  BY <1>7, NothingBegins
  DEF CallbackRegisters, RefuseTicket, ForgotPassword, CallbackSignsIn, ExpireOneTime
<1> QED
  BY <1>1, <1>2, <1>3, <1>4, <1>5, <1>6, <1>7 DEF AccountRequest

-----------------------------------------------------------------------------
(* Statements that only add *)

LEMMA InsertOnlyAdds ==
  ASSUME IInv, NEW w \in Workers, InsertAccount(w)
  PROVE  OnlyAdds
<1> DEFINE u == req[w].user
           id == req[w].identity
<1>1. CASE account[u].exists \/ Linked(id)
  <2>1. Finish(w) /\ UNCHANGED <<account, links>>
    BY <1>1 DEF InsertAccount, Refuse
  <2> QED BY <2>1, RequestEnds, RowsStay DEF IInv
<1>2. CASE ~(account[u].exists \/ Linked(id))
  <2>1. /\ account' = [account EXCEPT ![u].exists = TRUE,
                                      ![u].password = IF id = NoIdentity THEN 1 ELSE 0]
        /\ links' = IF id = NoIdentity THEN links ELSE links \union {<<u, id>>}
        /\ Goto(w, IF id = NoIdentity THEN "issue" ELSE "drop")
    BY <1>2 DEF InsertAccount
  <2>2. /\ DOMAIN req' = Workers
        /\ \A v \in Workers : DOMAIN req'[v] = Fields
        /\ \A v \in Workers : Unlinking(req'[v]) => SameUnlink(req'[v], req[v])
    BY <2>1, RequestGoesOn DEF IInv
  <2> DEFINE row == [account[u] EXCEPT !.exists = TRUE,
                                       !.password = IF id = NoIdentity THEN 1 ELSE 0]
  <2>3. account' = [account EXCEPT ![u] = row]
    BY <2>1
  <2>4. ASSUME u \in Users
        PROVE  /\ row \in [exists : BOOLEAN, password : Nat, session : Nat]
               /\ row.password = IF id = NoIdentity THEN 1 ELSE 0
    BY <2>4 DEF IInv, Typed
  <2>5. /\ account' \in [Users -> [exists : BOOLEAN, password : Nat, session : Nat]]
        /\ \A x \in Users : account'[x] = IF x = u THEN row ELSE account[x]
    <3> HIDE DEF row
    <3> QED BY <2>3, <2>4 DEF IInv, Typed
  <2>6. Typed'
    BY <2>2, <2>5 DEF Typed
  <2>7. ASSUME u \in Users
        PROVE  account'[u].password # 0 \/ \E l \in links' : l[1] = u
    <3>1. CASE id = NoIdentity
      <4>1. row.password = 1
        BY <3>1, <2>4, <2>7
      <4> HIDE DEF row
      <4> QED BY <4>1, <2>5, <2>7
    <3>2. CASE id # NoIdentity
      <4>1. <<u, id>> \in links'
        BY <3>2, <2>1
      <4> QED BY <4>1
    <3> QED BY <3>1, <3>2
  <2>8. Reached
    <3> HIDE DEF row
    <3> QED BY <1>2, <2>5, <2>7 DEF Reached
  <2> QED BY <2>1, <2>2, <2>6, <2>8 DEF OnlyAdds
<1> QED BY <1>1, <1>2

LEMMA IssueOnlyAdds ==
  ASSUME IInv, NEW w \in Workers, IssueTokens(w)
  PROVE  OnlyAdds
<1> DEFINE t == Len(issued) + 1
<1>1. account' = [account EXCEPT ![req[w].user].session = t] /\ UNCHANGED links /\ Finish(w)
  BY DEF IssueTokens
<1>2. t \in Nat
  BY DEF IssueTokens
<1> QED
  BY <1>1, <1>2, RequestEnds DEF IInv, OnlyAdds, Typed, Reached

(* After a password or a session is written, no unlink follows. *)
LEMMA OrdersAreHarmless ==
  ASSUME NEW op
  PROVE  /\ AfterUpdate(op) \notin {"locked", "delete"}
         /\ AfterBlacklist(op) \notin {"locked", "delete"}
         /\ AfterRevoke(op) \notin {"locked", "delete"}
  BY DEF AfterUpdate, AfterBlacklist, AfterRevoke

LEMMA RequestProceeds ==
  ASSUME Typed, NEW w \in Workers, NEW pc, pc \notin {"locked", "delete"}, Proceed(w, pc)
  PROVE  /\ DOMAIN req' = Workers
         /\ \A v \in Workers : DOMAIN req'[v] = Fields
         /\ \A v \in Workers : Unlinking(req'[v]) => SameUnlink(req'[v], req[v])
  BY RequestEnds, RequestGoesOn DEF Proceed

LEMMA UpdateOnlyAdds ==
  ASSUME IInv, NEW w \in Workers, UpdatePassword(w)
  PROVE  OnlyAdds
<1> DEFINE u == req[w].user
<1>1. /\ account' = [account EXCEPT ![u].password = account[u].password + 1]
      /\ UNCHANGED links
      /\ Proceed(w, AfterUpdate(req[w].op))
  BY DEF UpdatePassword
<1>2. /\ DOMAIN req' = Workers
      /\ \A v \in Workers : DOMAIN req'[v] = Fields
      /\ \A v \in Workers : Unlinking(req'[v]) => SameUnlink(req'[v], req[v])
  BY <1>1, RequestProceeds, OrdersAreHarmless DEF IInv
<1>3. /\ account' \in [Users -> [exists : BOOLEAN, password : Nat, session : Nat]]
      /\ \A x \in Users : /\ account'[x].exists = account[x].exists
                          /\ account[x].password # 0 => account'[x].password # 0
  <2> DEFINE row == [account[u] EXCEPT !.password = account[u].password + 1]
  <2>1. account' = [account EXCEPT ![u] = row]
    BY <1>1
  <2>2. ASSUME u \in Users
        PROVE  /\ row \in [exists : BOOLEAN, password : Nat, session : Nat]
               /\ row.exists = account[u].exists /\ row.password # 0
    BY <2>2 DEF IInv, Typed
  <2> HIDE DEF row
  <2> QED BY <2>1, <2>2 DEF IInv, Typed
<1> QED
  BY <1>1, <1>2, <1>3 DEF OnlyAdds, Typed, Reached

LEMMA BlacklistOnlyAdds ==
  ASSUME IInv, NEW w \in Workers, Blacklist(w)
  PROVE  OnlyAdds
<1>1. UNCHANGED <<account, links>> /\ Proceed(w, AfterBlacklist(req[w].op))
  BY DEF Blacklist
<1> QED BY <1>1, RequestProceeds, OrdersAreHarmless, RowsStay DEF IInv

LEMMA RevokeOnlyAdds ==
  ASSUME IInv, NEW w \in Workers, RevokeSession(w)
  PROVE  OnlyAdds
<1>1. /\ account' = [account EXCEPT ![req[w].user].session = 0]
      /\ UNCHANGED links
      /\ Proceed(w, AfterRevoke(req[w].op))
  BY DEF RevokeSession
<1> QED
  BY <1>1, RequestProceeds, OrdersAreHarmless DEF IInv, OnlyAdds, Typed, Reached

LEMMA LinkOnlyAdds ==
  ASSUME IInv, NEW w \in Workers, CreateLink(w)
  PROVE  OnlyAdds
<1>1. UNCHANGED account /\ links \subseteq links' /\ Finish(w)
  BY DEF CreateLink
<1> QED
  BY <1>1, RequestEnds DEF IInv, OnlyAdds, Typed, Reached

LEMMA DropOnlyAdds ==
  ASSUME IInv, NEW w \in Workers, DropTicket(w)
  PROVE  OnlyAdds
<1>1. UNCHANGED <<account, links>> /\ Goto(w, "issue")
  BY DEF DropTicket
<1> QED BY <1>1, RequestGoesOn, RowsStay DEF IInv

LEMMA FailOnlyAdds ==
  ASSUME IInv, NEW w \in Workers, Fail(w)
  PROVE  OnlyAdds
<1>1. UNCHANGED <<account, links>> /\ Finish(w)
  BY DEF Fail, Refuse
<1> QED BY <1>1, RequestEnds, RowsStay DEF IInv

-----------------------------------------------------------------------------
(* unlink *)

(* The row of the account is locked by nobody else. *)
LEMMA LockKeepsAll ==
  ASSUME IInv, NEW w \in Workers, LockAccount(w)
  PROVE  IInv'
<1> DEFINE u == req[w].user
<1>1. CASE ~account[u].exists
  <2>1. UNCHANGED <<account, links>> /\ Finish(w)
    BY <1>1 DEF LockAccount
  <2> QED BY <2>1, RequestEnds, RowsStay, OnlyAddsKeepsAll DEF IInv
<1>2. CASE account[u].exists
  <2>1. /\ req' = [req EXCEPT ![w].pc = "locked", ![w].password = account[u].password]
        /\ UNCHANGED <<account, links>>
        /\ ~Locked(u)
    BY <1>2 DEF LockAccount
  <2>2. /\ Typed'
        /\ req'[w].pc = "locked" /\ req'[w].user = u /\ req'[w].password = account[u].password
        /\ \A v \in Workers \ {w} : req'[v] = req[v]
    BY <2>1 DEF IInv, Typed, Fields
  <2>3. \A v \in Workers : Unlinking(req[v]) => req[v].user # u
    BY <2>1 DEF Locked, Unlinking
  <2>4. OneUnlink'
    BY <2>2, <2>3 DEF IInv, OneUnlink, Unlinking
  <2>5. CountHolds'
    <3> SUFFICES ASSUME NEW v \in Workers, Unlinking(req'[v]), req'[v].user \in Users
                 PROVE  /\ account'[req'[v].user].exists
                        /\ req'[v].password # 0 => account'[req'[v].user].password # 0
                        /\ req'[v].pc = "delete" => Remains(req[v])'
      BY DEF CountHolds, Unlinking, Remains
    <3>1. CASE v = w
      BY <3>1, <1>2, <2>1, <2>2
    <3>2. CASE v # w
      <4>1. req'[v] = req[v]
        BY <3>2, <2>2
      <4>2. /\ account[req[v].user].exists
            /\ req[v].password # 0 => account[req[v].user].password # 0
            /\ req[v].pc = "delete" => Remains(req[v])
        BY <4>1 DEF IInv, CountHolds, Unlinking
      <4> QED BY <4>1, <4>2, <2>1 DEF Remains
    <3> QED BY <3>1, <3>2
  <2>6. LastSignInStays'
    BY <2>1 DEF IInv, LastSignInStays, LinksOf
  <2> QED BY <2>2, <2>4, <2>5, <2>6 DEF IInv
<1> QED BY <1>1, <1>2

(* What is counted is at least one link too many, or there is a password. *)
LEMMA CountKeepsAll ==
  ASSUME IInv, NEW w \in Workers, CountLinks(w)
  PROVE  IInv'
<1> DEFINE u == req[w].user
           target == LinksOfProvider(u, req[w].identity[1])
<1>1. UNCHANGED <<account, links>> /\ req[w].pc = "locked"
  BY DEF CountLinks, At
<1>2. CASE target = {} \/ (req[w].password = 0 /\ LinksOf(u) = target)
  <2>1. Finish(w)
    BY <1>2 DEF CountLinks
  <2> QED BY <1>1, <2>1, RequestEnds, RowsStay, OnlyAddsKeepsAll DEF IInv
<1>3. CASE ~(target = {} \/ (req[w].password = 0 /\ LinksOf(u) = target))
  <2>1. req' = [req EXCEPT ![w].pc = "delete"]
    BY <1>3 DEF CountLinks, Goto
  <2>2. /\ Typed'
        /\ req'[w].pc = "delete" /\ req'[w].user = u
        /\ req'[w].password = req[w].password /\ req'[w].identity = req[w].identity
        /\ \A v \in Workers \ {w} : req'[v] = req[v]
    BY <1>1, <2>1 DEF IInv, Typed, Fields
  <2>3. req[w].password = 0 => \E l \in links : l[1] = u /\ l[2][1] # req[w].identity[1]
    BY <1>3 DEF LinksOf, LinksOfProvider
  <2>4. OneUnlink'
    BY <1>1, <2>2 DEF IInv, OneUnlink, Unlinking
  <2>5. CountHolds'
    <3> SUFFICES ASSUME NEW v \in Workers, Unlinking(req'[v]), req'[v].user \in Users
                 PROVE  /\ account[req'[v].user].exists
                        /\ req'[v].password # 0 => account[req'[v].user].password # 0
                        /\ req'[v].pc = "delete" => Remains(req'[v])
      BY <1>1 DEF CountHolds, Unlinking, Remains
    <3>1. CASE v # w
      BY <2>2, <3>1 DEF IInv, CountHolds
    <3>2. CASE v = w
      BY <1>1, <2>2, <2>3, <3>2 DEF IInv, CountHolds, Unlinking, Remains
    <3> QED BY <3>1, <3>2
  <2>6. LastSignInStays'
    BY <1>1 DEF IInv, LastSignInStays, LinksOf
  <2> QED BY <2>2, <2>4, <2>5, <2>6 DEF IInv
<1> QED BY <1>2, <1>3

(* The links deleted are those of one provider; what remains was counted   *)
(* under the lock, and the unlinks of other accounts have links of theirs. *)
LEMMA DeleteKeepsAll ==
  ASSUME IInv, NEW w \in Workers, DeleteLink(w)
  PROVE  IInv'
<1> DEFINE u == req[w].user
           p == req[w].identity[1]
<1>1. /\ links' = {l \in links : ~(l[1] = u /\ l[2][1] = p)}
      /\ UNCHANGED account /\ Finish(w) /\ req[w].pc = "delete"
  BY DEF DeleteLink, At, LinksOf, LinksOfProvider
<1>2. /\ DOMAIN req' = Workers /\ \A v \in Workers : DOMAIN req'[v] = Fields
      /\ \A v \in Workers : Unlinking(req'[v]) => SameUnlink(req'[v], req[v])
  BY <1>1, RequestEnds DEF IInv
<1>3. ~Unlinking(req'[w])
  BY <1>1 DEF Finish, Idle, Unlinking, IInv, Typed
<1>4. Typed'
  BY <1>1, <1>2 DEF IInv, Typed
<1>5. OneUnlink'
  BY <1>2 DEF IInv, OneUnlink, SameUnlink, Unlinking
<1>6. CountHolds'
  <2> SUFFICES ASSUME NEW v \in Workers, Unlinking(req'[v]), req'[v].user \in Users
               PROVE  /\ account[req'[v].user].exists
                      /\ req'[v].password # 0 => account[req'[v].user].password # 0
                      /\ req'[v].pc = "delete" => Remains(req[v])'
    BY <1>1 DEF CountHolds, Unlinking, Remains
  <2>1. SameUnlink(req'[v], req[v]) /\ Unlinking(req[v])
    BY <1>2 DEF SameUnlink, Unlinking
  <2>2. req[v].user # u
    BY <1>1, <1>3, <2>1 DEF IInv, OneUnlink, Unlinking
  <2>3. /\ account[req[v].user].exists
        /\ req[v].password # 0 => account[req[v].user].password # 0
        /\ req[v].pc = "delete" => Remains(req[v])
    BY <2>1 DEF IInv, CountHolds, SameUnlink
  <2> QED
    BY <1>1, <2>1, <2>2, <2>3 DEF SameUnlink, Remains
<1>7. LastSignInStays'
  <2> SUFFICES ASSUME NEW x \in Users, account[x].exists
               PROVE  account[x].password # 0 \/ \E l \in links' : l[1] = x
    BY <1>1 DEF LastSignInStays, LinksOf
  <2>1. CASE x = u
    BY <1>1, <2>1 DEF IInv, CountHolds, Unlinking, Remains
  <2>2. CASE x # u
    BY <1>1, <2>2 DEF IInv, LastSignInStays, LinksOf
  <2> QED BY <2>1, <2>2
<1> QED BY <1>4, <1>5, <1>6, <1>7 DEF IInv

-----------------------------------------------------------------------------
(* The steps of the page and of the server together *)

LEMMA StatementKeepsAll ==
  ASSUME IInv, NEW w \in Workers, Statement(w)
  PROVE  IInv'
<1>1. CASE LockAccount(w)
  BY <1>1, LockKeepsAll
<1>2. CASE CountLinks(w)
  BY <1>2, CountKeepsAll
<1>3. CASE DeleteLink(w)
  BY <1>3, DeleteKeepsAll
<1>4. CASE \/ InsertAccount(w) \/ DropTicket(w) \/ IssueTokens(w)
           \/ UpdatePassword(w) \/ Blacklist(w) \/ RevokeSession(w) \/ CreateLink(w)
  BY <1>4, OnlyAddsKeepsAll, InsertOnlyAdds, DropOnlyAdds, IssueOnlyAdds, UpdateOnlyAdds,
     BlacklistOnlyAdds, RevokeOnlyAdds, LinkOnlyAdds
<1> QED
  BY <1>1, <1>2, <1>3, <1>4 DEF Statement

(* What the page does leaves the rows and the requests alone, except that  *)
(* a refresh begins one and nobody waits for an answer after a reload.     *)
LEMMA PageOnlyAdds ==
  ASSUME IInv,
         \/ \E c \in Calls : Send(c) \/ Interceptor(c) \/ Network(c)
         \/ \E c \in Callers : LoseAnswer(c)
         \/ SignIn \/ SignOut \/ Reload
  PROVE  OnlyAdds
<1>1. ASSUME NEW c \in Calls, Send(c) \/ Interceptor(c)
      PROVE  UNCHANGED <<account, links, req>>
  BY <1>1 DEF Send, Interceptor, Settle, Reject, Queue, Refresh, RefreshSucceeds, RefreshFails,
              ReadAnswer, serverVars
<1>2. ASSUME NEW c \in Calls, NEW w \in Workers, TakeRefresh(w, c)
      PROVE  OnlyAdds
  <2> PICK u \in Users : Continues(w, u, call[c].token, c)
    BY <1>2 DEF TakeRefresh
  <2>1. UNCHANGED <<account, links>>
    BY <1>2 DEF TakeRefresh
  <2> QED BY <2>1, RefreshBegins
<1>3. ASSUME \/ \E c \in Calls : LoseRefresh(c)
             \/ \E c \in Callers : LoseAnswer(c)
             \/ SignIn \/ SignOut
      PROVE  UNCHANGED <<account, links, req>>
  BY <1>3 DEF LoseRefresh, LoseAnswer, SignIn, SignOut, ReadAnswer
<1>4. ASSUME Reload
      PROVE  OnlyAdds
  <2>1. req' = [w \in Workers |-> [req[w] EXCEPT !.caller = None]] /\ UNCHANGED <<account, links>>
    BY <1>4 DEF Reload
  <2>2. /\ DOMAIN req' = Workers
        /\ \A w \in Workers : DOMAIN req'[w] = Fields
        /\ \A w \in Workers : SameUnlink(req'[w], req[w])
    <3>1. DOMAIN req' = Workers
      BY <2>1
    <3>2. ASSUME NEW w \in Workers
          PROVE  DOMAIN req'[w] = Fields /\ SameUnlink(req'[w], req[w])
      <4> DEFINE r == req[w]
      <4>1. req'[w] = [r EXCEPT !.caller = None] /\ DOMAIN r = Fields
        BY <2>1 DEF IInv, Typed
      <4> HIDE DEF r
      <4>2. DOMAIN req'[w] = Fields /\ SameUnlink(req'[w], r)
        BY <4>1 DEF SameUnlink, Fields
      <4> QED BY <4>2 DEF r
    <3> QED BY <3>1, <3>2
  <2> QED BY <2>1, <2>2, RowsStay
<1> QED
  BY <1>1, <1>2, <1>3, <1>4, NothingBegins DEF Network

LEMMA StepKeepsAll ==
  ASSUME IInv, [Next]_vars
  PROVE  IInv'
<1>1. CASE \/ \E c \in Calls : Send(c) \/ Interceptor(c) \/ Network(c)
           \/ \E c \in Callers : LoseAnswer(c)
           \/ SignIn \/ SignOut \/ Reload
  BY <1>1, PageOnlyAdds, OnlyAddsKeepsAll
<1>2. CASE \E c \in {Page, None} : AccountRequest(c)
  BY <1>2, AccountRequestOnlyAdds, OnlyAddsKeepsAll
<1>3. CASE \E w \in Workers : Statement(w)
  BY <1>3, StatementKeepsAll
<1>4. CASE \E w \in Workers : Fail(w)
  BY <1>4, FailOnlyAdds, OnlyAddsKeepsAll
<1>5. CASE UNCHANGED vars
  <2>1. UNCHANGED <<account, links, req>>
    BY <1>5 DEF vars, serverVars
  <2> QED BY <2>1, NothingBegins, OnlyAddsKeepsAll
<1> QED
  BY <1>1, <1>2, <1>3, <1>4, <1>5 DEF Next

(* The accounts there are at the start can all be signed in to. *)
LEMMA InitHoldsAll ==
  ASSUME Init
  PROVE  IInv
<1> PICK b \in Beginnings : account = b.account /\ links = b.links
  BY DEF Init
<1>1. req = [w \in Workers |-> Idle]
  BY DEF Init
<1>2. Typed
  BY <1>1, BeginningsAreSound DEF Typed, Idle, Fields
<1>3. \A w \in Workers : ~Unlinking(req[w])
  BY <1>1 DEF Idle, Unlinking
<1>4. LastSignInStays
  BY BeginningsAreSound DEF LastSignInStays, LinksOf
<1> QED
  BY <1>2, <1>3, <1>4 DEF IInv, OneUnlink, CountHolds

(* Every account keeps a password or a linked identity to sign in with,    *)
(* however many unlinks of it run together with whatever else: the count   *)
(* of unlink under the lock of the row is still right when it deletes.     *)
THEOREM LastSignInAlwaysStays == Spec => []LastSignInStays
<1>1. Init => IInv
  BY InitHoldsAll
<1>2. IInv /\ [Next]_vars => IInv'
  BY StepKeepsAll
<1>3. IInv => LastSignInStays
  BY DEF IInv
<1> QED
  BY <1>1, <1>2, <1>3, PTL DEF Spec

-----------------------------------------------------------------------------
(* Sessions end with the password they rest on.  While a stored session    *)
(* rests on a password that has been changed, the request that changed it  *)
(* is still under way and has the session still to end (Revoking), unless  *)
(* the account is excused.  Only UpdatePassword outdates a session, and    *)
(* only the end of its request ends Revoking.                              *)

Revoking(r) ==
  \/ r.op = "change" /\ r.pc \in {"blacklist", "revoke"}
  \/ r.op = "reset" /\ r.pc = "revoke"

HistoryTyped ==
  /\ changed \in [Users -> Nat]
  /\ DOMAIN since = Users
  /\ excused \in [Users -> BOOLEAN]

OutdatedIsRevoked ==
  \A u \in Users :
    account[u].session # 0 /\ since[u] < changed[u] =>
      excused[u] \/ \E w \in Workers : Revoking(req[w]) /\ req[w].user = u

(* Whoever is about to write a password. *)
WritesPassword(r) == r.pc = "update" => r.op \in {"change", "reset", "set"}

SessionInv ==
  /\ IInv
  /\ HistoryTyped
  /\ \A w \in Workers : WritesPassword(req[w])
  /\ OutdatedIsRevoked

(* The requests that have a session to end still have. *)
StillRevoking ==
  \A w \in Workers :
    /\ Revoking(req[w]) => Revoking(req'[w]) /\ req'[w].user = req[w].user
    /\ WritesPassword(req[w]) => WritesPassword(req'[w])

SameSessions ==
  /\ UNCHANGED history
  /\ \A u \in Users : account'[u].session = account[u].session

LEMMA SessionsStay ==
  ASSUME SessionInv, SameSessions, StillRevoking
  PROVE  HistoryTyped' /\ OutdatedIsRevoked'
<1>1. changed' = changed /\ since' = since /\ excused' = excused
  BY DEF SameSessions, history
<1>2. HistoryTyped'
  BY <1>1 DEF SessionInv, HistoryTyped
<1>3. OutdatedIsRevoked'
  <2> SUFFICES ASSUME NEW u \in Users, account'[u].session # 0, since'[u] < changed'[u], ~excused'[u]
               PROVE  \E w \in Workers : Revoking(req'[w]) /\ req'[w].user = u
    BY DEF OutdatedIsRevoked, Revoking
  <2>1. account[u].session # 0 /\ since[u] < changed[u] /\ ~excused[u]
    BY <1>1 DEF SameSessions
  <2>2. PICK w \in Workers : Revoking(req[w]) /\ req[w].user = u
    BY <2>1 DEF SessionInv, OutdatedIsRevoked
  <2> QED BY <2>2 DEF StillRevoking
<1> QED BY <1>2, <1>3

(* A request that has no session to end takes a step. *)
LEMMA OtherRequestMoves ==
  ASSUME Typed, NEW w \in Workers, ~Revoking(req[w]),
         NEW r, WritesPassword(r), req' = [req EXCEPT ![w] = r]
  PROVE  StillRevoking
  BY DEF Typed, StillRevoking

LEMMA OtherRequestEnds ==
  ASSUME Typed, NEW w \in Workers, ~Revoking(req[w]), Finish(w)
  PROVE  StillRevoking
  BY OtherRequestMoves DEF Finish, Idle, WritesPassword

LEMMA OtherRequestGoesOn ==
  ASSUME Typed, NEW w \in Workers, ~Revoking(req[w]), NEW pc, pc # "update", Goto(w, pc)
  PROVE  StillRevoking
  BY DEF Goto, Typed, Fields, StillRevoking, WritesPassword

LEMMA IdleRevokesNothing ==
  ASSUME NEW w, req[w] = Idle
  PROVE  ~Revoking(req[w])
  BY DEF Idle, Revoking

(* Requests begin *)

LEMMA BeginKeepsSessions ==
  ASSUME Typed, NEW w \in Workers, NEW r, WritesPassword(r), Begin(w, r)
  PROVE  SameSessions /\ StillRevoking
<1>1. /\ req[w] = Idle /\ req' = [req EXCEPT ![w] = r] /\ UNCHANGED <<account, history>>
  BY DEF Begin
<1> QED BY <1>1, OtherRequestMoves, IdleRevokesNothing DEF SameSessions

LEMMA NothingKeepsSessions ==
  ASSUME UNCHANGED <<account, req, history>>
  PROVE  SameSessions /\ StillRevoking
  BY DEF SameSessions, StillRevoking

LEMMA ContinuesKeepsSessions ==
  ASSUME Typed, NEW w \in Workers, NEW u, NEW t, NEW c, Continues(w, u, t, c),
         UNCHANGED <<account, history>>
  PROVE  SameSessions /\ StillRevoking
<1>1. req[w] = Idle /\ \E r : WritesPassword(r) /\ req' = [req EXCEPT ![w] = r]
  BY DEF Continues, Idle, WritesPassword
<1> QED BY <1>1, OtherRequestMoves, IdleRevokesNothing DEF SameSessions

LEMMA AccountRequestKeepsSessions ==
  ASSUME Typed, NEW c, AccountRequest(c)
  PROVE  SameSessions /\ StillRevoking
<1>1. ASSUME NEW w \in Workers, NEW u \in Users,
             \/ BeginRegister(w, u, c) \/ BeginLogin(w, u, c) \/ BeginExchange(w, u, c)
             \/ \E id \in Identities : BeginSocialRegister(w, u, id, c)
      PROVE  SameSessions /\ StillRevoking
  BY <1>1, BeginKeepsSessions
  DEF BeginRegister, BeginLogin, BeginExchange, BeginSocialRegister, BeginSignIn,
      Idle, WritesPassword
<1>2. ASSUME NEW w \in Workers, NEW u \in Users,
             \/ \E id \in Identities : BeginLink(w, u, id)
             \/ BeginLogout(w, u) \/ BeginChange(w, u) \/ BeginSet(w, u)
             \/ \E p \in Providers : BeginUnlink(w, u, p)
      PROVE  SameSessions /\ StillRevoking
  BY <1>2, BeginKeepsSessions
  DEF BeginLink, BeginLogout, BeginChange, BeginSet, BeginUnlink, BeginSignedIn,
      Idle, WritesPassword
<1>3. ASSUME NEW w \in Workers, NEW u \in Users, BeginRefresh(w, u)
      PROVE  SameSessions /\ StillRevoking
  BY <1>3, ContinuesKeepsSessions DEF BeginRefresh
<1>4. ASSUME NEW w \in Workers, NEW u \in Users, BeginReset(w, u)
      PROVE  SameSessions /\ StillRevoking
  BY <1>4, BeginKeepsSessions DEF BeginReset, Idle, WritesPassword
<1>5. ASSUME NEW w \in Workers, NEW id \in Identities, BeginCallback(w, id)
      PROVE  SameSessions /\ StillRevoking
  BY <1>5, BeginKeepsSessions DEF BeginCallback, Idle, WritesPassword
<1>6. ASSUME NEW u \in Users, AdminSetsPassword(u)
      PROVE  SameSessions /\ StillRevoking
  <2>1. UNCHANGED <<req, history>> /\ account' = [account EXCEPT ![u].password = account[u].password + 1]
    BY <1>6 DEF AdminSetsPassword
  <2> QED BY <2>1 DEF Typed, SameSessions, StillRevoking
<1>7. ASSUME \/ \E id \in Identities : CallbackRegisters(id) \/ RefuseTicket(id)
             \/ \E u \in Users : ForgotPassword(u)
             \/ \E u \in Users, id \in Identities : CallbackSignsIn(u, id)
             \/ ExpireOneTime
      PROVE  SameSessions /\ StillRevoking
  BY <1>7, NothingKeepsSessions
  DEF CallbackRegisters, RefuseTicket, ForgotPassword, CallbackSignsIn, ExpireOneTime
<1> QED
  BY <1>1, <1>2, <1>3, <1>4, <1>5, <1>6, <1>7 DEF AccountRequest

(* Statements *)

(* A password is written: the session it outdates is still to be ended by  *)
(* the same request.  setPassword outdates none: there was no password.    *)
LEMMA UpdateKeepsSessions ==
  ASSUME SessionInv, NEW w \in Workers, UpdatePassword(w)
  PROVE  HistoryTyped' /\ OutdatedIsRevoked' /\ StillRevoking
<1> DEFINE u == req[w].user
           op == req[w].op
<1>1. /\ account' = [account EXCEPT ![u].password = account[u].password + 1]
      /\ changed' = IF op = "set" THEN changed ELSE [changed EXCEPT ![u] = @ + 1]
      /\ Proceed(w, AfterUpdate(op))
      /\ UNCHANGED <<since, excused>>
      /\ req[w].pc = "update"
  BY DEF UpdatePassword, At
<1>2. \A x \in Users : account'[x].session = account[x].session
  BY <1>1 DEF SessionInv, IInv, Typed
<1>3. ~Revoking(req[w])
  BY <1>1 DEF Revoking
<1>4. StillRevoking
  BY <1>1, <1>3, OtherRequestEnds, OtherRequestGoesOn DEF Proceed, AfterUpdate, SessionInv, IInv
<1>5. op \in {"change", "reset", "set"}
  BY <1>1 DEF SessionInv, WritesPassword
<1>6. CASE op = "set"
  <2>1. SameSessions
    BY <1>1, <1>2, <1>6 DEF SameSessions, history
  <2> QED BY <2>1, <1>4, SessionsStay
<1>7. CASE op \in {"change", "reset"}
  <2>1. HistoryTyped' /\ \A x \in Users \ {u} : changed'[x] = changed[x]
    <3>1. changed' = [changed EXCEPT ![u] = changed[u] + 1]
      BY <1>1, <1>7
    <3>2. u \in Users => changed[u] + 1 \in Nat
      BY DEF SessionInv, HistoryTyped
    <3> HIDE DEF u
    <3> QED BY <1>1, <3>1, <3>2 DEF SessionInv, HistoryTyped
  <2>2. Revoking(req'[w]) /\ req'[w].user = u
    <3>1. req' = [req EXCEPT ![w].pc = AfterUpdate(op)]
      BY <1>1, <1>7 DEF Proceed, Goto, AfterUpdate
    <3>2. req'[w].pc = AfterUpdate(op) /\ req'[w].op = op /\ req'[w].user = u
      BY <3>1 DEF SessionInv, IInv, Typed, Fields
    <3> QED BY <3>2, <1>7 DEF Revoking, AfterUpdate
  <2>3. OutdatedIsRevoked'
    <3> SUFFICES ASSUME NEW x \in Users, account'[x].session # 0, since'[x] < changed'[x], ~excused'[x]
                 PROVE  \E v \in Workers : Revoking(req'[v]) /\ req'[v].user = x
      BY DEF OutdatedIsRevoked, Revoking
    <3>1. CASE x = u
      BY <3>1, <2>2
    <3>2. CASE x # u
      <4>1. account[x].session # 0 /\ since[x] < changed[x] /\ ~excused[x]
        BY <3>2, <1>1, <1>2, <2>1
      <4>2. PICK v \in Workers : Revoking(req[v]) /\ req[v].user = x
        BY <4>1 DEF SessionInv, OutdatedIsRevoked
      <4> QED BY <4>2, <1>4 DEF StillRevoking
    <3> QED BY <3>1, <3>2
  <2> QED BY <1>4, <2>1, <2>3
<1> QED BY <1>4, <1>5, <1>6, <1>7

LEMMA IssueKeepsSessions ==
  ASSUME SessionInv, NEW w \in Workers, IssueTokens(w)
  PROVE  HistoryTyped' /\ OutdatedIsRevoked' /\ StillRevoking
<1> DEFINE u == req[w].user
           s == req[w].since
           t == Len(issued) + 1
<1>1. /\ account' = [account EXCEPT ![u].session = t]
      /\ since' = [since EXCEPT ![u] = s]
      /\ excused' = [excused EXCEPT ![u] = @ \/ s # changed[u]]
      /\ changed' = changed
      /\ Finish(w) /\ req[w].pc = "issue"
  BY DEF IssueTokens, At
<1>2. StillRevoking
  BY <1>1, OtherRequestEnds DEF Revoking, SessionInv, IInv
<1>3. \A x \in Users \ {u} : /\ account'[x].session = account[x].session
                              /\ since'[x] = since[x] /\ excused'[x] = excused[x]
  BY <1>1 DEF SessionInv, IInv, Typed, HistoryTyped
<1>4. u \in Users => since'[u] = s /\ (s # changed[u] => excused'[u])
  BY <1>1 DEF SessionInv, HistoryTyped
<1>5. HistoryTyped'
  <2>1. u \in Users => (excused[u] \/ s # changed[u]) \in BOOLEAN
    BY DEF SessionInv, HistoryTyped
  <2> QED BY <1>1, <2>1 DEF SessionInv, HistoryTyped
<1>6. OutdatedIsRevoked'
  <2> SUFFICES ASSUME NEW x \in Users, account'[x].session # 0, since'[x] < changed'[x], ~excused'[x]
               PROVE  \E v \in Workers : Revoking(req'[v]) /\ req'[v].user = x
    BY DEF OutdatedIsRevoked, Revoking
  <2>1. CASE x = u
    <3>1. changed[u] \in Nat /\ ~(changed[u] < changed[u])
      BY <2>1 DEF SessionInv, HistoryTyped
    <3> QED BY <1>1, <1>4, <2>1, <3>1
  <2>2. CASE x # u
    <3>1. account[x].session # 0 /\ since[x] < changed[x] /\ ~excused[x]
      BY <2>2, <1>1, <1>3
    <3>2. PICK v \in Workers : Revoking(req[v]) /\ req[v].user = x
      BY <3>1 DEF SessionInv, OutdatedIsRevoked
    <3> QED BY <3>2, <1>2 DEF StillRevoking
  <2> QED BY <2>1, <2>2
<1> QED BY <1>2, <1>5, <1>6

(* A change goes on from the blacklist to the session; a reset has ended   *)
(* the session by then.                                                    *)
LEMMA BlacklistKeepsSessions ==
  ASSUME SessionInv, NEW w \in Workers, Blacklist(w)
  PROVE  SameSessions /\ StillRevoking
<1>1. /\ UNCHANGED <<account, history>> /\ req[w].pc = "blacklist"
      /\ Proceed(w, AfterBlacklist(req[w].op))
  BY DEF Blacklist, At
<1>2. CASE req[w].op = "change"
  <2>1. Goto(w, "revoke")
    BY <1>1, <1>2 DEF Proceed, AfterBlacklist
  <2>2. StillRevoking
    BY <1>1, <1>2, <2>1
    DEF Goto, SessionInv, IInv, Typed, Fields, StillRevoking, Revoking, WritesPassword
  <2> QED BY <1>1, <2>2 DEF SameSessions
<1>3. CASE req[w].op # "change"
  <2>1. ~Revoking(req[w])
    BY <1>1, <1>3 DEF Revoking
  <2>2. StillRevoking
    BY <1>1, <2>1, OtherRequestEnds, OtherRequestGoesOn
    DEF Proceed, AfterBlacklist, SessionInv, IInv
  <2> QED BY <1>1, <2>2 DEF SameSessions
<1> QED BY <1>2, <1>3

(* The session ends. *)
LEMMA RevokeKeepsSessions ==
  ASSUME SessionInv, NEW w \in Workers, RevokeSession(w)
  PROVE  HistoryTyped' /\ OutdatedIsRevoked' /\ \A v \in Workers : WritesPassword(req'[v])
<1> DEFINE u == req[w].user
<1>1. /\ account' = [account EXCEPT ![u].session = 0]
      /\ UNCHANGED history
      /\ Proceed(w, AfterRevoke(req[w].op))
  BY DEF RevokeSession
<1>2. changed' = changed /\ since' = since /\ excused' = excused
  BY <1>1 DEF history
<1>3. /\ \A x \in Users \ {u} : account'[x].session = account[x].session
      /\ u \in Users => account'[u].session = 0
  BY <1>1 DEF SessionInv, IInv, Typed
<1>4. /\ \A v \in Workers \ {w} : req'[v] = req[v]
      /\ WritesPassword(req'[w])
  BY <1>1 DEF Proceed, Finish, Goto, AfterRevoke, Idle, WritesPassword, SessionInv, IInv, Typed, Fields
<1>5. HistoryTyped'
  BY <1>2 DEF SessionInv, HistoryTyped
<1>6. OutdatedIsRevoked'
  <2> SUFFICES ASSUME NEW x \in Users, account'[x].session # 0, since'[x] < changed'[x], ~excused'[x]
               PROVE  \E v \in Workers : Revoking(req'[v]) /\ req'[v].user = x
    BY DEF OutdatedIsRevoked, Revoking
  <2>1. x # u
    BY <1>3
  <2>2. account[x].session # 0 /\ since[x] < changed[x] /\ ~excused[x]
    BY <2>1, <1>2, <1>3
  <2>3. PICK v \in Workers : Revoking(req[v]) /\ req[v].user = x
    BY <2>2 DEF SessionInv, OutdatedIsRevoked
  <2> QED BY <2>1, <2>3, <1>4
<1>7. \A v \in Workers : WritesPassword(req'[v])
  BY <1>4 DEF SessionInv
<1> QED BY <1>5, <1>6, <1>7

(* A change that fails halfway excuses its account. *)
LEMMA FailKeepsSessions ==
  ASSUME SessionInv, NEW w \in Workers, Fail(w)
  PROVE  HistoryTyped' /\ OutdatedIsRevoked' /\ \A v \in Workers : WritesPassword(req'[v])
<1> DEFINE u == req[w].user
<1>1. /\ account' = account /\ changed' = changed /\ since' = since
      /\ excused' = IF req[w].op \in {"change", "reset"} /\ req[w].pc # "update"
                      THEN [excused EXCEPT ![u] = TRUE] ELSE excused
      /\ req' = [req EXCEPT ![w] = Idle]
  BY DEF Fail, Refuse, Finish, At
<1>2. /\ \A v \in Workers \ {w} : req'[v] = req[v]
      /\ WritesPassword(req'[w])
  BY <1>1 DEF Idle, WritesPassword, SessionInv, IInv, Typed
<1>3. HistoryTyped' /\ \A x \in Users : excused[x] => excused'[x]
  BY <1>1 DEF SessionInv, HistoryTyped
<1>4. Revoking(req[w]) /\ u \in Users => excused'[u]
  BY <1>1 DEF Revoking, SessionInv, HistoryTyped
<1>5. OutdatedIsRevoked'
  <2> SUFFICES ASSUME NEW x \in Users, account'[x].session # 0, since'[x] < changed'[x], ~excused'[x]
               PROVE  \E v \in Workers : Revoking(req'[v]) /\ req'[v].user = x
    BY DEF OutdatedIsRevoked, Revoking
  <2>1. account[x].session # 0 /\ since[x] < changed[x] /\ ~excused[x]
    BY <1>1, <1>3
  <2>2. PICK v \in Workers : Revoking(req[v]) /\ req[v].user = x
    BY <2>1 DEF SessionInv, OutdatedIsRevoked
  <2> QED BY <2>2, <1>2, <1>4
<1>6. \A v \in Workers : WritesPassword(req'[v])
  BY <1>2 DEF SessionInv
<1> QED BY <1>3, <1>5, <1>6

(* The other statements leave passwords and sessions as they are. *)
LEMMA OthersKeepSessions ==
  ASSUME SessionInv, NEW w \in Workers,
         \/ InsertAccount(w) \/ DropTicket(w) \/ CreateLink(w)
         \/ LockAccount(w) \/ CountLinks(w) \/ DeleteLink(w)
  PROVE  SameSessions /\ StillRevoking
<1>1. ~Revoking(req[w])
  BY DEF Revoking, At, InsertAccount, DropTicket, CreateLink, LockAccount, CountLinks, DeleteLink
<1>2. CASE InsertAccount(w)
  <2> DEFINE u == req[w].user
             password == IF req[w].identity = NoIdentity THEN 1 ELSE 0
  <2>1. \/ account' = account
        \/ account' = [account EXCEPT ![u].exists = TRUE, ![u].password = password]
    BY <1>2 DEF InsertAccount
  <2>2. \A x \in Users : account'[x].session = account[x].session
    <3> HIDE DEF password
    <3> QED BY <2>1 DEF SessionInv, IInv, Typed
  <2>3. Finish(w) \/ Goto(w, "issue") \/ Goto(w, "drop")
    BY <1>2 DEF InsertAccount, Refuse
  <2>4. StillRevoking
    BY <2>3, <1>1, OtherRequestEnds, OtherRequestGoesOn DEF SessionInv, IInv
  <2> QED BY <1>2, <2>2, <2>4 DEF InsertAccount, SameSessions
<1>3. CASE LockAccount(w)
  <2>1. \/ Finish(w)
        \/ req' = [req EXCEPT ![w].pc = "locked", ![w].password = account[req[w].user].password]
    BY <1>3 DEF LockAccount
  <2>2. ASSUME req' = [req EXCEPT ![w].pc = "locked", ![w].password = account[req[w].user].password]
        PROVE  StillRevoking
    <3> DEFINE password == account[req[w].user].password
               r == [req[w] EXCEPT !.pc = "locked", !.password = password]
    <3>1. req' = [req EXCEPT ![w] = r]
      BY <2>2
    <3>2. WritesPassword(r)
      BY DEF SessionInv, IInv, Typed, Fields, WritesPassword
    <3> HIDE DEF r
    <3> QED BY <1>1, <3>1, <3>2, OtherRequestMoves DEF SessionInv, IInv
  <2>3. StillRevoking
    BY <2>1, <2>2, <1>1, OtherRequestEnds DEF SessionInv, IInv
  <2> QED BY <1>3, <2>3 DEF LockAccount, SameSessions
<1>4. CASE DropTicket(w) \/ CreateLink(w) \/ CountLinks(w) \/ DeleteLink(w)
  <2>1. Finish(w) \/ Goto(w, "issue") \/ Goto(w, "delete")
    BY <1>4 DEF DropTicket, CreateLink, CountLinks, DeleteLink
  <2>2. StillRevoking
    BY <2>1, <1>1, OtherRequestEnds, OtherRequestGoesOn DEF SessionInv, IInv
  <2> QED BY <1>4, <2>2 DEF DropTicket, CreateLink, CountLinks, DeleteLink, SameSessions
<1> QED BY <1>2, <1>3, <1>4

LEMMA PageKeepsSessions ==
  ASSUME Typed,
         \/ \E c \in Calls : Send(c) \/ Interceptor(c) \/ Network(c)
         \/ \E c \in Callers : LoseAnswer(c)
         \/ SignIn \/ SignOut \/ Reload
  PROVE  SameSessions /\ StillRevoking
<1>1. ASSUME NEW c \in Calls, Send(c) \/ Interceptor(c)
      PROVE  UNCHANGED <<account, req, history>>
  BY <1>1 DEF Send, Interceptor, Settle, Reject, Queue, Refresh, RefreshSucceeds, RefreshFails,
              ReadAnswer, serverVars
<1>2. ASSUME NEW c \in Calls, NEW w \in Workers, TakeRefresh(w, c)
      PROVE  SameSessions /\ StillRevoking
  BY <1>2, ContinuesKeepsSessions DEF TakeRefresh
<1>3. ASSUME \/ \E c \in Calls : LoseRefresh(c)
             \/ \E c \in Callers : LoseAnswer(c)
             \/ SignIn \/ SignOut
      PROVE  UNCHANGED <<account, req, history>>
  BY <1>3 DEF LoseRefresh, LoseAnswer, SignIn, SignOut, ReadAnswer
<1>4. ASSUME Reload
      PROVE  SameSessions /\ StillRevoking
  <2>1. req' = [w \in Workers |-> [req[w] EXCEPT !.caller = None]] /\ UNCHANGED <<account, history>>
    BY <1>4 DEF Reload
  <2>2. ASSUME NEW w \in Workers
        PROVE  req'[w].op = req[w].op /\ req'[w].pc = req[w].pc /\ req'[w].user = req[w].user
    <3> DEFINE r == req[w]
    <3>1. req'[w] = [r EXCEPT !.caller = None] /\ DOMAIN r = Fields
      BY <2>1 DEF Typed
    <3> HIDE DEF r
    <3>2. req'[w].op = r.op /\ req'[w].pc = r.pc /\ req'[w].user = r.user
      BY <3>1 DEF Fields
    <3> QED BY <3>2 DEF r
  <2> QED BY <2>1, <2>2 DEF SameSessions, StillRevoking, Revoking, WritesPassword
<1> QED
  BY <1>1, <1>2, <1>3, <1>4, NothingKeepsSessions DEF Network

LEMMA StepKeepsSessions ==
  ASSUME SessionInv, [Next]_vars
  PROVE  SessionInv'
<1> DEFINE Kept == HistoryTyped' /\ OutdatedIsRevoked' /\ \A w \in Workers : WritesPassword(req'[w])
<1> SUFFICES Kept
  BY StepKeepsAll DEF SessionInv, WritesPassword
<1>1. SameSessions /\ StillRevoking => Kept
  BY SessionsStay DEF SessionInv, StillRevoking
<1>2. Typed
  BY DEF SessionInv, IInv
<1>3. CASE \/ \E c \in Calls : Send(c) \/ Interceptor(c) \/ Network(c)
           \/ \E c \in Callers : LoseAnswer(c)
           \/ SignIn \/ SignOut \/ Reload
  BY <1>1, <1>2, <1>3, PageKeepsSessions
<1>4. CASE \E c \in {Page, None} : AccountRequest(c)
  BY <1>1, <1>2, <1>4, AccountRequestKeepsSessions
<1>5. ASSUME NEW w \in Workers, Statement(w)
      PROVE  Kept
  <2>1. CASE UpdatePassword(w)
    BY <2>1, UpdateKeepsSessions DEF SessionInv, StillRevoking
  <2>2. CASE IssueTokens(w)
    BY <2>2, IssueKeepsSessions DEF SessionInv, StillRevoking
  <2>3. CASE Blacklist(w)
    BY <1>1, <2>3, BlacklistKeepsSessions
  <2>4. CASE RevokeSession(w)
    BY <2>4, RevokeKeepsSessions
  <2>5. CASE \/ InsertAccount(w) \/ DropTicket(w) \/ CreateLink(w)
             \/ LockAccount(w) \/ CountLinks(w) \/ DeleteLink(w)
    BY <1>1, <2>5, OthersKeepSessions
  <2> QED BY <1>5, <2>1, <2>2, <2>3, <2>4, <2>5 DEF Statement
<1>6. CASE \E w \in Workers : Fail(w)
  BY <1>6, FailKeepsSessions
<1>7. CASE UNCHANGED vars
  <2>1. UNCHANGED <<account, req, history>>
    BY <1>7 DEF vars, serverVars
  <2> QED BY <1>1, <2>1, NothingKeepsSessions
<1> QED
  BY <1>3, <1>4, <1>5, <1>6, <1>7 DEF Next

(* Once a password has been changed or reset, the session from before has  *)
(* ended, whatever sign-ins, refreshes and unlinks run together with the   *)
(* change, unless a sign-in overlapped it or it failed halfway: the        *)
(* statements of changePassword and resetPassword after the first one.     *)
THEOREM ChangesEndSessions == Spec => []ChangeEndsSessions
<1>1. Init => SessionInv
  <2> SUFFICES ASSUME Init PROVE SessionInv
    OBVIOUS
  <2>1. /\ req = [w \in Workers |-> Idle] /\ changed = [u \in Users |-> 0]
        /\ since = [u \in Users |-> 0] /\ excused = [u \in Users |-> FALSE]
    BY DEF Init
  <2>2. HistoryTyped /\ OutdatedIsRevoked
    BY <2>1 DEF HistoryTyped, OutdatedIsRevoked
  <2>3. \A w \in Workers : WritesPassword(req[w])
    BY <2>1 DEF Idle, WritesPassword
  <2> QED BY <2>2, <2>3, InitHoldsAll DEF SessionInv
<1>2. SessionInv /\ [Next]_vars => SessionInv'
  BY StepKeepsSessions
<1>3. SessionInv => ChangeEndsSessions
  BY DEF SessionInv, OutdatedIsRevoked, Revoking, ChangeEndsSessions, Changing
<1> QED
  BY <1>1, <1>2, <1>3, PTL DEF Spec

-----------------------------------------------------------------------------
(* The tokens of the page.  A token on its way to a caller is nobody       *)
(* else's, has not been presented, and is not the one the page has; the    *)
(* page has presented the one it has only while it refreshes.              *)

Requesters == \A w \in Workers : req[w].user \in Users \union {None}

TokensTyped ==
  /\ issued \in Seq(Users \union {None})
  /\ DOMAIN answer = Callers
  /\ store \in 0 .. Len(issued)
  /\ presented \subseteq 1 .. Len(issued)

Answers == {c \in Callers : answer[c] \notin {None, 0}}

AnswersAreFresh ==
  /\ \A c \in Answers :
       answer[c] \in 1 .. Len(issued) /\ answer[c] \notin presented /\ answer[c] # store
  /\ \A c, d \in Answers : answer[c] = answer[d] => c = d

TokenInv == TokensTyped /\ AnswersAreFresh /\ (store \in presented => isRefreshing)

(* The fields of a call. *)
CallsTyped ==
  /\ DOMAIN call = Calls
  /\ \A c \in Calls : DOMAIN call[c] = {"pc", "retry", "token"}

StoreInv == IInv /\ Requesters /\ TokenInv /\ CallsTyped

(* No step of a request, and nothing the page does, makes a token known    *)
(* that is not new: each answer is as before, or is refused, or goes.      *)
NoNewAnswer ==
  /\ DOMAIN answer' = Callers
  /\ \A c \in Callers : answer'[c] \in {answer[c], None, 0}

LEMMA AnswersStayFresh ==
  ASSUME TokenInv, UNCHANGED issued, NoNewAnswer,
         \/ UNCHANGED <<store, presented>>
         \/ store' = 0 /\ UNCHANGED presented
         \/ store' = store /\ presented' = {}
         \/ store' = store /\ presented' = presented \union {store} /\ store # 0
         \/ \E c \in Answers : /\ store' = answer[c] /\ answer'[c] = None
                               /\ UNCHANGED presented
  PROVE  TokensTyped' /\ AnswersAreFresh'
<1>1. Len(issued) \in Nat /\ issued' = issued
  BY DEF TokenInv, TokensTyped
<1>2. \A c \in Answers' : c \in Answers /\ answer'[c] = answer[c] /\ c \in Callers
  BY DEF NoNewAnswer, Answers
<1>3. TokensTyped'
  <2>1. store' \in 0 .. Len(issued)
    BY DEF TokenInv, TokensTyped, AnswersAreFresh
  <2>2. presented' \subseteq 1 .. Len(issued)
    <3>1. presented' \in {presented, {}} \/ (presented' = presented \union {store} /\ store # 0)
      OBVIOUS
    <3>2. store # 0 => store \in 1 .. Len(issued)
      BY <1>1 DEF TokenInv, TokensTyped
    <3>3. presented \subseteq 1 .. Len(issued)
      BY DEF TokenInv, TokensTyped
    <3> QED BY <3>1, <3>2, <3>3
  <2> QED BY <1>1, <2>1, <2>2 DEF TokenInv, TokensTyped, NoNewAnswer
<1>4. \A c, d \in Answers' : answer'[c] = answer'[d] => c = d
  BY <1>2 DEF TokenInv, AnswersAreFresh
<1>5. ASSUME NEW c \in Answers'
      PROVE  answer'[c] \in 1 .. Len(issued) /\ answer'[c] \notin presented' /\ answer'[c] # store'
  <2>1. /\ c \in Answers /\ answer'[c] = answer[c]
        /\ answer[c] \in 1 .. Len(issued) /\ answer[c] \notin presented /\ answer[c] # store
    BY <1>2, <1>5 DEF TokenInv, AnswersAreFresh
  <2>2. CASE \E d \in Answers : store' = answer[d] /\ answer'[d] = None /\ UNCHANGED presented
    <3> PICK d \in Answers : store' = answer[d] /\ answer'[d] = None /\ presented' = presented
      BY <2>2
    <3>1. c # d
      BY <1>5 DEF Answers
    <3> QED BY <2>1, <3>1 DEF TokenInv, AnswersAreFresh
  <2>3. CASE store' = 0 /\ UNCHANGED presented
    BY <2>1, <2>3, <1>1
  <2> QED BY <2>1, <2>2, <2>3
<1> QED BY <1>1, <1>3, <1>4, <1>5 DEF AnswersAreFresh

LEMMA AnswerIsNotNew ==
  ASSUME TokensTyped, NEW c, NEW t \in {None, 0},
         Answered(c, t) \/ answer' = [answer EXCEPT ![c] = t] \/ UNCHANGED answer
  PROVE  NoNewAnswer
  BY DEF TokensTyped, Answered, NoNewAnswer

LEMMA SameTokens ==
  ASSUME TokenInv, UNCHANGED <<issued, answer>>, UNCHANGED pageVars
  PROVE  TokenInv'
<1>1. NoNewAnswer
  BY AnswerIsNotNew DEF TokenInv
<1> QED BY <1>1, AnswersStayFresh DEF TokenInv, pageVars

-----------------------------------------------------------------------------
(* Requests *)

LEMMA RequesterMoves ==
  ASSUME Requesters, Typed, NEW w \in Workers, NEW r, r.user \in Users \union {None},
         req' = [req EXCEPT ![w] = r]
  PROVE  Requesters'
  BY DEF Requesters, Typed

LEMMA RequesterEnds ==
  ASSUME Requesters, Typed, NEW w \in Workers, Finish(w)
  PROVE  Requesters'
  BY RequesterMoves DEF Finish, Idle

LEMMA RequesterGoesOn ==
  ASSUME Requesters, Typed, NEW w \in Workers, NEW pc, Goto(w, pc)
  PROVE  Requesters'
  BY DEF Goto, Typed, Fields, Requesters

LEMMA BeginKeepsTokens ==
  ASSUME Requesters, Typed, NEW w \in Workers, NEW r, r.user \in Users \union {None}, Begin(w, r)
  PROVE  Requesters' /\ UNCHANGED issued
  BY RequesterMoves DEF Begin

LEMMA ContinuesKeepsRequesters ==
  ASSUME Requesters, Typed, NEW w \in Workers, NEW u \in Users, NEW t, NEW c, Continues(w, u, t, c)
  PROVE  Requesters'
<1>1. \E r : r.user \in Users \union {None} /\ req' = [req EXCEPT ![w] = r]
  BY DEF Continues, Idle
<1> QED BY <1>1, RequesterMoves

LEMMA AccountRequestKeepsTokens ==
  ASSUME Requesters, Typed, NEW c, AccountRequest(c)
  PROVE  Requesters' /\ UNCHANGED <<issued, answer>>
<1> DEFINE Kept == Requesters' /\ UNCHANGED <<issued, answer>>
<1>1. ASSUME NEW w \in Workers, NEW u \in Users,
             \/ BeginRegister(w, u, c) \/ BeginLogin(w, u, c) \/ BeginExchange(w, u, c)
             \/ \E id \in Identities : BeginSocialRegister(w, u, id, c)
      PROVE  Kept
  BY <1>1, BeginKeepsTokens
  DEF BeginRegister, BeginLogin, BeginExchange, BeginSocialRegister, BeginSignIn, Idle
<1>2. ASSUME NEW w \in Workers, NEW u \in Users,
             \/ \E id \in Identities : BeginLink(w, u, id)
             \/ BeginLogout(w, u) \/ BeginChange(w, u) \/ BeginSet(w, u)
             \/ \E p \in Providers : BeginUnlink(w, u, p)
      PROVE  Kept
  BY <1>2, BeginKeepsTokens
  DEF BeginLink, BeginLogout, BeginChange, BeginSet, BeginUnlink, BeginSignedIn, Idle
<1>3. ASSUME NEW w \in Workers, NEW u \in Users, BeginRefresh(w, u)
      PROVE  Kept
  BY <1>3, ContinuesKeepsRequesters DEF BeginRefresh, sessions
<1>4. ASSUME NEW w \in Workers, NEW u \in Users, BeginReset(w, u)
      PROVE  Kept
  BY <1>4, BeginKeepsTokens DEF BeginReset, Idle
<1>5. ASSUME NEW w \in Workers, NEW id \in Identities, BeginCallback(w, id)
      PROVE  Kept
  <2>1. id[2] \in Users
    BY <1>5, AddressesAreKnown
  <2> QED BY <1>5, <2>1, BeginKeepsTokens DEF BeginCallback, Idle
<1>6. ASSUME \/ \E id \in Identities : CallbackRegisters(id) \/ RefuseTicket(id)
             \/ \E u \in Users : ForgotPassword(u) \/ AdminSetsPassword(u)
             \/ \E u \in Users, id \in Identities : CallbackSignsIn(u, id)
             \/ ExpireOneTime
      PROVE  Kept
  <2>1. UNCHANGED <<req, issued, answer>>
    BY <1>6 DEF CallbackRegisters, RefuseTicket, ForgotPassword, AdminSetsPassword,
                CallbackSignsIn, ExpireOneTime, sessions
  <2> QED BY <2>1 DEF Requesters
<1> QED
  BY <1>1, <1>2, <1>3, <1>4, <1>5, <1>6 DEF AccountRequest

(* A pair of tokens is issued: it is the last one. *)
LEMMA IssueKeepsTokens ==
  ASSUME StoreInv, NEW w \in Workers, IssueTokens(w), UNCHANGED pageVars
  PROVE  Requesters' /\ TokenInv'
<1> DEFINE u == req[w].user
           t == Len(issued) + 1
           c == req[w].caller
<1>1. /\ issued' = Append(issued, u) /\ Finish(w)
      /\ answer' = IF c = None THEN answer ELSE [answer EXCEPT ![c] = t]
      /\ store' = store /\ presented' = presented /\ isRefreshing' = isRefreshing
  BY DEF IssueTokens, Answered, pageVars
<1>2. Requesters'
  BY <1>1, RequesterEnds DEF StoreInv, IInv
<1>3. issued' \in Seq(Users \union {None}) /\ Len(issued') = t /\ Len(issued) \in Nat
  BY <1>1 DEF StoreInv, Requesters, TokenInv, TokensTyped
<1>4. /\ DOMAIN answer' = Callers
      /\ \A d \in Callers : answer'[d] = answer[d] \/ (d = c /\ answer'[d] = t)
  BY <1>1 DEF StoreInv, TokenInv, TokensTyped
<1>5. TokensTyped'
  BY <1>1, <1>3, <1>4 DEF StoreInv, TokenInv, TokensTyped
<1>6. \A d \in Answers' : \/ d \in Answers /\ answer'[d] = answer[d]
                          \/ d = c /\ answer'[d] = t
  BY <1>4 DEF Answers
<1> HIDE DEF c
<1>7. /\ t \in 1 .. Len(issued') /\ t \notin presented' /\ t # store'
      /\ \A d \in Answers : answer[d] \in 1 .. Len(issued') /\ answer[d] # t
  BY <1>1, <1>3 DEF StoreInv, TokenInv, TokensTyped, AnswersAreFresh
<1> HIDE DEF t
<1>8. AnswersAreFresh'
  BY <1>1, <1>6, <1>7 DEF StoreInv, TokenInv, AnswersAreFresh
<1> QED BY <1>1, <1>2, <1>5, <1>8 DEF StoreInv, TokenInv

(* The other statements refuse the caller or say nothing. *)
LEMMA OthersKeepTokens ==
  ASSUME StoreInv, NEW w \in Workers, UNCHANGED pageVars,
         \/ InsertAccount(w) \/ DropTicket(w) \/ UpdatePassword(w) \/ Blacklist(w)
         \/ RevokeSession(w) \/ CreateLink(w) \/ LockAccount(w) \/ CountLinks(w)
         \/ DeleteLink(w) \/ Fail(w)
  PROVE  Requesters' /\ TokenInv'
<1>1. Requesters'
  <2>1. \/ Finish(w) \/ \E pc : Goto(w, pc)
        \/ req' = [req EXCEPT ![w].pc = "locked", ![w].password = account[req[w].user].password]
    BY DEF InsertAccount, Refuse, DropTicket, UpdatePassword, Blacklist, RevokeSession, Proceed,
           CreateLink, LockAccount, CountLinks, DeleteLink, Fail
  <2>2. ASSUME req' = [req EXCEPT ![w].pc = "locked",
                                  ![w].password = account[req[w].user].password]
        PROVE  Requesters'
    <3> DEFINE password == account[req[w].user].password
               r == [req[w] EXCEPT !.pc = "locked", !.password = password]
    <3>1. req' = [req EXCEPT ![w] = r]
      BY <2>2
    <3>2. r.user \in Users \union {None}
      BY DEF StoreInv, Requesters, IInv, Typed, Fields
    <3> HIDE DEF r
    <3> QED BY <3>1, <3>2, RequesterMoves DEF StoreInv, IInv
  <2> QED BY <2>1, <2>2, RequesterEnds, RequesterGoesOn DEF StoreInv, IInv
<1>2. UNCHANGED issued
  BY DEF InsertAccount, DropTicket, UpdatePassword, Blacklist, RevokeSession, CreateLink,
         LockAccount, CountLinks, DeleteLink, Fail, sessions
<1>3. \E c : Answered(c, 0) \/ UNCHANGED answer
  BY DEF InsertAccount, Refuse, DropTicket, UpdatePassword, Blacklist, RevokeSession, CreateLink,
         LockAccount, CountLinks, DeleteLink, Fail, sessions
<1>4. NoNewAnswer
  BY <1>3, AnswerIsNotNew DEF StoreInv, TokenInv
<1> QED
  BY <1>1, <1>2, <1>4, AnswersStayFresh DEF StoreInv, TokenInv, pageVars

-----------------------------------------------------------------------------
(* The page *)

(* Only one refresh of the page is under way, and it presents the token    *)
(* that the page has.                                                      *)
LEMMA RefreshKeepsTokens ==
  ASSUME StoreInv, NEW c \in Calls, Refresh(c)
  PROVE  TokenInv' /\ store \notin presented
<1>1. /\ store # 0 /\ store' = store /\ presented' = presented \union {store}
      /\ UNCHANGED <<issued, answer>> /\ isRefreshing' /\ ~isRefreshing
  BY DEF Refresh, serverVars, sessions
<1>2. NoNewAnswer
  BY <1>1, AnswerIsNotNew DEF StoreInv, TokenInv, TokensTyped
<1>3. TokensTyped' /\ AnswersAreFresh'
  BY <1>1, <1>2, AnswersStayFresh DEF StoreInv
<1> QED BY <1>1, <1>3 DEF StoreInv, TokenInv

(* An answer read becomes the token of the page, or a refusal leaves none. *)
LEMMA AnswerKeepsTokens ==
  ASSUME StoreInv,
         \/ \E c \in Calls : RefreshSucceeds(c) \/ RefreshFails(c)
         \/ SignIn
  PROVE  TokenInv'
<1>1. Calls \subseteq Callers /\ Page \in Callers
  BY CallersAreKnown
<1>2. PICK c \in Callers : /\ ReadAnswer(c)
                          /\ \/ store' = answer[c] /\ c \in Answers
                             \/ store' = 0
                             \/ store' = store /\ isRefreshing' = isRefreshing
  BY <1>1 DEF RefreshSucceeds, RefreshFails, SignIn, Answers
<1>3. NoNewAnswer /\ answer'[c] = None /\ UNCHANGED <<issued, presented>>
  BY <1>2, AnswerIsNotNew DEF ReadAnswer, StoreInv, TokenInv, TokensTyped
<1>4. TokensTyped' /\ AnswersAreFresh'
  BY <1>2, <1>3, AnswersStayFresh DEF StoreInv
<1>5. store' \in presented' => isRefreshing'
  BY <1>2, <1>3 DEF StoreInv, TokenInv, TokensTyped, AnswersAreFresh
<1> QED BY <1>4, <1>5 DEF TokenInv

(* What else the page does, or a network that loses its answer. *)
LEMMA PageKeepsTokens ==
  ASSUME StoreInv,
         \/ \E c \in Calls : \/ Send(c) \/ Settle(c) \/ Reject(c) \/ Queue(c) \/ LoseRefresh(c)
                            \/ \E w \in Workers : TakeRefresh(w, c)
         \/ \E c \in Callers : LoseAnswer(c)
         \/ SignOut \/ Reload
  PROVE  TokenInv'
<1>1. CASE Reload
  <2>1. /\ UNCHANGED <<issued, store>> /\ presented' = {}
        /\ answer' = [c \in Callers |-> None]
    BY <1>1 DEF Reload
  <2>2. NoNewAnswer
    BY <2>1 DEF NoNewAnswer
  <2> QED BY <2>1, <2>2, AnswersStayFresh DEF StoreInv, TokenInv
<1>2. CASE ~Reload
  <2>1. /\ UNCHANGED <<issued, presented, isRefreshing>>
        /\ store' = store \/ store' = 0
        /\ \E c : Answered(c, 0) \/ UNCHANGED answer
    BY <1>2 DEF Send, Settle, Reject, Queue, LoseRefresh, TakeRefresh, LoseAnswer, SignOut,
                serverVars, sessions, pageVars
  <2>2. NoNewAnswer
    BY <2>1, AnswerIsNotNew DEF StoreInv, TokenInv
  <2>3. TokensTyped' /\ AnswersAreFresh'
    BY <2>1, <2>2, AnswersStayFresh DEF StoreInv
  <2>4. 0 \notin presented
    BY DEF StoreInv, TokenInv, TokensTyped
  <2> QED BY <2>1, <2>3, <2>4 DEF StoreInv, TokenInv
<1> QED BY <1>1, <1>2

(* Of the page's steps only a refresh and a reload touch the requests. *)
LEMMA PageKeepsRequesters ==
  ASSUME StoreInv,
         \/ \E c \in Calls : Send(c) \/ Interceptor(c) \/ Network(c)
         \/ \E c \in Callers : LoseAnswer(c)
         \/ SignIn \/ SignOut \/ Reload
  PROVE  Requesters'
<1>1. ASSUME NEW c \in Calls, Send(c) \/ Interceptor(c)
      PROVE  UNCHANGED req
  BY <1>1 DEF Send, Interceptor, Settle, Reject, Queue, Refresh, RefreshSucceeds, RefreshFails,
              ReadAnswer, serverVars
<1>2. ASSUME NEW c \in Calls, NEW w \in Workers, TakeRefresh(w, c)
      PROVE  Requesters'
  BY <1>2, ContinuesKeepsRequesters DEF TakeRefresh, StoreInv, IInv
<1>3. ASSUME \/ \E c \in Calls : LoseRefresh(c)
             \/ \E c \in Callers : LoseAnswer(c)
             \/ SignIn \/ SignOut
      PROVE  UNCHANGED req
  BY <1>3 DEF LoseRefresh, LoseAnswer, SignIn, SignOut, ReadAnswer
<1>4. ASSUME Reload
      PROVE  Requesters'
  <2>1. req' = [w \in Workers |-> [req[w] EXCEPT !.caller = None]]
    BY <1>4 DEF Reload
  <2>2. ASSUME NEW w \in Workers
        PROVE  req'[w].user = req[w].user
    <3> DEFINE r == req[w]
    <3>1. req'[w] = [r EXCEPT !.caller = None] /\ DOMAIN r = Fields
      BY <2>1 DEF StoreInv, IInv, Typed
    <3> HIDE DEF r
    <3>2. req'[w].user = r.user
      BY <3>1 DEF Fields
    <3> QED BY <3>2 DEF r
  <2> QED BY <2>2 DEF StoreInv, Requesters
<1>5. UNCHANGED req => Requesters'
  BY DEF StoreInv, Requesters
<1> QED
  BY <1>1, <1>2, <1>3, <1>4, <1>5 DEF Network

-----------------------------------------------------------------------------
(* Only Refresh makes a call refresh. *)

LeftAlone(c) ==
  /\ DOMAIN call'[c] = {"pc", "retry", "token"}
  /\ call'[c].pc = "refreshing" => CallIs(c, "refreshing")

LEMMA OnlyRefreshPresents ==
  ASSUME CallsTyped, [Next]_vars
  PROVE  /\ CallsTyped'
         /\ \A c \in Calls : LeftAlone(c) \/ (Refresh(c) /\ call'[c].token = store)
<1>1. ASSUME NEW c \in Calls, NEW pc, pc # "refreshing", CallGoes(c, pc)
      PROVE  DOMAIN call' = Calls /\ \A d \in Calls : LeftAlone(d)
  BY <1>1 DEF CallsTyped, CallGoes, LeftAlone, CallIs
<1>2. UNCHANGED call => DOMAIN call' = Calls /\ \A d \in Calls : LeftAlone(d)
  BY DEF CallsTyped, LeftAlone, CallIs
<1>3. ASSUME NEW c \in Calls, Queue(c) \/ Refresh(c)
      PROVE  /\ DOMAIN call' = Calls
             /\ \A d \in Calls \ {c} : LeftAlone(d)
             /\ DOMAIN call'[c] = {"pc", "retry", "token"}
             /\ LeftAlone(c) \/ (Refresh(c) /\ call'[c].token = store)
  BY <1>3 DEF Queue, Refresh, CallsTyped, LeftAlone, CallIs
<1>4. ASSUME NEW pc, pc # "refreshing", DOMAIN call' = Calls,
             \A d \in Calls : call'[d] \in {call[d], [call[d] EXCEPT !.pc = pc, !.token = 0]}
      PROVE  \A d \in Calls : LeftAlone(d)
  <2> SUFFICES ASSUME NEW d \in Calls
               PROVE  LeftAlone(d)
    OBVIOUS
  <2> DEFINE r == call[d]
  <2>1. DOMAIN r = {"pc", "retry", "token"}
    BY DEF CallsTyped
  <2>2. call'[d] \in {r, [r EXCEPT !.pc = pc, !.token = 0]}
    BY <1>4
  <2> HIDE DEF r
  <2>3. /\ DOMAIN call'[d] = {"pc", "retry", "token"}
        /\ call'[d].pc = "refreshing" => r.pc = "refreshing"
    BY <1>4, <2>1, <2>2
  <2> QED BY <2>3 DEF r, LeftAlone, CallIs
<1> DEFINE Goal == DOMAIN call' = Calls
                   /\ \A c \in Calls : /\ DOMAIN call'[c] = {"pc", "retry", "token"}
                                       /\ LeftAlone(c) \/ (Refresh(c) /\ call'[c].token = store)
<1>5. DOMAIN call' = Calls /\ (\A d \in Calls : LeftAlone(d)) => Goal
  BY DEF LeftAlone
<1>6. ASSUME NEW c \in Calls, Send(c) \/ Settle(c) \/ Reject(c) \/ Network(c)
      PROVE  Goal
  BY <1>1, <1>5, <1>6 DEF Send, Settle, Reject, Network, LoseRefresh, TakeRefresh
<1>7. ASSUME NEW c \in Calls, Queue(c) \/ Refresh(c)
      PROVE  Goal
  BY <1>3, <1>7 DEF LeftAlone
<1>8. ASSUME NEW c \in Calls, RefreshSucceeds(c) \/ RefreshFails(c)
      PROVE  Goal
  <2>1. PICK pc \in {"sent", "settled"} :
          call' = [d \in Calls |-> IF d = c \/ CallIs(d, "queued")
                                     THEN [call[d] EXCEPT !.pc = pc, !.token = 0] ELSE call[d]]
    BY <1>8 DEF RefreshSucceeds, RefreshFails
  <2>2. /\ DOMAIN call' = Calls
        /\ \A d \in Calls : call'[d] \in {call[d], [call[d] EXCEPT !.pc = pc, !.token = 0]}
    BY <2>1
  <2> QED BY <2>2, <1>4, <1>5
<1>9. CASE Reload
  <2>1. call' = [d \in Calls |-> IF CallIs(d, "unsent") THEN call[d]
                                 ELSE [call[d] EXCEPT !.pc = "settled", !.token = 0]]
    BY <1>9 DEF Reload
  <2>2. /\ DOMAIN call' = Calls
        /\ \A d \in Calls : call'[d] \in {call[d], [call[d] EXCEPT !.pc = "settled", !.token = 0]}
    BY <2>1
  <2>3. Goal
    BY <2>2, <1>4, <1>5
  <2> QED BY <2>3 DEF CallsTyped
<1>10. CASE UNCHANGED call
  BY <1>2, <1>5, <1>10 DEF CallsTyped
<1>11. \/ \E c \in Calls : Send(c) \/ Interceptor(c) \/ Network(c)
       \/ Reload \/ UNCHANGED call
  BY DEF Next, LoseAnswer, SignIn, SignOut, pageVars, vars
<1> QED
  BY <1>6, <1>7, <1>8, <1>9, <1>10, <1>11 DEF Interceptor, CallsTyped

LEMMA StepKeepsTokens ==
  ASSUME StoreInv, [Next]_vars
  PROVE  StoreInv'
<1> SUFFICES Requesters' /\ TokenInv'
  BY StepKeepsAll, OnlyRefreshPresents DEF StoreInv
<1>1. CASE \/ \E c \in Calls : Send(c) \/ Interceptor(c) \/ Network(c)
           \/ \E c \in Callers : LoseAnswer(c)
           \/ SignIn \/ SignOut \/ Reload
  <2>1. TokenInv'
    BY <1>1, RefreshKeepsTokens, AnswerKeepsTokens, PageKeepsTokens DEF Interceptor, Network
  <2> QED BY <1>1, <2>1, PageKeepsRequesters
<1>2. ASSUME NEW c \in {Page, None}, AccountRequest(c), UNCHANGED pageVars
      PROVE  Requesters' /\ TokenInv'
  <2>1. Requesters' /\ UNCHANGED <<issued, answer>>
    BY <1>2, AccountRequestKeepsTokens DEF StoreInv, IInv
  <2> QED BY <1>2, <2>1, SameTokens DEF StoreInv
<1>3. ASSUME NEW w \in Workers, Statement(w) \/ Fail(w), UNCHANGED pageVars
      PROVE  Requesters' /\ TokenInv'
  BY <1>3, IssueKeepsTokens, OthersKeepTokens DEF Statement
<1>4. CASE UNCHANGED vars
  <2>1. UNCHANGED <<req, issued, answer>> /\ UNCHANGED pageVars
    BY <1>4 DEF vars, serverVars, sessions
  <2> QED BY <2>1, SameTokens DEF StoreInv, Requesters
<1> QED
  BY <1>1, <1>2, <1>3, <1>4 DEF Next

(* However many calls of a page are refused together, and whatever is      *)
(* signed in, refreshed elsewhere, lost or loaded again between, a page    *)
(* presents no refresh token twice: the interceptor of api-client.ts.      *)
THEOREM TokenIsPresentedOnce == Spec => RefreshTokenPresentedOnce
<1>1. Init => StoreInv
  <2> SUFFICES ASSUME Init PROVE StoreInv
    OBVIOUS
  <2>1. PICK u \in Users : issued = <<u>>
    BY DEF Init
  <2>2. /\ req = [w \in Workers |-> Idle] /\ answer = [c \in Callers |-> None]
        /\ store = 1 /\ presented = {}
    BY DEF Init
  <2>3. issued \in Seq(Users \union {None}) /\ Len(issued) = 1
    BY <2>1
  <2>4. Requesters /\ TokensTyped /\ Answers = {}
    BY <2>2, <2>3 DEF Requesters, TokensTyped, Answers, Idle
  <2>5. CallsTyped
    BY DEF Init, CallsTyped
  <2> QED BY <2>2, <2>4, <2>5, InitHoldsAll DEF StoreInv, TokenInv, AnswersAreFresh
<1>2. StoreInv /\ [Next]_vars => StoreInv'
  BY StepKeepsTokens
<1> DEFINE Step == \A c \in Calls : ~CallIs(c, "refreshing") /\ call'[c].pc = "refreshing"
                                     => call'[c].token \notin presented
<1>3. StoreInv /\ [Next]_vars => [Step]_<<call, presented>>
  <2> SUFFICES ASSUME StoreInv, [Next]_vars, NEW c \in Calls,
                      ~CallIs(c, "refreshing"), call'[c].pc = "refreshing"
               PROVE  call'[c].token \notin presented
    OBVIOUS
  <2>1. Refresh(c) /\ call'[c].token = store
    BY OnlyRefreshPresents DEF StoreInv, LeftAlone
  <2> QED BY <2>1, RefreshKeepsTokens
<1> QED
  BY <1>1, <1>2, <1>3, PTL DEF Spec, RefreshTokenPresentedOnce
=============================================================================
