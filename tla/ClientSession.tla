---------------------------- MODULE ClientSession ----------------------------
(***************************************************************************)
(* A page of the shop and its session (api-client.ts, auth-store.ts): calls*)
(* to the API that find the access token refused are sent again after one  *)
(* refresh, for which the others wait, while the server of Accounts works  *)
(* on the requests of this page and of others.                             *)
(*                                                                         *)
(* A handler of the page runs without interruption to its next await.      *)
(* Answers may be lost, and the page may be loaded again.                  *)
(***************************************************************************)
EXTENDS Accounts

CONSTANTS
  Calls,        \* calls to the API, each made once
  Page,         \* the page itself, as the caller of a sign-in
  Beginnings    \* accounts and links that there may be at the start

ASSUME CallersAreKnown == Callers = Calls \union {Page} /\ Page \notin Calls
ASSUME BeginningsAreSound ==
  \A b \in Beginnings :
    /\ b.account \in [Users -> [exists : BOOLEAN, password : Nat, session : Nat]]
    /\ \A u \in Users : b.account[u].exists =>
         b.account[u].password # 0 \/ \E l \in b.links : l[1] = u

VARIABLES
  store,        \* auth-store: the pair of tokens, 0 when signed out
  call,         \* what each call is doing, whether it will not be sent again,
                \* and the refresh token it presents
  isRefreshing,
  presented     \* history: refresh tokens presented since the page was loaded

pageVars == <<store, call, isRefreshing, presented>>
vars == <<serverVars, pageVars>>

(* A session of somebody is open, on this page. *)
Init ==
  /\ \E b \in Beginnings : account = b.account /\ links = b.links
  /\ \E u \in Users : account[u].session = 1 /\ issued = <<u>>
  /\ revoked = {}
  /\ reset = [u \in Users |-> "none"]
  /\ tickets = {}
  /\ codes = [u \in Users |-> 0]
  /\ req = [w \in Workers |-> Idle]
  /\ answer = [c \in Callers |-> None]
  /\ requests = 0
  /\ changed = [u \in Users |-> 0]
  /\ since = [u \in Users |-> 0]
  /\ excused = [u \in Users |-> FALSE]
  /\ store = 1
  /\ call = [c \in Calls |-> [pc |-> "unsent", retry |-> FALSE, token |-> 0]]
  /\ isRefreshing = FALSE
  /\ presented = {}

-----------------------------------------------------------------------------
(* The interceptors *)

CallIs(c, pc) == call[c].pc = pc
CallGoes(c, pc) == call' = [call EXCEPT ![c].pc = pc]

Send(c) ==
  /\ CallIs(c, "unsent")
  /\ Counted
  /\ CallGoes(c, "sent")
  /\ UNCHANGED <<account, links, oneTime, sessions, req, history,
                 store, isRefreshing, presented>>

(* An answer that is not 401, or none. *)
Settle(c) ==
  /\ CallIs(c, "sent")
  /\ CallGoes(c, "settled")
  /\ UNCHANGED <<serverVars, store, isRefreshing, presented>>

(* 401: rejected if it was sent again already, or nobody is signed in. *)
Reject(c) ==
  /\ CallIs(c, "sent")
  /\ call[c].retry \/ store = 0
  /\ CallGoes(c, "settled")
  /\ UNCHANGED <<serverVars, store, isRefreshing, presented>>

(* Another call refreshes: this one waits in pendingQueue. *)
Queue(c) ==
  /\ CallIs(c, "sent") /\ ~call[c].retry /\ store # 0
  /\ isRefreshing
  /\ call' = [call EXCEPT ![c] = [pc |-> "queued", retry |-> TRUE, token |-> 0]]
  /\ UNCHANGED <<serverVars, store, isRefreshing, presented>>

(* Mutant: whether another call refreshes is not asked. *)
RefreshAnyway(c) ==
  /\ CallIs(c, "sent") /\ ~call[c].retry /\ store # 0
  /\ isRefreshing' = TRUE
  /\ presented' = presented \union {store}
  /\ call' = [call EXCEPT ![c] = [pc |-> "refreshing", retry |-> TRUE, token |-> store]]
  /\ UNCHANGED <<serverVars, store>>

Refresh(c) ==
  /\ CallIs(c, "sent") /\ ~call[c].retry /\ store # 0
  /\ ~isRefreshing
  /\ isRefreshing' = TRUE
  /\ presented' = presented \union {store}
  /\ call' = [call EXCEPT ![c] = [pc |-> "refreshing", retry |-> TRUE, token |-> store]]
  /\ UNCHANGED <<serverVars, store>>

(* /auth/refresh reaches the server, which compares the token ... *)
TakeRefresh(w, c) ==
  /\ CallIs(c, "refreshing")
  /\ \E u \in Users : Continues(w, u, call[c].token, c)
  /\ CallGoes(c, "awaiting")
  /\ UNCHANGED <<account, links, oneTime, sessions, requests, history,
                 store, isRefreshing, presented>>

(* ... and refuses one that is not the last it has issued; or the server   *)
(* is not reached.                                                         *)
LoseRefresh(c) ==
  /\ CallIs(c, "refreshing")
  /\ Answered(c, 0)
  /\ CallGoes(c, "awaiting")
  /\ UNCHANGED <<account, links, oneTime, issued, revoked, req, requests, history,
                 store, isRefreshing, presented>>

(* Its answer is lost. *)
LoseAnswer(c) ==
  /\ answer[c] \notin {None, 0}
  /\ Answered(c, 0)
  /\ UNCHANGED <<account, links, oneTime, issued, revoked, req, requests, history, pageVars>>

ReadAnswer(c) ==
  /\ answer' = [answer EXCEPT ![c] = None]
  /\ UNCHANGED <<account, links, oneTime, issued, revoked, req, requests, history, presented>>

(* setTokens, flushQueue: this call and those that wait are sent again. *)
RefreshSucceeds(c) ==
  /\ CallIs(c, "awaiting") /\ answer[c] \notin {None, 0}
  /\ store' = answer[c]
  /\ call' = [d \in Calls |-> IF d = c \/ CallIs(d, "queued")
                                THEN [call[d] EXCEPT !.pc = "sent", !.token = 0] ELSE call[d]]
  /\ isRefreshing' = FALSE
  /\ ReadAnswer(c)

(* Mutant: the calls that wait are not told. *)
FailAlone(c) ==
  /\ CallIs(c, "awaiting") /\ answer[c] = 0
  /\ store' = 0
  /\ call' = [call EXCEPT ![c].pc = "settled", ![c].token = 0]
  /\ isRefreshing' = FALSE
  /\ ReadAnswer(c)

(* flushQueue(null), clearAuth: all of them are rejected. *)
RefreshFails(c) ==
  /\ CallIs(c, "awaiting") /\ answer[c] = 0
  /\ store' = 0
  /\ call' = [d \in Calls |-> IF d = c \/ CallIs(d, "queued")
                                THEN [call[d] EXCEPT !.pc = "settled", !.token = 0] ELSE call[d]]
  /\ isRefreshing' = FALSE
  /\ ReadAnswer(c)

-----------------------------------------------------------------------------
(* The page *)

(* setAuth, when a sign-in has been answered *)
SignIn ==
  /\ answer[Page] # None
  /\ store' = IF answer[Page] = 0 THEN store ELSE answer[Page]
  /\ ReadAnswer(Page)
  /\ UNCHANGED <<call, isRefreshing>>

(* clearAuth, when a logout or a change of the password has been answered *)
SignOut ==
  /\ Counted
  /\ store # 0
  /\ store' = 0
  /\ UNCHANGED <<account, links, oneTime, sessions, req, history, call, isRefreshing, presented>>

(* The page is loaded again: its tokens are in localStorage, its calls are *)
(* gone, and what it waited for goes nowhere.                              *)
Reload ==
  /\ Counted
  /\ call' = [c \in Calls |-> IF CallIs(c, "unsent") THEN call[c]
                              ELSE [call[c] EXCEPT !.pc = "settled", !.token = 0]]
  /\ isRefreshing' = FALSE
  /\ presented' = {}
  /\ answer' = [c \in Callers |-> None]
  /\ req' = [w \in Workers |-> [req[w] EXCEPT !.caller = None]]
  /\ UNCHANGED <<account, links, oneTime, issued, revoked, history, store>>

Interceptor(c) ==
  \/ Settle(c) \/ Reject(c) \/ Queue(c) \/ Refresh(c)
  \/ RefreshSucceeds(c) \/ RefreshFails(c)
Network(c) ==
  \/ LoseRefresh(c)
  \/ \E w \in Workers : TakeRefresh(w, c)

Next ==
  \/ \E c \in Calls : Send(c) \/ Interceptor(c) \/ Network(c)
  \/ \E c \in Callers : LoseAnswer(c)
  \/ SignIn \/ SignOut \/ Reload
  \/ \E c \in {Page, None} : AccountRequest(c) /\ UNCHANGED pageVars
  \/ \E w \in Workers : (Statement(w) \/ Fail(w)) /\ UNCHANGED pageVars

(* The server goes on with a request, every request to it is answered or   *)
(* seen to fail, and the page runs.                                        *)
Fairness ==
  /\ \A w \in Workers : WF_vars(Statement(w) /\ UNCHANGED pageVars)
  /\ \A c \in Calls : WF_vars(Interceptor(c)) /\ WF_vars(Network(c))

Spec == Init /\ [][Next]_vars /\ Fairness

-----------------------------------------------------------------------------
(* However many calls of a page are refused together, and whatever sign-in, *)
(* sign-out or answer comes between, it presents no refresh token twice:    *)
(* the second time it would be refused, and the page signed out.            *)
RefreshTokenPresentedOnce ==
  [][\A c \in Calls : ~CallIs(c, "refreshing") /\ call'[c].pc = "refreshing"
       => call'[c].token \notin presented]_<<call, presented>>

(* No call is left waiting for a refresh: each is answered or rejected.     *)
EveryCallSettles == \A c \in Calls : CallIs(c, "sent") ~> CallIs(c, "settled")
=============================================================================
