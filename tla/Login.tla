------------------------------- MODULE Login -------------------------------
(***************************************************************************)
(* Sign-in to the /app pages through an OpenID Connect provider: the       *)
(* handlers OIDCLogin and OIDCCallback of cmd/api/handlers/app_oidc.go and *)
(* the client of internal/pkg/auth/oidc, with browsers that open several   *)
(* tabs, reload pages, open URLs put together from elsewhere and get       *)
(* responses late, in another order or not at all.                         *)
(*                                                                         *)
(* A flow stands for its three fresh secrets (state, nonce and PKCE        *)
(* verifier).  The server keeps none of it: all there is of a flow is the  *)
(* sealed cookie in the browser, which nobody can alter, so a cookie is    *)
(* named by its flow and the content of the seal is in started.            *)
(***************************************************************************)
EXTENDS Naturals

CONSTANTS
  Browsers,
  Flows,         \* secrets that will ever be drawn
  Codes,         \* authorization codes the provider will ever issue
  NoCode,        \* no code in the URL
  People,        \* persons who sign in at the provider
  Allowed,       \* those whose verified email is in an allowed domain
  ChecksPKCE,    \* whether the provider compares the verifier of a flow
  KeepsSecret,   \* whether AUTH_JWT_SECRET is set, so a restart keeps the key
  TTL,           \* oidcFlowTTL
  MaxClock,      \* bound: how far time goes
  MaxRestarts,   \* bound: how often the server restarts
  Requests,      \* callbacks that may be in progress at once
  None           \* no flow, no browser, no person

ASSUME LoginAssumption ==
  /\ NoCode \notin Codes
  /\ None \notin Flows \cup Browsers \cup People
  /\ Allowed \subseteq People
  /\ {ChecksPKCE, KeepsSecret} \subseteq BOOLEAN
  /\ TTL \in Nat /\ MaxClock \in Nat /\ MaxRestarts \in Nat

VARIABLES
  clock,
  key,       \* which key seals the cookies: the number of the random one
  started,   \* for each flow that was started: the browser, and its seal
  sent,      \* flows whose login was answered: the browser has no answer yet
  cookie,    \* flow cookie of each browser
  issued,    \* codes the provider has issued: flow, and person signed in there
  redeemed,  \* codes it has taken back for tokens
  req,       \* callbacks in progress
  session,   \* session cookie of each browser: who signed in with it
  cleared    \* flows whose cookie a later answer took from the browser early

vars == <<clock, key, started, sent, cookie, issued, redeemed, req, session,
          cleared>>

Seal == [browser: Browsers, expires: Nat, key: Nat]
NotStarted == [browser |-> None, expires |-> 0, key |-> 0]
Grant == [code: Codes, flow: Flows, person: People]

\* The parameters of a callback.
Query ==
  [state: Flows \cup {None}, code: Codes \cup {NoCode}, error: BOOLEAN]

Outcomes ==
  {"none", "cancelled", "expired", "mismatch", "no_code", "unverified",
   "not_allowed", "refused", "signed_in"}

Callback ==
  [step: {"idle", "exchange", "sign_in", "respond"},
   browser: Browsers \cup {None},
   state: Flows \cup {None},       \* the state parameter
   code: Codes \cup {NoCode},      \* the code parameter, for the exchange
   flow: Flows \cup {None},        \* the flow the cookie was opened to
   person: People \cup {None},     \* the identity the ID token proves
   outcome: Outcomes]

Idle ==
  [step |-> "idle", browser |-> None, state |-> None, code |-> NoCode,
   flow |-> None, person |-> None, outcome |-> "none"]

WellFormed(q) ==
  /\ q.step # "idle" => q.browser \in Browsers
  /\ q.step \in {"exchange", "sign_in"} => q.flow \in Flows /\ q.code \in Codes
  /\ q.step = "sign_in" \/ q.outcome = "signed_in" => q.person \in People

TypeOK ==
  /\ clock \in Nat /\ key \in Nat
  /\ started \in [Flows -> Seal \cup {NotStarted}]
  /\ sent \in SUBSET Flows
  /\ cookie \in [Browsers -> Flows \cup {None}]
  /\ issued \in SUBSET Grant
  /\ redeemed \in SUBSET Codes
  /\ req \in [Requests -> Callback]
  /\ \A r \in Requests : WellFormed(req[r])
  /\ session \in [Browsers -> People \cup {None}]
  /\ cleared \in SUBSET Flows

Init ==
  /\ clock = 0 /\ key = 0
  /\ started = [f \in Flows |-> NotStarted]
  /\ cookie = [b \in Browsers |-> None]
  /\ sent = {} /\ issued = {} /\ redeemed = {}
  /\ req = [r \in Requests |-> Idle]
  /\ session = [b \in Browsers |-> None]
  /\ cleared = {}

Started(f) == started[f] # NotStarted

\* The browser that started flow f has been redirected: only from then on is
\* the state of f known outside the server.
Known(f) == Started(f) /\ f \notin sent

-----------------------------------------------------------------------------
(* The redirect to the provider, and back.                                 *)

\* OIDCLogin draws the secrets, seals them in a cookie and redirects.
OIDCLogin(b) ==
  /\ \E f \in Flows :
       /\ ~Started(f)
       /\ started' = [started EXCEPT ![f] =
            [browser |-> b, expires |-> clock + TTL, key |-> key]]
       /\ sent' = sent \cup {f}
  /\ UNCHANGED <<clock, key, cookie, issued, redeemed, req, session, cleared>>

\* The seal of flow g lasts longer than that of flow f, or is of a later key.
Outlasts(g, f) ==
  \/ started[g].expires > started[f].expires
  \/ started[g].key > started[f].key

\* The browser gets that answer.  The cookie takes the place of the one of any
\* other flow, also of a younger one whose answer was faster.
Redirected(f) ==
  LET b == started[f].browser IN
  /\ f \in sent
  /\ sent' = sent \ {f}
  /\ cookie' = [cookie EXCEPT ![b] = f]
  /\ cleared' = cleared \cup
       {g \in Flows : Known(g) /\ started[g].browser = b /\ Outlasts(g, f)}
  /\ UNCHANGED <<clock, key, started, issued, redeemed, req, session>>

\* At the provider a person signs in, for a flow whose redirect the browser
\* followed, perhaps once more after going back.
Authorize(f, p) ==
  /\ Known(f)
  /\ \E c \in Codes :
       /\ \A g \in issued : g.code # c
       /\ issued' = issued \cup {[code |-> c, flow |-> f, person |-> p]}
  /\ UNCHANGED <<clock, key, started, sent, cookie, redeemed, req, session,
                 cleared>>

-----------------------------------------------------------------------------
(* The callback.                                                           *)

\* The queries a callback can come with: any state and any code there is, of
\* whichever flows, or none.  A code that was never issued is answered like one
\* that was redeemed.
Queries ==
  {u \in Query : /\ u.state # None => Known(u.state)
                 /\ u.code # NoCode => \E g \in issued : g.code = u.code}

\* Request r comes from browser b with query u; its handler answers it.
Reject(r, b, u, outcome) ==
  req' = [req EXCEPT ![r] =
    [Idle EXCEPT !.step = "respond", !.browser = b, !.state = u.state,
                 !.outcome = outcome]]

\* Its handler has opened the cookie and goes on to the exchange.
Accept(r, b, u) ==
  req' = [req EXCEPT ![r] =
    [Idle EXCEPT !.step = "exchange", !.browser = b, !.state = u.state,
                 !.code = u.code, !.flow = cookie[b]]]

\* open accepts the seal of the cookie in browser b.
Opens(b) ==
  /\ cookie[b] # None
  /\ started[cookie[b]].key = key
  /\ clock <= started[cookie[b]].expires

\* OIDCCallback, up to the exchange: browser b requests the callback with query
\* u, which may be an old one, one it has used before, one from another browser
\* or one put together from several.  Between the request and the checks only
\* time and the key could change.
OIDCCallback(r, b, u) ==
  /\ req[r].step = "idle"
  /\ \/ u.error /\ Reject(r, b, u, "cancelled")
     \/ ~u.error /\ ~Opens(b) /\ Reject(r, b, u, "expired")
     \/ /\ ~u.error /\ Opens(b) /\ u.state # cookie[b]
        /\ Reject(r, b, u, "mismatch")
     \/ /\ ~u.error /\ Opens(b) /\ u.state = cookie[b] /\ u.code = NoCode
        /\ Reject(r, b, u, "no_code")
     \/ /\ ~u.error /\ Opens(b) /\ u.state = cookie[b] /\ u.code # NoCode
        /\ Accept(r, b, u)
  /\ UNCHANGED <<clock, key, started, sent, cookie, issued, redeemed, session,
                 cleared>>

Respond(r, outcome) ==
  req' = [req EXCEPT ![r].step = "respond", ![r].outcome = outcome]

\* The provider redeems a code once, for the flow it was issued for.
Redeems(q, g) ==
  /\ g.code = q.code
  /\ g.code \notin redeemed
  /\ ChecksPKCE => g.flow = q.flow

\* Fault: the handler goes on after an error.
ExchangeRegardless(r) ==
  /\ req[r].step = "exchange"
  /\ req' = [req EXCEPT ![r].step = "sign_in"]
  /\ UNCHANGED <<clock, key, started, sent, cookie, issued, redeemed, session,
                 cleared>>

\* Fault: the nonce of the ID token is not compared.
ExchangeAnyNonce(r) ==
  /\ req[r].step = "exchange"
  /\ \/ Respond(r, "unverified") /\ UNCHANGED redeemed
     \/ \E g \in issued :
          /\ Redeems(req[r], g)
          /\ redeemed' = redeemed \cup {g.code}
          /\ IF g.person \notin Allowed
               THEN Respond(r, "not_allowed")
               ELSE req' = [req EXCEPT ![r].step = "sign_in",
                                       ![r].person = g.person]
  /\ UNCHANGED <<clock, key, started, sent, cookie, issued, session, cleared>>

\* Exchange fails, or yields an ID token whose nonce must be that of the flow
\* and whose email must be allowed.
Exchange(r) ==
  /\ req[r].step = "exchange"
  /\ \/ Respond(r, "unverified") /\ UNCHANGED redeemed
     \/ \E g \in issued :
          /\ Redeems(req[r], g)
          /\ redeemed' = redeemed \cup {g.code}
          /\ IF g.flow # req[r].flow
               THEN Respond(r, "unverified")
             ELSE IF g.person \notin Allowed
               THEN Respond(r, "not_allowed")
             ELSE req' = [req EXCEPT ![r].step = "sign_in",
                                     ![r].person = g.person]
  /\ UNCHANGED <<clock, key, started, sent, cookie, issued, session, cleared>>

\* SignInExternal issues a token or refuses; see Accounts.
SignInExternal(r) ==
  /\ req[r].step = "sign_in"
  /\ Respond(r, "signed_in") \/ Respond(r, "refused")
  /\ UNCHANGED <<clock, key, started, sent, cookie, issued, redeemed, session,
                 cleared>>

\* The session cookie that the answer to r sets, if it signs in.
SetsSession(r) ==
  session' = IF req[r].outcome = "signed_in"
               THEN [session EXCEPT ![req[r].browser] = req[r].person]
               ELSE session

\* The flows that browser b has been redirected for are over.
EndsFlows(b) ==
  cleared' = cleared \cup {f \in Flows : Known(f) /\ started[f].browser = b}

\* Fault: only a sign-in clears the flow cookie.
DeliverKeepingFlow(r) ==
  /\ req[r].step = "respond"
  /\ LET b == req[r].browser
     IN  /\ cookie' = IF req[r].outcome = "signed_in"
                        THEN [cookie EXCEPT ![b] = None] ELSE cookie
         /\ EndsFlows(b)
  /\ SetsSession(r)
  /\ req' = [req EXCEPT ![r] = Idle]
  /\ UNCHANGED <<clock, key, started, sent, issued, redeemed>>

\* The browser gets the answer, which clears the flow cookie whatever flow it
\* holds by now, and sets the session cookie of a sign-in.
Deliver(r) ==
  /\ req[r].step = "respond"
  /\ LET b == req[r].browser
     IN  cookie' = [cookie EXCEPT ![b] = None] /\ EndsFlows(b)
  /\ SetsSession(r)
  /\ req' = [req EXCEPT ![r] = Idle]
  /\ UNCHANGED <<clock, key, started, sent, issued, redeemed>>

-----------------------------------------------------------------------------
(* The environment.                                                        *)

\* The browser gives up on a request, or loses its response.
Lose(r) ==
  /\ req[r].step # "idle"
  /\ req' = [req EXCEPT ![r] = Idle]
  /\ UNCHANGED <<clock, key, started, sent, cookie, issued, redeemed, session,
                 cleared>>

\* The cookie's Max-Age is over.
Forget(b) ==
  /\ cookie[b] # None
  /\ clock >= started[cookie[b]].expires
  /\ cookie' = [cookie EXCEPT ![b] = None]
  /\ UNCHANGED <<clock, key, started, sent, issued, redeemed, req, session,
                 cleared>>

SignOut(b) ==
  /\ session[b] # None
  /\ session' = [session EXCEPT ![b] = None]
  /\ UNCHANGED <<clock, key, started, sent, cookie, issued, redeemed, req,
                 cleared>>

Tick ==
  /\ clock < MaxClock
  /\ clock' = clock + 1
  /\ UNCHANGED <<key, started, sent, cookie, issued, redeemed, req, session,
                 cleared>>

\* Fault: the key is drawn at random although a secret is set.
RestartWithRandomKey ==
  /\ key < MaxRestarts
  /\ key' = key + 1
  /\ req' = [r \in Requests |-> Idle]
  /\ UNCHANGED <<clock, started, sent, cookie, issued, redeemed, session,
                 cleared>>

\* The process stops and starts again.
Restart ==
  /\ key < MaxRestarts
  /\ key' = IF KeepsSecret THEN key ELSE key + 1
  /\ req' = [r \in Requests |-> Idle]
  /\ UNCHANGED <<clock, started, sent, cookie, issued, redeemed, session,
                 cleared>>

Next ==
  \/ Tick \/ Restart
  \/ \E b \in Browsers : OIDCLogin(b) \/ Forget(b) \/ SignOut(b)
  \/ \E f \in Flows : Redirected(f) \/ \E p \in People : Authorize(f, p)
  \/ \E r \in Requests :
       \/ \E b \in Browsers, u \in Queries : OIDCCallback(r, b, u)
       \/ Exchange(r) \/ SignInExternal(r) \/ Deliver(r) \/ Lose(r)

Spec == Init /\ [][Next]_vars

-----------------------------------------------------------------------------
(* Properties.                                                             *)

\* A browser's session is that of a person who is allowed to sign in and did,
\* at the provider, for a flow this browser started: also when the callback
\* comes with the state of that flow and the code of another one, and whether
\* or not the provider checks the PKCE verifier.
SessionsAreOwn ==
  \A b \in Browsers : session[b] # None =>
    \E g \in issued :
      /\ g.person = session[b] /\ g.person \in Allowed
      /\ g.code \in redeemed
      /\ started[g.flow].browser = b

\* Once a browser has had the answer of a callback, whatever it was, none that
\* it sends from then on takes a flow it had been redirected for before to the
\* provider: a reload, another tab or a copy of the URL finds no cookie, or that
\* of a flow of its own.
AnsweredFlowsAreOver ==
  [][\A r \in Requests :
       req[r].step = "idle" /\ req'[r].step = "exchange" =>
         req'[r].flow \notin cleared]_vars

\* What the page says when it finds no flow: the flow is over its ten minutes,
\* or was started in another browser, or with a key the server has lost, or
\* its cookie was cleared by another callback's answer in this browser, or
\* replaced there by the late answer of an older login.
ExpiredAnswerIsTrue ==
  \A r \in Requests : req[r].outcome = "expired" /\ req[r].state # None =>
    LET f == req[r].state
    IN  \/ clock >= started[f].expires
        \/ started[f].browser # req[r].browser
        \/ ~KeepsSecret /\ started[f].key < key
        \/ f \in cleared
=============================================================================
