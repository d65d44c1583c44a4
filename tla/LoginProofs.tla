---------------------------- MODULE LoginProofs ----------------------------
(***************************************************************************)
(* Proofs about Login, for any browsers, flows, codes, persons and         *)
(* requests, any time to live, and providers that check PKCE or do not.    *)
(***************************************************************************)
EXTENDS Login, TLAPS

USE LoginAssumption

-----------------------------------------------------------------------------
(* Type correctness.                                                       *)

RequestsOK ==
  /\ req \in [Requests -> Callback]
  /\ \A r \in Requests : WellFormed(req[r])

\* One request changes to a well-formed one.
LEMMA ReplaceRequest ==
  ASSUME TypeOK, NEW r \in Requests, NEW q \in Callback, WellFormed(q),
         req' = [req EXCEPT ![r] = q]
  PROVE  RequestsOK'
BY DEF TypeOK, RequestsOK, WellFormed

\* A request that is not in progress is well formed.
LEMMA IdleType == Idle \in Callback /\ WellFormed(Idle)
BY DEF Idle, Callback, WellFormed, Outcomes

\* So is one that has its answer.
LEMMA RespondType ==
  ASSUME TypeOK, NEW r \in Requests, req[r].step # "idle",
         NEW outcome \in Outcomes, Respond(r, outcome),
         outcome = "signed_in" => req[r].step = "sign_in"
  PROVE  RequestsOK'
<1> DEFINE q == [req[r] EXCEPT !.step = "respond", !.outcome = outcome]
<1>1. req[r] \in Callback
  BY DEF TypeOK
<1>2. req' = [req EXCEPT ![r] = q]
  BY DEF Respond, TypeOK
<1>3. q \in Callback
  BY <1>1 DEF Callback
<1>4. WellFormed(q)
  BY <1>1 DEF TypeOK, Callback, WellFormed
<1> QED
  BY <1>2, <1>3, <1>4, ReplaceRequest

\* So is one that has just arrived, answered or not.
LEMMA RejectType ==
  ASSUME TypeOK, NEW r \in Requests, NEW b \in Browsers, NEW u \in Query,
         NEW outcome \in Outcomes, outcome # "signed_in",
         Reject(r, b, u, outcome)
  PROVE  RequestsOK'
<1> DEFINE q == [Idle EXCEPT !.step = "respond", !.browser = b,
                             !.state = u.state, !.outcome = outcome]
<1>1. q \in Callback
  BY DEF Query, Callback, Idle
<1>2. WellFormed(q)
  BY DEF Idle, WellFormed
<1> QED
  BY <1>1, <1>2, ReplaceRequest DEF Reject

LEMMA AcceptType ==
  ASSUME TypeOK, NEW r \in Requests, NEW b \in Browsers, NEW u \in Query,
         u.code # NoCode, cookie[b] # None, Accept(r, b, u)
  PROVE  RequestsOK'
<1> DEFINE q == [Idle EXCEPT !.step = "exchange", !.browser = b,
                             !.state = u.state, !.code = u.code,
                             !.flow = cookie[b]]
<1>1. cookie[b] \in Flows /\ u.code \in Codes
  BY DEF TypeOK, Query
<1>2. q \in Callback
  BY <1>1 DEF Query, Callback, Idle, Outcomes
<1>3. WellFormed(q)
  BY <1>1 DEF Idle, WellFormed
<1> QED
  BY <1>2, <1>3, ReplaceRequest DEF Accept

\* An exchange either answers the request or proves who signs in.
LEMMA ExchangeStep ==
  ASSUME TypeOK, NEW r \in Requests, Exchange(r)
  PROVE  \/ /\ \E o \in {"unverified", "not_allowed"} : Respond(r, o)
            /\ redeemed \subseteq redeemed' /\ redeemed' \subseteq Codes
         \/ \E g \in issued :
              /\ g.flow = req[r].flow /\ g.person \in Allowed
              /\ redeemed' = redeemed \cup {g.code}
              /\ req' = [req EXCEPT ![r] = [req[r] EXCEPT !.step = "sign_in",
                                              !.person = g.person]]
<1>1. CASE Respond(r, "unverified") /\ UNCHANGED redeemed
  BY <1>1 DEF TypeOK
<1>2. ASSUME NEW g \in issued, redeemed' = redeemed \cup {g.code},
             IF g.flow # req[r].flow
               THEN Respond(r, "unverified")
             ELSE IF g.person \notin Allowed
               THEN Respond(r, "not_allowed")
             ELSE req' = [req EXCEPT ![r].step = "sign_in",
                                     ![r].person = g.person]
      PROVE  \/ /\ \E o \in {"unverified", "not_allowed"} : Respond(r, o)
                /\ redeemed \subseteq redeemed' /\ redeemed' \subseteq Codes
             \/ /\ g.flow = req[r].flow /\ g.person \in Allowed
                /\ redeemed' = redeemed \cup {g.code}
                /\ req' = [req EXCEPT ![r] = [req[r] EXCEPT !.step = "sign_in",
                                                !.person = g.person]]
  <2>1. g.code \in Codes /\ redeemed \subseteq Codes
    BY DEF TypeOK, Grant
  <2>2. CASE \E o \in {"unverified", "not_allowed"} : Respond(r, o)
    BY <1>2, <2>1, <2>2
  <2>3. CASE g.flow = req[r].flow /\ g.person \in Allowed
    BY <1>2, <2>3 DEF TypeOK
  <2> QED
    BY <1>2, <2>2, <2>3
<1> QED
  BY <1>1, <1>2 DEF Exchange

\* Every step of a callback keeps the state well typed.
LEMMA CallbackType ==
  ASSUME TypeOK, NEW r \in Requests,
         \/ \E b \in Browsers, u \in Queries : OIDCCallback(r, b, u)
         \/ Exchange(r) \/ SignInExternal(r) \/ Deliver(r) \/ Lose(r)
  PROVE  TypeOK'
<1>1. ASSUME NEW b \in Browsers, NEW u \in Queries, OIDCCallback(r, b, u)
      PROVE  TypeOK'
  <2>1. u \in Query
    BY DEF Queries
  <2>2. ASSUME NEW o \in {"cancelled", "expired", "mismatch", "no_code"},
               Reject(r, b, u, o)
        PROVE  RequestsOK'
    BY <2>1, <2>2, RejectType DEF Outcomes
  <2>3. ASSUME Opens(b), u.code # NoCode, Accept(r, b, u)
        PROVE  RequestsOK'
    <3>1. cookie[b] # None
      BY <2>3 DEF Opens
    <3> QED
      BY <2>1, <2>3, <3>1, AcceptType
  <2>4. \/ \E o \in {"cancelled", "expired", "mismatch", "no_code"} :
             Reject(r, b, u, o)
        \/ Opens(b) /\ u.code # NoCode /\ Accept(r, b, u)
    BY <1>1 DEF OIDCCallback
  <2>5. RequestsOK'
    BY <2>2, <2>3, <2>4
  <2> QED
    BY <1>1, <2>5 DEF OIDCCallback, TypeOK, RequestsOK
<1>2. CASE Exchange(r)
  <2>1. RequestsOK' /\ redeemed' \subseteq Codes
    <3>1. CASE /\ \E o \in {"unverified", "not_allowed"} : Respond(r, o)
               /\ redeemed' \subseteq Codes
      BY <1>2, <3>1, RespondType DEF Outcomes, Exchange
    <3>2. ASSUME NEW g \in issued,
                 g.person \in Allowed, redeemed' = redeemed \cup {g.code},
                 req' = [req EXCEPT ![r] = [req[r] EXCEPT !.step = "sign_in",
                                              !.person = g.person]]
          PROVE  RequestsOK' /\ redeemed' \subseteq Codes
      <4> DEFINE q == [req[r] EXCEPT !.step = "sign_in", !.person = g.person]
      <4>1. req[r] \in Callback /\ req[r].step = "exchange"
        BY <1>2 DEF TypeOK, Exchange
      <4>2. g.person \in People /\ g.code \in Codes
        BY DEF TypeOK, Grant
      <4>3. q \in Callback
        BY <4>1, <4>2 DEF Callback
      <4>4. WellFormed(q)
        BY <4>1, <4>2 DEF TypeOK, Callback, WellFormed
      <4> QED
        BY <3>2, <4>2, <4>3, <4>4, ReplaceRequest DEF TypeOK
    <3> QED
      BY <1>2, <3>1, <3>2, ExchangeStep
  <2> QED
    BY <1>2, <2>1 DEF Exchange, TypeOK, RequestsOK
<1>3. CASE SignInExternal(r)
  <2>1. RequestsOK'
    BY <1>3, RespondType DEF SignInExternal, Outcomes
  <2> QED
    BY <1>3, <2>1 DEF SignInExternal, TypeOK, RequestsOK
<1>4. CASE Deliver(r)
  <2>1. RequestsOK'
    BY <1>4, IdleType, ReplaceRequest DEF Deliver
  <2>2. session' \in [Browsers -> People \cup {None}]
    <3>1. req[r].outcome = "signed_in" => req[r].person \in People
      BY DEF TypeOK, WellFormed
    <3> QED
      BY <1>4, <3>1 DEF Deliver, SetsSession, TypeOK
  <2>3. cookie' \in [Browsers -> Flows \cup {None}] /\ cleared' \in SUBSET Flows
    BY <1>4 DEF Deliver, EndsFlows, TypeOK
  <2> QED
    BY <1>4, <2>1, <2>2, <2>3 DEF Deliver, TypeOK, RequestsOK
<1>5. CASE Lose(r)
  <2>1. RequestsOK'
    BY <1>5, IdleType, ReplaceRequest DEF Lose
  <2> QED
    BY <1>5, <2>1 DEF Lose, TypeOK, RequestsOK
<1> QED
  BY <1>1, <1>2, <1>3, <1>4, <1>5

\* Every step keeps the state well typed.
LEMMA NextType == TypeOK /\ [Next]_vars => TypeOK'
<1> SUFFICES ASSUME TypeOK, [Next]_vars
             PROVE  TypeOK'
  OBVIOUS
<1>1. ASSUME NEW b \in Browsers, OIDCLogin(b)
      PROVE  TypeOK'
  <2>1. PICK f \in Flows :
          /\ started' = [started EXCEPT ![f] =
               [browser |-> b, expires |-> clock + TTL, key |-> key]]
          /\ sent' = sent \cup {f}
    BY <1>1 DEF OIDCLogin
  <2>2. [browser |-> b, expires |-> clock + TTL, key |-> key] \in Seal
    BY DEF TypeOK, Seal
  <2> QED
    BY <1>1, <2>1, <2>2 DEF OIDCLogin, TypeOK
<1>2. ASSUME NEW b \in Browsers, Forget(b) \/ SignOut(b)
      PROVE  TypeOK'
  BY <1>2 DEF Forget, SignOut, TypeOK
<1>3. ASSUME NEW f \in Flows, NEW p \in People, Authorize(f, p)
      PROVE  TypeOK'
  BY <1>3 DEF Authorize, TypeOK, Grant
<1>4. ASSUME NEW f \in Flows, Redirected(f)
      PROVE  TypeOK'
  BY <1>4 DEF Redirected, TypeOK
<1>5. CASE Tick
  BY <1>5 DEF Tick, TypeOK
<1>6. CASE Restart
  <2>1. RequestsOK'
    BY <1>6, IdleType DEF Restart, RequestsOK
  <2> QED
    BY <1>6, <2>1 DEF Restart, TypeOK, RequestsOK
<1>7. CASE UNCHANGED vars
  BY <1>7 DEF vars, TypeOK
<1> QED
  BY <1>1, <1>2, <1>3, <1>4, <1>5, <1>6, <1>7, CallbackType DEF Next

\* Every reachable state of the sign-in is well typed, and a callback has what
\* its next step reads.
THEOREM LoginTypeCorrect == Spec => []TypeOK
<1>1. Init => TypeOK
  BY IdleType DEF Init, TypeOK
<1> QED
  BY <1>1, NextType, PTL DEF Spec

-----------------------------------------------------------------------------
(* What a step may do to the flows and to one request.                     *)

\* Nothing is taken back: neither a code or an answer, nor the seal of a flow
\* that was started or the redirect it was sent with.
LEMMA Monotone ==
  ASSUME TypeOK, [Next]_vars
  PROVE  /\ issued \subseteq issued'
         /\ redeemed \subseteq redeemed' /\ cleared \subseteq cleared'
         /\ clock <= clock' /\ key <= key'
         /\ \A f \in Flows : Started(f) =>
              /\ started'[f] = started[f]
              /\ f \in sent' => f \in sent
<1>1. ASSUME NEW b \in Browsers, OIDCLogin(b)
      PROVE  /\ UNCHANGED <<issued, redeemed, cleared, clock, key>>
             /\ \A f \in Flows : Started(f) =>
                  started'[f] = started[f] /\ (f \in sent' => f \in sent)
  BY <1>1 DEF OIDCLogin, TypeOK, Started
<1>2. ASSUME NEW b \in Browsers, Forget(b) \/ SignOut(b)
      PROVE  UNCHANGED <<issued, redeemed, cleared, clock, key, started, sent>>
  BY <1>2 DEF Forget, SignOut
<1>3. ASSUME NEW f \in Flows, Redirected(f)
      PROVE  /\ cleared \subseteq cleared' /\ sent' \subseteq sent
             /\ UNCHANGED <<issued, redeemed, clock, key, started>>
  BY <1>3 DEF Redirected
<1>4. ASSUME NEW f \in Flows, NEW p \in People, Authorize(f, p)
      PROVE  /\ issued \subseteq issued'
             /\ UNCHANGED <<redeemed, cleared, clock, key, started, sent>>
  BY <1>4 DEF Authorize
<1>5. CASE Tick \/ Restart
  <2>1. clock <= clock' /\ key <= key'
    BY <1>5 DEF Tick, Restart, TypeOK
  <2> QED
    BY <1>5, <2>1 DEF Tick, Restart
<1>6. ASSUME NEW r \in Requests,
             \/ \E b \in Browsers, u \in Queries : OIDCCallback(r, b, u)
             \/ Exchange(r) \/ SignInExternal(r) \/ Deliver(r) \/ Lose(r)
      PROVE  /\ redeemed \subseteq redeemed' /\ cleared \subseteq cleared'
             /\ UNCHANGED <<issued, clock, key, started, sent>>
  BY <1>6 DEF OIDCCallback, Exchange, SignInExternal, Deliver, EndsFlows, Lose
<1>7. clock \in Nat /\ key \in Nat
  BY DEF TypeOK
<1>8. CASE UNCHANGED vars
  BY <1>7, <1>8 DEF vars
<1> QED
  BY <1>1, <1>2, <1>3, <1>4, <1>5, <1>6, <1>7, <1>8 DEF Next

\* A request stays as it is, is over, or takes a step of its handler.
LEMMA RequestStep ==
  ASSUME TypeOK, [Next]_vars, NEW r \in Requests
  PROVE  \/ req'[r] = req[r]
         \/ req'[r] = Idle
         \/ \E b \in Browsers, u \in Queries : OIDCCallback(r, b, u)
         \/ Exchange(r)
         \/ SignInExternal(r)
<1>1. CASE \E b \in Browsers : OIDCLogin(b) \/ Forget(b) \/ SignOut(b)
  BY <1>1 DEF OIDCLogin, Forget, SignOut
<1>2. CASE \E f \in Flows : Redirected(f) \/ \E p \in People : Authorize(f, p)
  BY <1>2 DEF Redirected, Authorize
<1>3. CASE Tick \/ Restart
  BY <1>3 DEF Tick, Restart
<1>4. ASSUME NEW s \in Requests,
             \/ \E b \in Browsers, u \in Queries : OIDCCallback(s, b, u)
             \/ Exchange(s) \/ SignInExternal(s) \/ Deliver(s) \/ Lose(s)
      PROVE  \/ req'[r] = req[r] \/ req'[r] = Idle
             \/ s = r /\ ~Deliver(s) /\ ~Lose(s)
  <2>1. CASE s = r
    BY <1>4, <2>1 DEF Deliver, Lose, TypeOK
  <2>2. CASE s # r
    BY <1>4, <2>2 DEF OIDCCallback, Reject, Accept, Exchange, SignInExternal,
                      Respond, Deliver, Lose, TypeOK
  <2> QED
    BY <2>1, <2>2
<1>5. CASE UNCHANGED vars
  BY <1>5 DEF vars
<1> QED
  BY <1>1, <1>2, <1>3, <1>4, <1>5 DEF Next

\* What OIDCCallback makes of a request.
LEMMA CallbackStep ==
  ASSUME TypeOK, NEW r \in Requests, NEW b \in Browsers, NEW u \in Queries,
         OIDCCallback(r, b, u)
  PROVE  /\ req'[r].state = u.state /\ req'[r].browser = b
         /\ req'[r].step \in {"respond", "exchange"}
         /\ req'[r].outcome # "signed_in"
         /\ req'[r].outcome = "expired" => ~Opens(b)
         /\ req'[r].step = "exchange" => Opens(b) /\ req'[r].flow = cookie[b]
<1>1. ASSUME NEW o, Reject(r, b, u, o)
      PROVE  /\ req'[r].state = u.state /\ req'[r].browser = b
             /\ req'[r].step = "respond" /\ req'[r].outcome = o
  BY <1>1 DEF Reject, Idle, TypeOK
<1>2. ASSUME Accept(r, b, u)
      PROVE  /\ req'[r].state = u.state /\ req'[r].browser = b
             /\ req'[r].step = "exchange" /\ req'[r].outcome = "none"
             /\ req'[r].flow = cookie[b]
  BY <1>2 DEF Accept, Idle, TypeOK
<1> QED
  BY <1>1, <1>2 DEF OIDCCallback

\* The later steps of a handler leave the request what it is and, but for its
\* answer, do not end as "expired".
LEMMA SameRequest ==
  ASSUME TypeOK, NEW r \in Requests, Exchange(r) \/ SignInExternal(r)
  PROVE  /\ req[r].step # "idle"
         /\ req'[r].state = req[r].state /\ req'[r].browser = req[r].browser
         /\ req'[r].outcome = "expired" => req[r].outcome = "expired"
<1>1. req[r] \in Callback
  BY DEF TypeOK
<1>2. ASSUME NEW o, o # "expired", Respond(r, o)
      PROVE  /\ req'[r].state = req[r].state /\ req'[r].browser = req[r].browser
             /\ req'[r].outcome # "expired"
  BY <1>1, <1>2 DEF Respond, TypeOK, Callback
<1>3. ASSUME NEW g, req' = [req EXCEPT ![r] = [req[r] EXCEPT
                              !.step = "sign_in", !.person = g.person]]
      PROVE  /\ req'[r].state = req[r].state /\ req'[r].browser = req[r].browser
             /\ req'[r].outcome = req[r].outcome
  BY <1>1, <1>3 DEF TypeOK, Callback
<1>4. CASE Exchange(r)
  <2>1. req[r].step # "idle"
    BY <1>4 DEF Exchange
  <2> QED
    BY <1>2, <1>3, <1>4, <2>1, ExchangeStep
<1>5. CASE SignInExternal(r)
  BY <1>2, <1>5 DEF SignInExternal
<1> QED
  BY <1>4, <1>5

-----------------------------------------------------------------------------
(* Flows and cookies.                                                      *)

\* A cookie is that of a flow which its browser started and was redirected for,
\* and nothing has ended that flow; codes are issued for flows that were
\* started.
FlowsOK ==
  /\ \A f \in sent : Started(f)
  /\ \A f \in cleared : Known(f)
  /\ \A g \in issued : Started(g.flow)
  /\ \A b \in Browsers : cookie[b] # None =>
       /\ started[cookie[b]].browser = b
       /\ Known(cookie[b])
       /\ cookie[b] \notin cleared

\* A flow that has a browser is started.
LEMMA StartedBy ==
  ASSUME TypeOK, NEW f \in Flows
  PROVE  Started(f) <=> started[f] \in Seal /\ started[f].browser \in Browsers
BY DEF TypeOK, Started, Seal, NotStarted

\* Flows stay started, and known.
LEMMA KnownStays ==
  ASSUME TypeOK, [Next]_vars, NEW f \in Flows
  PROVE  /\ Started(f) => Started(f)' /\ started'[f] = started[f]
         /\ Known(f) => Known(f)'
BY Monotone DEF Started, Known

LEMMA FlowsStep == TypeOK /\ FlowsOK /\ [Next]_vars => FlowsOK'
<1> SUFFICES ASSUME TypeOK, FlowsOK, [Next]_vars
             PROVE  FlowsOK'
  OBVIOUS
<1>0. /\ sent \subseteq Flows /\ cleared \subseteq Flows
      /\ \A g \in issued : g.flow \in Flows
      /\ \A b \in Browsers : cookie[b] # None => cookie[b] \in Flows
  BY DEF TypeOK, Grant
<1>1. \A f \in Flows : /\ Started(f) => Started(f)' /\ started'[f] = started[f]
                       /\ Known(f) => Known(f)'
  BY KnownStays
<1>2. \A b \in Browsers, e \in Flows : e = cookie[b] =>
        started'[e].browser = b /\ Known(e)' /\ e \notin cleared
  BY <1>0, <1>1 DEF FlowsOK, Known
<1>3. ASSUME UNCHANGED <<issued, cleared>>, sent' \subseteq sent,
             \A b \in Browsers : cookie'[b] \in {cookie[b], None}
      PROVE  FlowsOK'
  <2>1. (\A g \in sent' : Started(g)') /\ (\A g \in cleared' : Known(g)')
    BY <1>0, <1>1, <1>3 DEF FlowsOK
  <2>2. \A g \in issued' : Started(g.flow)'
    BY <1>0, <1>1, <1>3 DEF FlowsOK
  <2>3. ASSUME NEW b \in Browsers, NEW e, e = cookie'[b], e # None
        PROVE  started'[e].browser = b /\ Known(e)' /\ e \notin cleared'
    BY <1>0, <1>2, <1>3, <2>3 DEF FlowsOK
  <2> QED
    BY <2>1, <2>2, <2>3 DEF FlowsOK, Known, Started
<1>4. ASSUME NEW b \in Browsers, OIDCLogin(b)
      PROVE  FlowsOK'
  <2>1. PICK f \in Flows :
          /\ started' = [started EXCEPT ![f] =
               [browser |-> b, expires |-> clock + TTL, key |-> key]]
          /\ sent' = sent \cup {f}
    BY <1>4 DEF OIDCLogin
  <2>2. started'[f] # NotStarted
    BY <2>1 DEF TypeOK, NotStarted
  <2>3. \A g \in sent' : Started(g)'
    BY <1>0, <1>1, <2>1, <2>2 DEF FlowsOK, Started
  <2> QED
    BY <1>0, <1>1, <1>2, <1>4, <2>3 DEF OIDCLogin, FlowsOK
<1>5. ASSUME NEW f \in Flows, Redirected(f)
      PROVE  FlowsOK'
  <2> DEFINE b == started[f].browser
             ended == {g \in Flows : /\ Known(g) /\ started[g].browser = b
                                     /\ Outlasts(g, f)}
  <2>1. /\ f \in sent /\ sent' = sent \ {f} /\ started' = started
        /\ cookie' = [cookie EXCEPT ![b] = f]
        /\ cleared' = cleared \cup ended
        /\ issued' = issued
    BY <1>5 DEF Redirected
  <2> HIDE DEF ended
  <2>2. \A g \in ended : g \in Flows /\ Known(g) /\ started[g].browser = b
    BY DEF ended
  <2>3. Started(f) /\ ~Known(f) /\ Known(f)'
    BY <2>1 DEF FlowsOK, Known, Started
  <2>4. f \notin cleared'
    BY <2>1, <2>2, <2>3 DEF FlowsOK
  <2>5. ASSUME NEW c \in Browsers, NEW e, e = cookie'[c], e # None
        PROVE  started'[e].browser = c /\ Known(e)' /\ e \notin cleared'
    <3>1. CASE c = b
      <4>1. cookie'[c] = f
        BY <2>1, <3>1 DEF TypeOK
      <4> QED
        BY <2>1, <2>3, <2>4, <2>5, <3>1, <4>1
    <3>2. CASE c # b
      <4>1. cookie'[c] = cookie[c]
        BY <2>1, <3>2 DEF TypeOK
      <4>2. started[cookie[c]].browser = c /\ cookie[c] \notin cleared
        BY <2>5, <4>1 DEF FlowsOK
      <4>3. cookie[c] \notin ended
        BY <2>2, <3>2, <4>2
      <4> QED
        BY <1>0, <1>2, <2>1, <2>5, <4>1, <4>2, <4>3
    <3> QED
      BY <3>1, <3>2
  <2>6. (\A g \in sent' : Started(g)') /\ (\A g \in cleared' : Known(g)')
    BY <1>0, <1>1, <2>1, <2>2 DEF FlowsOK
  <2>7. \A g \in issued' : Started(g.flow)'
    BY <1>0, <1>1, <2>1 DEF FlowsOK
  <2> QED
    BY <2>5, <2>6, <2>7 DEF FlowsOK
<1>6. ASSUME NEW f \in Flows, NEW p \in People, Authorize(f, p)
      PROVE  FlowsOK'
  <2>1. PICK c \in Codes :
          issued' = issued \cup {[code |-> c, flow |-> f, person |-> p]}
    BY <1>6 DEF Authorize
  <2>2. Started(f)'
    BY <1>1, <1>6 DEF Authorize, Known
  <2>3. \A g \in issued' : Started(g.flow)'
    BY <1>0, <1>1, <2>1, <2>2 DEF FlowsOK
  <2> QED
    BY <1>0, <1>1, <1>2, <1>6, <2>3 DEF Authorize, FlowsOK
<1>7. ASSUME NEW r \in Requests, Deliver(r)
      PROVE  FlowsOK'
  <2> DEFINE b == req[r].browser
             ended == {f \in Flows : Known(f) /\ started[f].browser = b}
  <2>1. /\ sent' = sent /\ started' = started /\ issued' = issued
        /\ cookie' = [cookie EXCEPT ![b] = None]
        /\ cleared' = cleared \cup ended
    BY <1>7 DEF Deliver, EndsFlows
  <2> HIDE DEF ended
  <2>2. \A g \in ended : g \in Flows /\ Known(g) /\ started[g].browser = b
    BY DEF ended
  <2>3. ASSUME NEW c \in Browsers, NEW e, e = cookie'[c], e # None
        PROVE  started'[e].browser = c /\ Known(e)' /\ e \notin cleared'
    <3>1. c # b /\ cookie'[c] = cookie[c]
      BY <2>1, <2>3 DEF TypeOK
    <3>2. started[cookie[c]].browser = c /\ cookie[c] \notin cleared
      BY <2>3, <3>1 DEF FlowsOK
    <3>3. cookie[c] \notin ended
      BY <2>2, <3>1, <3>2
    <3> QED
      BY <1>0, <1>2, <2>1, <2>3, <3>1, <3>2, <3>3
  <2>4. (\A g \in sent' : Started(g)') /\ (\A g \in cleared' : Known(g)')
    BY <1>0, <1>1, <2>1, <2>2 DEF FlowsOK
  <2>5. \A g \in issued' : Started(g.flow)'
    BY <1>0, <1>1, <2>1 DEF FlowsOK
  <2> QED
    BY <2>3, <2>4, <2>5 DEF FlowsOK
<1>8. CASE \E b \in Browsers : Forget(b) \/ SignOut(b)
  BY <1>3, <1>8 DEF Forget, SignOut, TypeOK
<1>9. CASE Tick \/ Restart \/ UNCHANGED vars
  BY <1>3, <1>9 DEF Tick, Restart, vars
<1>10. ASSUME NEW r \in Requests,
             \/ \E b \in Browsers, u \in Queries : OIDCCallback(r, b, u)
             \/ Exchange(r) \/ SignInExternal(r) \/ Lose(r)
      PROVE  FlowsOK'
  <2>1. UNCHANGED <<issued, cleared, sent, cookie>>
    BY <1>10 DEF OIDCCallback, Exchange, SignInExternal, Lose
  <2> QED
    BY <1>3, <2>1
<1> QED
  BY <1>4, <1>5, <1>6, <1>7, <1>8, <1>9, <1>10 DEF Next

\* A request begins its exchange by the handler of a callback.
LEMMA ExchangeBegins ==
  ASSUME TypeOK, [Next]_vars, NEW r \in Requests, req'[r].step = "exchange"
  PROVE  \/ req'[r] = req[r]
         \/ \E b \in Browsers :
              /\ Opens(b)
              /\ req'[r].flow = cookie[b] /\ req'[r].browser = b
              /\ UNCHANGED <<started, cleared>>
<1>1. req[r] \in Callback
  BY DEF TypeOK
<1>2. ASSUME NEW o, Respond(r, o)
      PROVE  req'[r].step # "exchange"
  BY <1>1, <1>2 DEF Respond, TypeOK, Callback
<1>3. ASSUME NEW g, req' = [req EXCEPT ![r] = [req[r] EXCEPT
                              !.step = "sign_in", !.person = g.person]]
      PROVE  req'[r].step # "exchange"
  BY <1>1, <1>3 DEF TypeOK, Callback
<1>4. ~Exchange(r)
  BY <1>2, <1>3, ExchangeStep
<1>5. ~SignInExternal(r)
  BY <1>2 DEF SignInExternal
<1>6. req'[r] # Idle
  BY DEF Idle
<1>7. ASSUME NEW b \in Browsers, NEW u \in Queries, OIDCCallback(r, b, u)
      PROVE  /\ Opens(b)
             /\ req'[r].flow = cookie[b] /\ req'[r].browser = b
             /\ UNCHANGED <<started, cleared>>
  BY <1>7, CallbackStep DEF OIDCCallback
<1> QED
  BY <1>4, <1>5, <1>6, <1>7, RequestStep

\* Once a browser has had the answer of a callback, none that it sends later
\* takes a flow it had been redirected for before to the provider
\* (clearOIDCFlowCookie).
THEOREM AnsweredFlowsStayOver == Spec => AnsweredFlowsAreOver
<1>1. Init => TypeOK /\ FlowsOK
  BY IdleType DEF Init, TypeOK, FlowsOK
<1>2. TypeOK /\ FlowsOK /\ [Next]_vars => TypeOK' /\ FlowsOK'
  BY NextType, FlowsStep
<1>3. TypeOK /\ FlowsOK /\ [Next]_vars
        => [\A r \in Requests :
              req[r].step = "idle" /\ req'[r].step = "exchange" =>
                req'[r].flow \notin cleared]_vars
  <2> SUFFICES ASSUME TypeOK, FlowsOK, [Next]_vars, NEW r \in Requests,
                      req[r].step = "idle", req'[r].step = "exchange"
               PROVE  req'[r].flow \notin cleared
    OBVIOUS
  <2> QED
    BY ExchangeBegins DEF FlowsOK, Opens
<1> QED
  BY <1>1, <1>2, <1>3, PTL DEF Spec, AnsweredFlowsAreOver

-----------------------------------------------------------------------------
(* Exchanges.                                                              *)

\* A callback goes to the provider with a flow of its own browser.
ExchangesOK ==
  \A r \in Requests : req[r].step = "exchange" =>
    started[req[r].flow].browser = req[r].browser

LEMMA ExchangesStep ==
  TypeOK /\ FlowsOK /\ ExchangesOK /\ [Next]_vars => ExchangesOK'
<1> SUFFICES ASSUME TypeOK, FlowsOK, ExchangesOK, [Next]_vars,
                    NEW r \in Requests, req'[r].step = "exchange"
             PROVE  started'[req'[r].flow].browser = req'[r].browser
  BY DEF ExchangesOK
<1>1. CASE req'[r] = req[r]
  <2>1. req[r].flow \in Flows /\ req[r].browser \in Browsers
    BY <1>1 DEF TypeOK, WellFormed
  <2>2. started[req[r].flow].browser = req[r].browser
    BY <1>1 DEF ExchangesOK
  <2>3. Started(req[r].flow)
    BY <2>1, <2>2 DEF Started, NotStarted
  <2> QED
    BY <1>1, <2>1, <2>2, <2>3, Monotone
<1>2. ASSUME NEW b \in Browsers, Opens(b), req'[r].flow = cookie[b],
             req'[r].browser = b, UNCHANGED <<started, cleared>>
      PROVE  started'[req'[r].flow].browser = req'[r].browser
  BY <1>2 DEF FlowsOK, Opens
<1> QED
  BY <1>1, <1>2, ExchangeBegins

-----------------------------------------------------------------------------
(* Sessions belong to those who signed in.                                 *)

\* Person p, who is allowed, signed in for a flow of browser b, and the code
\* for that was redeemed.
Own(b, p) ==
  \E g \in issued :
    /\ g.person = p /\ p \in Allowed
    /\ g.code \in redeemed
    /\ started[g.flow].browser = b

\* So it is for whoever a callback has verified, and has a session.
SignInsOK ==
  \A r \in Requests :
    req[r].step = "sign_in" \/ req[r].outcome = "signed_in" =>
      Own(req[r].browser, req[r].person)

SessionsOK == \A b \in Browsers : session[b] # None => Own(b, session[b])

\* What was so once stays so.
LEMMA OwnStays ==
  ASSUME TypeOK, FlowsOK, [Next]_vars, NEW b, NEW p, Own(b, p)
  PROVE  Own(b, p)'
<1>1. PICK g \in issued : /\ g.person = p /\ p \in Allowed
                          /\ g.code \in redeemed
                          /\ started[g.flow].browser = b
  BY DEF Own
<1>2. g \in issued' /\ g.code \in redeemed'
  BY <1>1, Monotone
<1>3. started'[g.flow] = started[g.flow]
  BY Monotone DEF FlowsOK, TypeOK, Grant
<1> QED
  BY <1>1, <1>2, <1>3 DEF Own

LEMMA SignInsStep ==
  TypeOK /\ FlowsOK /\ ExchangesOK /\ SignInsOK /\ [Next]_vars => SignInsOK'
<1> SUFFICES ASSUME TypeOK, FlowsOK, ExchangesOK, SignInsOK, [Next]_vars,
                    NEW r \in Requests, NEW c, NEW p,
                    c = req'[r].browser, p = req'[r].person,
                    req'[r].step = "sign_in" \/ req'[r].outcome = "signed_in"
             PROVE  Own(c, p)'
  BY DEF SignInsOK, Own
<1>1. req[r] \in Callback
  BY DEF TypeOK
<1>2. CASE req'[r] = req[r]
  BY <1>2, OwnStays DEF SignInsOK
<1>3. CASE Exchange(r)
  <2>2. CASE \E o \in {"unverified", "not_allowed"} : Respond(r, o)
    BY <2>2, <1>1 DEF Respond, TypeOK
  <2>3. ASSUME NEW g \in issued, g.flow = req[r].flow, g.person \in Allowed,
               redeemed' = redeemed \cup {g.code},
               req' = [req EXCEPT ![r] = [req[r] EXCEPT !.step = "sign_in",
                                            !.person = g.person]]
        PROVE  Own(c, p)'
    <3>1. req'[r].browser = req[r].browser /\ req'[r].person = g.person
      BY <1>1, <2>3 DEF TypeOK, Callback
    <3>2. started[g.flow].browser = req[r].browser
      BY <1>3, <2>3 DEF ExchangesOK, Exchange
    <3>3. issued' = issued /\ started' = started
      BY <1>3 DEF Exchange
    <3> QED
      BY <2>3, <3>1, <3>2, <3>3 DEF Own
  <2> QED
    BY <1>3, <2>2, <2>3, ExchangeStep
<1>4. CASE SignInExternal(r)
  <2>1. Own(req[r].browser, req[r].person)
    BY <1>4 DEF SignInExternal, SignInsOK
  <2>2. req'[r].browser = req[r].browser /\ req'[r].person = req[r].person
    BY <1>1, <1>4 DEF SignInExternal, Respond, TypeOK, Callback
  <2> QED
    BY <2>1, <2>2, OwnStays
<1>5. ASSUME NEW b \in Browsers, NEW u \in Queries, OIDCCallback(r, b, u)
      PROVE  FALSE
  BY <1>5, CallbackStep
<1>6. req'[r] # Idle
  BY DEF Idle
<1> QED
  BY <1>2, <1>3, <1>4, <1>5, <1>6, RequestStep

LEMMA SessionsStep ==
  TypeOK /\ FlowsOK /\ SignInsOK /\ SessionsOK /\ [Next]_vars => SessionsOK'
<1> SUFFICES ASSUME TypeOK, FlowsOK, SignInsOK, SessionsOK, [Next]_vars,
                    NEW b \in Browsers, NEW who, who = session'[b], who # None
             PROVE  Own(b, who)'
  BY DEF SessionsOK, Own
<1>1. CASE session'[b] = session[b]
  BY <1>1, OwnStays DEF SessionsOK
<1>2. ASSUME NEW r \in Requests, Deliver(r), session'[b] # session[b]
      PROVE  Own(b, who)'
  <2>1. req[r].outcome = "signed_in" /\ b = req[r].browser
        /\ session'[b] = req[r].person
    BY <1>2 DEF Deliver, SetsSession, TypeOK
  <2> QED
    BY <2>1, OwnStays DEF SignInsOK
<1>3. \/ session'[b] = session[b]
      \/ \E r \in Requests : Deliver(r)
  <2>1. CASE \E c \in Browsers : OIDCLogin(c) \/ Forget(c)
    BY <2>1 DEF OIDCLogin, Forget
  <2>2. CASE \E c \in Browsers : SignOut(c)
    BY <2>2 DEF SignOut, TypeOK
  <2>3. CASE \E f \in Flows : Redirected(f) \/ \E p \in People : Authorize(f, p)
    BY <2>3 DEF Redirected, Authorize
  <2>4. CASE Tick \/ Restart \/ UNCHANGED vars
    BY <2>4 DEF Tick, Restart, vars
  <2>5. CASE \E r \in Requests :
               \/ \E c \in Browsers, u \in Queries : OIDCCallback(r, c, u)
               \/ Exchange(r) \/ SignInExternal(r) \/ Lose(r)
    BY <2>5 DEF OIDCCallback, Exchange, SignInExternal, Lose
  <2> QED
    BY <2>1, <2>2, <2>3, <2>4, <2>5 DEF Next
<1> QED
  BY <1>1, <1>2, <1>3

\* A browser only ever has the session of an allowed person who signed in for a
\* flow it started, whichever codes it comes with: the provider may redeem one
\* of another flow, but the nonce of the ID token is then that flow's
\* (OIDCCallback, Client.Exchange, setSessionCookie).
THEOREM SessionsAlwaysOwn == Spec => []SessionsAreOwn
<1> DEFINE Inv == TypeOK /\ FlowsOK /\ ExchangesOK /\ SignInsOK /\ SessionsOK
<1>1. Init => Inv
  BY IdleType DEF Init, TypeOK, FlowsOK, ExchangesOK, SignInsOK, SessionsOK, Idle
<1>2. Inv /\ [Next]_vars => Inv'
  BY NextType, FlowsStep, ExchangesStep, SignInsStep, SessionsStep
<1>3. Inv => SessionsAreOwn
  BY DEF SessionsOK, SessionsAreOwn, Own
<1> QED
  BY <1>1, <1>2, <1>3, PTL DEF Spec

-----------------------------------------------------------------------------
(* What a browser is told when no flow is found.                           *)

\* No seal outlives the time to live from now, or is of a key to come; a key
\* that is kept has sealed all.
SealsOK ==
  \A f \in Flows : Started(f) =>
    /\ started[f].expires <= clock + TTL
    /\ started[f].key <= key
    /\ KeepsSecret => started[f].key = key

\* A flow that is neither over nor cleared has left the browser a cookie, its
\* own or that of a flow that lasts as long.
CookiesOK ==
  \A f \in Flows : Known(f) =>
    LET c == cookie[started[f].browser]
    IN  \/ f \in cleared
        \/ clock >= started[f].expires
        \/ /\ c # None
           /\ started[f].expires <= started[c].expires
           /\ started[f].key <= started[c].key

\* The state a request has come with is that of a flow a browser knows of.
StatesKnown ==
  \A r \in Requests : req[r].state # None =>
    req[r].state \in Flows /\ Known(req[r].state)

LEMMA SealsStep ==
  TypeOK /\ SealsOK /\ [Next]_vars => SealsOK'
<1> SUFFICES ASSUME TypeOK, SealsOK, [Next]_vars
             PROVE  SealsOK'
  OBVIOUS
<1>1. clock \in Nat /\ key \in Nat /\ clock' \in Nat /\ key' \in Nat
  BY NextType DEF TypeOK
<1>2. clock <= clock' /\ key <= key'
  BY Monotone
<1>3. KeepsSecret => key' = key
  <2>1. CASE Restart
    BY <2>1 DEF Restart
  <2>2. CASE \E b \in Browsers : OIDCLogin(b) \/ Forget(b) \/ SignOut(b)
    BY <2>2 DEF OIDCLogin, Forget, SignOut
  <2>3. CASE \E f \in Flows : Redirected(f) \/ \E p \in People : Authorize(f, p)
    BY <2>3 DEF Redirected, Authorize
  <2>4. CASE Tick \/ UNCHANGED vars
    BY <2>4 DEF Tick, vars
  <2>5. CASE \E r \in Requests :
               \/ \E c \in Browsers, u \in Queries : OIDCCallback(r, c, u)
               \/ Exchange(r) \/ SignInExternal(r) \/ Deliver(r) \/ Lose(r)
    BY <2>5 DEF OIDCCallback, Exchange, SignInExternal, Deliver, Lose
  <2> QED
    BY <2>1, <2>2, <2>3, <2>4, <2>5 DEF Next
<1>4. ASSUME NEW f \in Flows, started'[f] = started[f], Started(f)
      PROVE  /\ started'[f].expires <= clock' + TTL
             /\ started'[f].key <= key'
             /\ KeepsSecret => started'[f].key = key'
  <2>1. started[f].expires \in Nat /\ started[f].key \in Nat
    BY <1>4, StartedBy DEF Seal
  <2> QED
    BY <1>1, <1>2, <1>3, <1>4, <2>1 DEF SealsOK
<1>5. CASE started' = started
  BY <1>4, <1>5 DEF SealsOK, Started
<1>6. ASSUME NEW b \in Browsers, OIDCLogin(b)
      PROVE  SealsOK'
  <2>1. PICK f \in Flows : started' = [started EXCEPT ![f] =
               [browser |-> b, expires |-> clock + TTL, key |-> key]]
    BY <1>6 DEF OIDCLogin
  <2>2. started'[f] = [browser |-> b, expires |-> clock + TTL, key |-> key]
    BY <2>1 DEF TypeOK
  <2>3. clock' = clock /\ key' = key
    BY <1>6 DEF OIDCLogin
  <2>4. \A g \in Flows : g # f => started'[g] = started[g]
    BY <2>1 DEF TypeOK
  <2>5. ASSUME NEW g \in Flows, Started(g)'
        PROVE  /\ started'[g].expires <= clock' + TTL
               /\ started'[g].key <= key'
               /\ KeepsSecret => started'[g].key = key'
    <3>1. CASE g = f
      BY <1>1, <2>2, <2>3, <3>1
    <3>2. CASE g # f
      BY <1>4, <2>4, <2>5, <3>2 DEF Started
    <3> QED
      BY <3>1, <3>2
  <2> QED
    BY <2>5 DEF SealsOK
<1>7. started' = started \/ \E b \in Browsers : OIDCLogin(b)
  <2>1. CASE \E b \in Browsers : Forget(b) \/ SignOut(b)
    BY <2>1 DEF Forget, SignOut
  <2>2. CASE \E f \in Flows : Redirected(f) \/ \E p \in People : Authorize(f, p)
    BY <2>2 DEF Redirected, Authorize
  <2>3. CASE Tick \/ Restart \/ UNCHANGED vars
    BY <2>3 DEF Tick, Restart, vars
  <2>4. CASE \E r \in Requests :
               \/ \E c \in Browsers, u \in Queries : OIDCCallback(r, c, u)
               \/ Exchange(r) \/ SignInExternal(r) \/ Deliver(r) \/ Lose(r)
    BY <2>4 DEF OIDCCallback, Exchange, SignInExternal, Deliver, Lose
  <2> QED
    BY <2>1, <2>2, <2>3, <2>4 DEF Next
<1> QED
  BY <1>5, <1>6, <1>7

LEMMA CookiesStep ==
  TypeOK /\ FlowsOK /\ CookiesOK /\ [Next]_vars => CookiesOK'
<1> SUFFICES ASSUME TypeOK, FlowsOK, CookiesOK, [Next]_vars,
                    NEW f \in Flows, Known(f)'
             PROVE  LET c == cookie'[started'[f].browser]
                    IN  \/ f \in cleared'
                        \/ clock' >= started'[f].expires
                        \/ /\ c # None
                           /\ started'[f].expires <= started'[c].expires
                           /\ started'[f].key <= started'[c].key
  BY DEF CookiesOK, Known, Started
<1> DEFINE d == started[f].browser
           c == cookie[d]
<1>1. clock \in Nat /\ clock' \in Nat /\ clock <= clock'
  BY NextType, Monotone DEF TypeOK
<1>2. ASSUME Started(f)
      PROVE  /\ d \in Browsers
             /\ started[f].expires \in Nat /\ started[f].key \in Nat
  BY <1>2, StartedBy DEF Seal
<1>3. ASSUME Started(f), c # None
      PROVE  /\ c \in Flows /\ started'[c] = started[c]
             /\ started[c].expires \in Nat /\ started[c].key \in Nat
  <2>1. c \in Flows /\ Started(c)
    BY <1>2, <1>3 DEF TypeOK, FlowsOK, Known
  <2> QED
    BY <2>1, StartedBy, Monotone DEF Seal
<1>4. ASSUME Known(f), started'[f] = started[f],
             \/ cookie'[d] = cookie[d]
             \/ clock' >= started[f].expires
             \/ f \in cleared'
      PROVE  LET e == cookie'[started'[f].browser]
             IN  \/ f \in cleared'
                 \/ clock' >= started'[f].expires
                 \/ /\ e # None
                    /\ started'[f].expires <= started'[e].expires
                    /\ started'[f].key <= started'[e].key
  <2>1. cleared \subseteq cleared'
    BY Monotone
  <2> QED
    BY <1>1, <1>2, <1>3, <1>4, <2>1 DEF CookiesOK, Known
<1>5. ASSUME NEW b \in Browsers, OIDCLogin(b)
      PROVE  Known(f) /\ started'[f] = started[f] /\ cookie'[d] = cookie[d]
  <2>1. PICK n \in Flows :
          /\ started' = [started EXCEPT ![n] =
               [browser |-> b, expires |-> clock + TTL, key |-> key]]
          /\ sent' = sent \cup {n}
    BY <1>5 DEF OIDCLogin
  <2>2. f # n
    BY <2>1 DEF Known
  <2> QED
    BY <1>5, <2>1, <2>2 DEF OIDCLogin, TypeOK, Known, Started
<1>6. ASSUME NEW n \in Flows, Redirected(n)
      PROVE  LET e == cookie'[started'[f].browser]
             IN  \/ f \in cleared'
                 \/ clock' >= started'[f].expires
                 \/ /\ e # None
                    /\ started'[f].expires <= started'[e].expires
                    /\ started'[f].key <= started'[e].key
  <2>1. /\ n \in sent /\ sent' = sent \ {n} /\ started' = started
        /\ cookie' = [cookie EXCEPT ![started[n].browser] = n]
        /\ cleared' = cleared \cup
             {g \in Flows : /\ Known(g)
                            /\ started[g].browser = started[n].browser
                            /\ Outlasts(g, n)}
    BY <1>6 DEF Redirected
  <2>2. /\ Started(n) /\ n # None
        /\ started[n].browser \in Browsers
        /\ started[n].expires \in Nat /\ started[n].key \in Nat
    BY <2>1, StartedBy DEF FlowsOK, Seal
  <2>3. cookie'[started[n].browser] = n
    BY <2>1, <2>2 DEF TypeOK
  <2>4. Started(f)
    BY <2>1 DEF Known, Started
  <2>5. CASE f = n
    BY <2>1, <2>2, <2>3, <2>5
  <2>6. f # n => Known(f)
    BY <2>1, <2>4 DEF Known
  <2>7. CASE f # n /\ d = started[n].browser
    <3>1. CASE Outlasts(f, n)
      BY <2>1, <2>6, <2>7, <3>1
    <3>2. CASE ~Outlasts(f, n)
      <4>1. /\ started[f].expires <= started[n].expires
            /\ started[f].key <= started[n].key
        BY <1>2, <2>2, <2>4, <3>2 DEF Outlasts
      <4> QED
        BY <2>1, <2>2, <2>3, <2>7, <4>1
    <3> QED
      BY <3>1, <3>2
  <2>8. CASE f # n /\ d # started[n].browser
    <3>1. cookie'[d] = cookie[d]
      BY <1>2, <2>1, <2>4, <2>8 DEF TypeOK
    <3> QED
      BY <1>4, <2>1, <2>6, <2>8, <3>1
  <2> QED
    BY <2>5, <2>7, <2>8
<1>7. ASSUME UNCHANGED <<started, sent>>
      PROVE  Known(f) /\ started'[f] = started[f]
  BY <1>7 DEF Known, Started
<1>8. ASSUME NEW b \in Browsers, Forget(b)
      PROVE  cookie'[d] = cookie[d] \/ clock' >= started[f].expires
             \/ f \in cleared'
  <2>1. Known(f) /\ Started(f) /\ clock' = clock /\ cleared' = cleared
    BY <1>7, <1>8 DEF Forget, Known
  <2>2. CASE b # d
    BY <1>2, <1>8, <2>1, <2>2 DEF Forget, TypeOK
  <2>3. CASE b = d
    <3>1. c # None /\ clock >= started[c].expires
      BY <1>8, <2>3 DEF Forget
    <3> QED
      BY <1>1, <1>2, <1>3, <2>1, <3>1 DEF CookiesOK
  <2> QED
    BY <2>2, <2>3
<1>9. ASSUME NEW r \in Requests, Deliver(r)
      PROVE  cookie'[d] = cookie[d] \/ f \in cleared'
  <2>1. Known(f) /\ Started(f)
    BY <1>7, <1>9 DEF Deliver, Known
  <2> QED
    BY <1>2, <1>9, <2>1 DEF Deliver, EndsFlows, TypeOK
<1>10. \/ \E b \in Browsers : OIDCLogin(b)
       \/ \E n \in Flows : Redirected(n)
       \/ /\ UNCHANGED <<started, sent>>
          /\ \/ cookie'[d] = cookie[d]
             \/ clock' >= started[f].expires
             \/ f \in cleared'
  <2>1. CASE \E b \in Browsers : SignOut(b)
    BY <2>1 DEF SignOut
  <2>2. CASE \E b \in Browsers : Forget(b)
    BY <1>8, <2>2 DEF Forget
  <2>3. CASE \E g \in Flows, p \in People : Authorize(g, p)
    BY <2>3 DEF Authorize
  <2>4. CASE Tick \/ Restart \/ UNCHANGED vars
    BY <2>4 DEF Tick, Restart, vars
  <2>5. CASE \E r \in Requests :
               \/ \E b \in Browsers, u \in Queries : OIDCCallback(r, b, u)
               \/ Exchange(r) \/ SignInExternal(r) \/ Lose(r)
    BY <2>5 DEF OIDCCallback, Exchange, SignInExternal, Lose
  <2>6. CASE \E r \in Requests : Deliver(r)
    BY <1>9, <2>6 DEF Deliver
  <2> QED
    BY <2>1, <2>2, <2>3, <2>4, <2>5, <2>6 DEF Next
<1> QED
  BY <1>4, <1>5, <1>6, <1>7, <1>10

LEMMA StatesKnownStep ==
  TypeOK /\ StatesKnown /\ [Next]_vars => StatesKnown'
<1> SUFFICES ASSUME TypeOK, StatesKnown, [Next]_vars,
                    NEW r \in Requests, NEW f, f = req'[r].state, f # None
             PROVE  f \in Flows /\ started'[f] # NotStarted /\ f \notin sent'
  BY DEF StatesKnown, Known, Started
<1>1. \A g \in Flows : Known(g) => started'[g] # NotStarted /\ g \notin sent'
  BY KnownStays DEF Known, Started
<1>2. ASSUME req'[r].state = req[r].state
      PROVE  f \in Flows /\ started'[f] # NotStarted /\ f \notin sent'
  BY <1>1, <1>2 DEF StatesKnown
<1>3. ASSUME NEW b \in Browsers, NEW u \in Queries, OIDCCallback(r, b, u)
      PROVE  f \in Flows /\ started'[f] # NotStarted /\ f \notin sent'
  <2>1. req'[r].state = u.state
    BY <1>3, CallbackStep
  <2>2. u.state \in Flows /\ Known(u.state)
    BY <2>1 DEF Queries, Query
  <2> QED
    BY <1>1, <2>1, <2>2
<1>4. CASE req'[r] = req[r]
  BY <1>2, <1>4
<1>5. CASE Exchange(r) \/ SignInExternal(r)
  BY <1>2, <1>5, SameRequest
<1>6. req'[r] # Idle
  BY DEF Idle
<1> QED
  BY <1>3, <1>4, <1>5, <1>6, RequestStep

LEMMA ExpiredStep ==
  /\ TypeOK /\ FlowsOK /\ SealsOK /\ CookiesOK /\ StatesKnown
  /\ ExpiredAnswerIsTrue /\ [Next]_vars
  => ExpiredAnswerIsTrue'
<1> SUFFICES ASSUME TypeOK, FlowsOK, SealsOK, CookiesOK, StatesKnown,
                    ExpiredAnswerIsTrue, [Next]_vars,
                    NEW r \in Requests, req'[r].outcome = "expired",
                    NEW f, f = req'[r].state, f # None
             PROVE  \/ clock' >= started'[f].expires
                    \/ started'[f].browser # req'[r].browser
                    \/ ~KeepsSecret /\ started'[f].key < key'
                    \/ f \in cleared'
  BY DEF ExpiredAnswerIsTrue
<1>1. /\ clock \in Nat /\ key \in Nat /\ clock' \in Nat /\ key' \in Nat
      /\ clock <= clock' /\ key <= key' /\ cleared \subseteq cleared'
  BY NextType, Monotone DEF TypeOK
<1>2. ASSUME NEW g \in Flows, Started(g)
      PROVE  /\ started'[g] = started[g]
             /\ started[g].browser \in Browsers
             /\ started[g].expires \in Nat /\ started[g].key \in Nat
  BY <1>2, StartedBy, Monotone DEF Seal
<1>3. ASSUME req'[r].state = req[r].state, req'[r].browser = req[r].browser,
             req[r].outcome = "expired"
      PROVE  \/ clock' >= started'[f].expires
             \/ started'[f].browser # req'[r].browser
             \/ ~KeepsSecret /\ started'[f].key < key'
             \/ f \in cleared'
  <2>1. f \in Flows /\ Started(f)
    BY <1>3 DEF StatesKnown, Known
  <2>2. \/ clock >= started[f].expires
        \/ started[f].browser # req[r].browser
        \/ ~KeepsSecret /\ started[f].key < key
        \/ f \in cleared
    BY <1>3 DEF ExpiredAnswerIsTrue
  <2> QED
    BY <1>1, <1>2, <1>3, <2>1, <2>2
<1>4. ASSUME NEW b \in Browsers, NEW u \in Queries, OIDCCallback(r, b, u)
      PROVE  \/ clock' >= started'[f].expires
             \/ started'[f].browser # req'[r].browser
             \/ ~KeepsSecret /\ started'[f].key < key'
             \/ f \in cleared'
  <2>1. f = u.state /\ req'[r].browser = b /\ ~Opens(b)
    BY <1>4, CallbackStep
  <2>2. f \in Flows /\ Known(f) /\ Started(f)
    BY <2>1 DEF Queries, Query, Known
  <2>3. clock' = clock /\ key' = key /\ cleared' = cleared
    BY <1>4 DEF OIDCCallback
  <2>4. CASE started[f].browser # b
    BY <1>2, <2>1, <2>2, <2>4
  <2>5. CASE started[f].browser = b
    <3> DEFINE c == cookie[b]
    <3>1. CASE f \in cleared \/ clock >= started[f].expires
      BY <1>2, <2>2, <2>3, <3>1
    <3>2. CASE /\ c # None
               /\ started[f].expires <= started[c].expires
               /\ started[f].key <= started[c].key
      <4>1. c \in Flows /\ started[c].browser = b
        BY <2>5, <3>2 DEF TypeOK, FlowsOK
      <4>2. Started(c)
        BY <4>1 DEF Started, NotStarted
      <4>3. started[c].expires \in Nat /\ started[c].key \in Nat
        BY <1>2, <4>1, <4>2
      <4>4. started[c].key # key \/ ~(clock <= started[c].expires)
        BY <2>1, <3>2 DEF Opens
      <4>5. started[c].key <= key /\ (KeepsSecret => started[c].key = key)
        BY <4>1, <4>2 DEF SealsOK
      <4> QED
        BY <1>1, <1>2, <2>2, <2>3, <3>2, <4>3, <4>4, <4>5
    <3> QED
      BY <2>2, <2>5, <3>1, <3>2 DEF CookiesOK
  <2> QED
    BY <2>4, <2>5
<1>5. CASE req'[r] = req[r]
  BY <1>3, <1>5
<1>6. CASE Exchange(r) \/ SignInExternal(r)
  BY <1>3, <1>6, SameRequest
<1>7. req'[r] # Idle
  BY DEF Idle
<1> QED
  BY <1>4, <1>5, <1>6, <1>7, RequestStep

\* The answer "expired or was started in another browser" is true, unless the
\* key was lost, another callback in the browser cleared the cookie or the late
\* answer of an older login replaced it (OIDCLogin, OIDCCallback, appOIDC.open,
\* clearOIDCFlowCookie).
THEOREM ExpiredAnswerAlwaysTrue == Spec => []ExpiredAnswerIsTrue
<1> DEFINE Inv == /\ TypeOK /\ FlowsOK /\ SealsOK /\ CookiesOK
                  /\ StatesKnown /\ ExpiredAnswerIsTrue
<1>1. Init => Inv
  <2> SUFFICES ASSUME Init
               PROVE  Inv
    OBVIOUS
  <2>1. TypeOK
    BY IdleType DEF Init, TypeOK
  <2>2. \A f \in Flows : ~Started(f)
    BY DEF Init, Started
  <2>3. \A r \in Requests : req[r].outcome = "none" /\ req[r].state = None
    BY DEF Init, Idle
  <2> QED
    BY <2>1, <2>2, <2>3
       DEF Init, FlowsOK, SealsOK, CookiesOK, StatesKnown, Known,
           ExpiredAnswerIsTrue
<1>2. Inv /\ [Next]_vars => Inv'
  BY NextType, FlowsStep, SealsStep, CookiesStep, StatesKnownStep, ExpiredStep
<1>3. Inv => ExpiredAnswerIsTrue
  OBVIOUS
<1> QED
  BY <1>1, <1>2, <1>3, PTL DEF Spec
=============================================================================
