---------------------------- MODULE WebSessionProofs ----------------------------
(***************************************************************************)
(* What the page guard and the API routes promise to ended sessions, for   *)
(* any number of tabs, redirects and tokens.  A request is given what it   *)
(* asks for only when the API found its token current, which is at or      *)
(* after the moment it was sent: the invariant keeps that moment's         *)
(* tokenVersion below the token's.                                         *)
(*                                                                         *)
(* Then, what they promise to a session that goes on: an answer under way  *)
(* only ever brings the newest refresh token of its login, and a browser   *)
(* nobody disturbs is neither signed out nor sent in circles.              *)
(*                                                                         *)
(* Last, that the API, atomic here, keeps the promise of module Sessions,  *)
(* which RefreshTokensProofs shows of the token store itself.              *)
(***************************************************************************)
EXTENDS WebSession, TLAPS

Fresh(t) == tabs[t].access \in 1..minted /\ ver[tabs[t].access] >= tabs[t].since

InOrder(t) ==
  /\ tabs[t].access <= minted
  /\ tabs[t].refresh <= minted
  /\ tabs[t].cookies <= minted
  /\ tabs[t].since <= tokenVersion
  /\ Answered(t, Promised) => Fresh(t)

IndInv == TypeOK /\ \A t \in Tabs : InOrder(t)

\* TypeOK of the API's part.
TokenTypes ==
  /\ setting \in Settings
  /\ minted \in 0..MaxTokens
  /\ login \in [Tokens -> 0..MaxTokens]
  /\ ver \in [Tokens -> 0..MaxVersion]
  /\ bound \in [Tokens -> {"browser", "web"}]
  /\ valid \subseteq 1..minted
  /\ live \subseteq 1..minted
  /\ tokenVersion \in 0..MaxVersion

\* Tokens are only added, and a claim never changes.
TokensGrow ==
  /\ setting' = setting
  /\ minted' >= minted
  /\ tokenVersion' >= tokenVersion
  /\ \A k \in 1..minted : ver'[k] = ver[k]

LEMMA InitIndInv == Init => IndInv
<1> SUFFICES ASSUME Init PROVE IndInv
  OBVIOUS
<1>1. IdleTab \in Tab
  BY WebSessionAssumption DEF IdleTab, Tab, Stages, Paths, Outcomes, NoToken, Keep
<1>2. TypeOK
  BY <1>1, WebSessionAssumption DEF Init, TypeOK, NoToken
<1> QED
  BY <1>2 DEF Init, IndInv, InOrder, IdleTab, Answered, NoToken, Keep

\* A request that moves to another stage, the tokens growing meanwhile.
LEMMA TabStep ==
  ASSUME IndInv, TokenTypes', TokensGrow,
         jar' \in [access: 0..minted', refresh: 0..minted'],
         NEW t \in Tabs, NEW q \in Tab, tabs' = [tabs EXCEPT ![t] = q],
         q.access <= minted', q.refresh <= minted', q.cookies <= minted',
         q.since <= tokenVersion',
         q.at = "reply" /\ q.next \in Promised =>
           q.access \in 1..minted' /\ ver'[q.access] >= q.since
  PROVE  IndInv'
<1>1. tabs \in [Tabs -> Tab] /\ minted \in Nat /\ minted' \in Nat
      /\ tokenVersion \in Nat /\ tokenVersion' \in Nat
  BY WebSessionAssumption DEF IndInv, TypeOK, TokenTypes
<1>0. Promised' = Promised
  BY DEF Promised, TokensGrow
<1>2. TypeOK'
  BY <1>1 DEF TypeOK, TokenTypes
<1>3. ASSUME NEW u \in Tabs PROVE InOrder(u)'
  <2>1. CASE u = t
    <3>1. tabs'[u] = q
      BY <1>1, <2>1
    <3> QED
      BY <1>0, <3>1 DEF InOrder, Answered, Fresh
  <2>2. CASE u # t
    <3>1. tabs'[u] = tabs[u] /\ tabs[u] \in Tab
      BY <1>1, <2>2
    <3>2. InOrder(u)
      BY DEF IndInv
    <3>3. /\ tabs[u].access \in Int /\ tabs[u].refresh \in Int
          /\ tabs[u].cookies \in Int /\ tabs[u].since \in Int
      BY <3>1 DEF Tab
    <3>4. /\ tabs[u].access <= minted' /\ tabs[u].refresh <= minted'
          /\ tabs[u].cookies <= minted' /\ tabs[u].since <= tokenVersion'
      BY <1>1, <3>2, <3>3 DEF InOrder, TokensGrow
    <3>5. Fresh(u) => tabs[u].access \in 1..minted' /\ ver'[tabs[u].access] >= tabs[u].since
      BY <1>1, <3>3 DEF Fresh, TokensGrow
    <3> QED
      BY <1>0, <3>1, <3>2, <3>4, <3>5 DEF InOrder, Answered, Fresh
  <2> QED
    BY <2>1, <2>2
<1> QED
  BY <1>2, <1>3 DEF IndInv

\* An answer, of a handler that gives what is promised to fresh tokens only.
LEMMA AnswerStep ==
  ASSUME IndInv, TokenTypes', TokensGrow, jar' = jar,
         NEW t \in Tabs, NEW cookies \in -1..minted', NEW next \in Outcomes,
         Answer(t, cookies, next), next \in Promised => Fresh(t)
  PROVE  IndInv'
<1> DEFINE q == [tabs[t] EXCEPT !.at = "reply", !.cookies = cookies, !.next = next]
<1>1. tabs \in [Tabs -> Tab] /\ tabs[t] \in Tab /\ InOrder(t)
      /\ minted \in Nat /\ minted' \in 0..MaxTokens /\ MaxTokens \in Nat
      /\ tokenVersion \in Nat /\ tokenVersion' \in Nat
  BY WebSessionAssumption DEF IndInv, TypeOK, TokenTypes
<1>2. tabs' = [tabs EXCEPT ![t] = q]
  BY <1>1 DEF Answer
<1>3. cookies \in -1..MaxTokens
  BY <1>1
<1>4. q \in Tab
  BY <1>1, <1>3 DEF Tab, Stages
<1>5. /\ q.access = tabs[t].access /\ q.refresh = tabs[t].refresh
      /\ q.since = tabs[t].since /\ q.cookies = cookies /\ q.next = next
  BY <1>1 DEF Tab
<1>6. jar' \in [access: 0..minted', refresh: 0..minted']
  BY <1>1 DEF IndInv, TypeOK, TokensGrow
<1>7. tabs[t].access \in Int /\ tabs[t].refresh \in Int /\ tabs[t].since \in Int
  BY <1>1 DEF Tab
<1>8. /\ q.access <= minted' /\ q.refresh <= minted' /\ q.cookies <= minted'
      /\ q.since <= tokenVersion'
  BY <1>1, <1>5, <1>7 DEF InOrder, TokensGrow
<1>9. q.next \in Promised => q.access \in 1..minted' /\ ver'[q.access] >= q.since
  BY <1>1, <1>5, <1>7 DEF Fresh, TokensGrow
<1> HIDE DEF q
<1> QED
  BY <1>2, <1>4, <1>6, <1>8, <1>9, TabStep

\* The API mints one pair more.
LEMMA MintStep ==
  ASSUME TypeOK, NEW from \in 0..minted, NEW meta \in {"browser", "web"},
         Mint(from, meta)
  PROVE  TokenTypes' /\ TokensGrow /\ minted' \in -1..minted'
<1>1. /\ setting' = setting /\ setting \in Settings
      /\ minted \in Nat /\ minted + 1 \in Tokens /\ minted' = minted + 1
      /\ minted' \in 0..MaxTokens /\ tokenVersion' = tokenVersion
      /\ tokenVersion \in 0..MaxVersion /\ MaxVersion \in Nat
  BY WebSessionAssumption DEF Mint, TypeOK, Tokens
<1>2. login' \in [Tokens -> 0..MaxTokens]
  <2>1. (IF from = NoToken THEN minted + 1 ELSE login[from]) \in 0..MaxTokens
    <3>1. from # NoToken => from \in Tokens
      BY <1>1, WebSessionAssumption DEF Tokens, NoToken
    <3>2. login \in [Tokens -> 0..MaxTokens] /\ minted + 1 \in 0..MaxTokens
      BY <1>1 DEF TypeOK
    <3> QED
      BY <3>1, <3>2
  <2> QED
    BY <2>1 DEF Mint, TypeOK
<1>3. ver' = [ver EXCEPT ![minted + 1] = tokenVersion]
      /\ ver \in [Tokens -> 0..MaxVersion]
  BY DEF Mint, TypeOK
<1>4. ver' \in [Tokens -> 0..MaxVersion] /\ \A k \in 1..minted : ver'[k] = ver[k]
  BY <1>1, <1>3 DEF Tokens
<1>5. bound' \in [Tokens -> {"browser", "web"}]
  BY DEF Mint, TypeOK
<1>6. 1..minted \subseteq 1..minted' /\ minted + 1 \in 1..minted'
  BY <1>1
<1>7. valid' \subseteq 1..minted' /\ live' \subseteq 1..minted'
  BY <1>6 DEF Mint, TypeOK
<1> QED
  BY <1>1, <1>2, <1>4, <1>5, <1>7 DEF TokenTypes, TokensGrow

\* Steps that leave the tokens alone.
LEMMA TokensStay ==
  ASSUME TypeOK, UNCHANGED <<setting, minted, ver, tokenVersion, login, bound>>,
         valid' \subseteq valid, live' \subseteq live
  PROVE  TokenTypes' /\ TokensGrow
<1>1. minted \in Nat /\ tokenVersion \in Nat
  BY WebSessionAssumption DEF TypeOK
<1> QED
  BY <1>1 DEF TypeOK, TokenTypes, TokensGrow

LEMMA CurrentIsFresh ==
  ASSUME IndInv, NEW t \in Tabs, Current(tabs[t].access)
  PROVE  Fresh(t)
<1>1. InOrder(t) /\ tabs[t] \in Tab
  BY DEF IndInv, TypeOK
<1>2. tabs[t].access \in 1..minted
  BY DEF Current, IndInv, TypeOK
<1> QED
  BY <1>1, <1>2 DEF Current, InOrder, Fresh

\* The page guard and the layout.
LEMMA PageStep ==
  ASSUME IndInv, NEW t \in Tabs, Proxy(t) \/ Confirm(t) \/ Layout(t)
  PROVE  IndInv'
<1>1. TokenTypes' /\ TokensGrow /\ UNCHANGED <<tokens, jar>>
  <2>1. UNCHANGED <<tokens, jar>>
    BY DEF Proxy, Confirm, Layout
  <2> QED
    BY <2>1, TokensStay DEF tokens, IndInv
<1>2. minted' \in Nat
  BY <1>1 DEF TokenTypes
<1>3. ASSUME NEW next \in Outcomes, Answer(t, Keep, next), next \in Promised => Fresh(t)
      PROVE  IndInv'
  <2>1. Keep \in -1..minted'
    BY <1>2 DEF Keep
  <2> QED
    BY <1>1, <1>3, <2>1, AnswerStep
<1>4. ASSUME NEW at \in {"confirm", "layout"}, tabs' = [tabs EXCEPT ![t].at = at]
      PROVE  IndInv'
  <2> DEFINE q == [tabs[t] EXCEPT !.at = at]
  <2>1. tabs \in [Tabs -> Tab] /\ tabs[t] \in Tab /\ InOrder(t)
    BY DEF IndInv, TypeOK
  <2>2. tabs' = [tabs EXCEPT ![t] = q]
    BY <1>4, <2>1
  <2>3. q \in Tab
    BY <2>1 DEF Tab, Stages
  <2>4. /\ q.access = tabs[t].access /\ q.refresh = tabs[t].refresh
        /\ q.cookies = tabs[t].cookies /\ q.since = tabs[t].since /\ q.at # "reply"
    BY <2>1 DEF Tab
  <2>5. jar' \in [access: 0..minted', refresh: 0..minted']
    BY <1>1 DEF IndInv, TypeOK, tokens
  <2>6. /\ q.access <= minted' /\ q.refresh <= minted' /\ q.cookies <= minted'
        /\ q.since <= tokenVersion'
    BY <1>1, <2>1, <2>4 DEF InOrder, tokens
  <2> HIDE DEF q
  <2> QED
    BY <1>1, <2>2, <2>3, <2>4, <2>5, <2>6, TabStep
<1>5. ASSUME Reject(t) PROVE IndInv'
  <2>1. PICK next \in {"refresh", "login"} : Answer(t, Keep, next)
    BY <1>5 DEF Reject
  <2> QED
    BY <1>3, <2>1 DEF Outcomes, Promised
<1>6. ASSUME NEW next \in {"page", "form", "login"}, Answer(t, Keep, next) PROVE IndInv'
  BY <1>3, <1>6 DEF Outcomes, Promised
<1>7. CASE Proxy(t)
  <2>1. CASE tabs[t].path = "login"
    <3>1. PICK next \in {"page", "form"} : Answer(t, Keep, next)
      BY <1>7, <2>1 DEF Proxy
    <3> QED
      BY <1>6, <3>1
  <2>2. CASE tabs[t].path # "login" /\ tabs[t].access \notin valid
    BY <1>5, <1>7, <2>2 DEF Proxy
  <2>3. CASE tabs[t].path # "login" /\ tabs[t].access \in valid
    <3>1. PICK at \in {"confirm", "layout"} : tabs' = [tabs EXCEPT ![t].at = at]
      BY <1>7, <2>3 DEF Proxy
    <3> QED
      BY <1>4, <3>1
  <2> QED
    BY <2>1, <2>2, <2>3
<1>8. CASE Confirm(t)
  BY <1>4, <1>5, <1>8 DEF Confirm
<1>9. CASE Layout(t)
  <2>1. CASE Current(tabs[t].access) /\ Answer(t, Keep, "shown")
    BY <1>3, <2>1, CurrentIsFresh DEF Outcomes
  <2>2. CASE Answer(t, Keep, "login")
    BY <1>6, <2>2
  <2> QED
    BY <1>9, <2>1, <2>2 DEF Layout
<1> QED
  BY <1>7, <1>8, <1>9

\* The API routes.
LEMMA RouteStep ==
  ASSUME IndInv, NEW t \in Tabs,
         Data(t) \/ Refuse(t) \/ Refresh(t) \/ Signin(t) \/ Logout(t)
  PROVE  IndInv'
<1>1. TypeOK /\ tabs[t] \in Tab /\ InOrder(t) /\ minted \in Nat
  BY WebSessionAssumption DEF IndInv, TypeOK
<1>2. tabs[t].refresh \in 0..minted
  BY <1>1 DEF InOrder, Tab
<1>3. ASSUME NEW cookies \in {Keep, NoToken}, NEW next \in Outcomes,
             Answer(t, cookies, next), next \in Promised => Fresh(t),
             UNCHANGED <<setting, minted, ver, tokenVersion, login, bound, jar>>,
             valid' \subseteq valid, live' \subseteq live
      PROVE  IndInv'
  <2>1. cookies \in -1..minted'
    BY <1>1, <1>3 DEF Keep, NoToken
  <2>2. TokenTypes' /\ TokensGrow
    BY <1>1, <1>3, TokensStay
  <2> QED
    BY <1>3, <2>1, <2>2, AnswerStep
<1>4. ASSUME NEW from \in 0..minted, NEW meta \in {"browser", "web"}, Mint(from, meta),
             NEW cookies \in {NoToken, minted'}, NEW next \in {"page", "login", "done"},
             Answer(t, cookies, next), UNCHANGED jar
      PROVE  IndInv'
  <2>1. TokenTypes' /\ TokensGrow /\ minted' \in Nat
    BY <1>1, <1>4, MintStep DEF TokenTypes
  <2>2. cookies \in -1..minted'
    BY <2>1 DEF NoToken
  <2>3. next \in Outcomes /\ next \notin Promised
    BY DEF Outcomes, Promised
  <2> QED
    BY <1>4, <2>1, <2>2, <2>3, AnswerStep
<1>5. CASE Data(t)
  <2> DEFINE next == IF tabs[t].access \in valid /\ (setting.versionCheck => Current(tabs[t].access))
                     THEN "served" ELSE "refused"
  <2>1. Answer(t, Keep, next) /\ UNCHANGED <<tokens, jar>>
    BY <1>5 DEF Data
  <2>2. next \in Promised => Current(tabs[t].access)
    BY DEF Promised
  <2>3. next \in Outcomes
    BY DEF Outcomes
  <2> HIDE DEF next
  <2> QED
    BY <1>3, <2>1, <2>2, <2>3, CurrentIsFresh DEF tokens
<1>6. CASE Refuse(t)
  BY <1>3, <1>6 DEF Refuse, Outcomes, Promised, tokens
<1>7. CASE Logout(t)
  BY <1>3, <1>7 DEF Logout, Outcomes, Promised
<1>8. CASE Signin(t)
  <2>1. NoToken \in 0..minted
    BY <1>1 DEF NoToken
  <2> QED
    BY <1>4, <1>8, <2>1 DEF Signin
<1>9. CASE Refresh(t)
  <2>1. CASE Rotate(t)
    <3>1. PICK next \in {"page", "done"} : Answer(t, minted', next)
      BY <2>1 DEF Rotate
    <3> QED
      BY <1>2, <1>4, <2>1, <3>1 DEF Rotate
  <2>2. CASE RotateLate(t)
    <3>1. PICK next \in {"login", "done"} : Answer(t, NoToken, next)
      BY <2>2 DEF RotateLate
    <3> QED
      BY <1>2, <1>4, <2>2, <3>1 DEF RotateLate
  <2>3. CASE RotateRefused(t)
    <3>1. PICK next \in {"login", "done"} : Answer(t, NoToken, next)
      BY <2>3 DEF RotateRefused
    <3>2. live' \subseteq live /\ UNCHANGED <<setting, minted, login, ver, bound, valid, tokenVersion, jar>>
      BY <2>3 DEF RotateRefused
    <3> QED
      BY <1>3, <3>1, <3>2 DEF Outcomes, Promised
  <2>4. CASE RotateNone(t)
    <3>1. PICK next \in {"login", "done"} : Answer(t, NoToken, next)
      BY <2>4 DEF RotateNone
    <3> QED
      BY <1>3, <2>4, <3>1 DEF RotateNone, Outcomes, Promised, tokens
  <2> QED
    BY <1>9, <2>1, <2>2, <2>3, <2>4 DEF Refresh
<1> QED
  BY <1>5, <1>6, <1>7, <1>8, <1>9

\* The browser sends a request with the cookies it holds.
LEMMA RequestType ==
  ASSUME IndInv, NEW path \in Paths, NEW hops \in 0..MaxHops,
         NEW cookies \in [access: 0..minted, refresh: 0..minted]
  PROVE  /\ Request(path, cookies, hops) \in Tab
         /\ Request(path, cookies, hops).at # "reply"
         /\ Request(path, cookies, hops).access <= minted
         /\ Request(path, cookies, hops).refresh <= minted
         /\ Request(path, cookies, hops).cookies <= minted
         /\ Request(path, cookies, hops).since <= tokenVersion
<1>1. minted \in 0..MaxTokens /\ tokenVersion \in 0..MaxVersion
      /\ MaxTokens \in Nat /\ MaxVersion \in Nat
  BY WebSessionAssumption DEF IndInv, TypeOK
<1>2. Handler(path) \in Stages /\ Handler(path) # "reply"
  BY DEF Handler, Paths, Stages
<1>3. cookies.access \in 0..minted /\ cookies.refresh \in 0..minted
  OBVIOUS
<1>4. cookies.access \in 0..MaxTokens /\ cookies.refresh \in 0..MaxTokens
  BY <1>1, <1>3
<1> DEFINE r == IF path \in UnderApiAuth THEN cookies.refresh ELSE NoToken
<1>5. r \in 0..MaxTokens /\ r <= minted
  BY <1>1, <1>3, <1>4 DEF NoToken
<1>6. Keep \in -1..MaxTokens /\ Keep <= minted /\ "none" \in Outcomes
  BY <1>1 DEF Keep, Outcomes
<1> HIDE DEF r
<1>7. Request(path, cookies, hops) =
        [at |-> Handler(path), path |-> path, access |-> cookies.access,
         refresh |-> r, cookies |-> Keep, next |-> "none",
         since |-> tokenVersion, hops |-> hops]
  BY DEF Request, r
<1> QED
  BY <1>1, <1>2, <1>3, <1>4, <1>5, <1>6, <1>7 DEF Tab

\* A tab without a request.
LEMMA IdleType ==
  ASSUME IndInv
  PROVE  /\ IdleTab \in Tab /\ IdleTab.at # "reply"
         /\ IdleTab.access <= minted /\ IdleTab.refresh <= minted
         /\ IdleTab.cookies <= minted /\ IdleTab.since <= tokenVersion
<1>1. minted \in Nat /\ tokenVersion \in Nat
  BY WebSessionAssumption DEF IndInv, TypeOK
<1> QED
  BY <1>1, WebSessionAssumption
  DEF IdleTab, Tab, Stages, Paths, Outcomes, NoToken, Keep

\* The browser's own steps.
LEMMA BrowserStep ==
  ASSUME IndInv, NEW t \in Tabs,
         (\E path \in Paths : Visit(t, path)) \/ Follow(t) \/ Lose(t)
  PROVE  IndInv'
<1>1. TypeOK /\ tabs[t] \in Tab /\ InOrder(t) /\ minted \in Nat
      /\ jar \in [access: 0..minted, refresh: 0..minted]
  BY WebSessionAssumption DEF IndInv, TypeOK
<1>2. UNCHANGED tokens
  BY DEF Visit, Follow, Lose
<1>3. TokenTypes' /\ TokensGrow
  BY <1>1, <1>2, TokensStay DEF tokens
<1>4. ASSUME NEW q \in Tab, tabs' = [tabs EXCEPT ![t] = q], q.at # "reply",
             q.access <= minted, q.refresh <= minted, q.cookies <= minted,
             q.since <= tokenVersion,
             jar' \in [access: 0..minted, refresh: 0..minted]
      PROVE  IndInv'
  BY <1>2, <1>3, <1>4, TabStep DEF tokens
<1>5. ASSUME NEW path \in Paths, Visit(t, path) PROVE IndInv'
  <2>1. 0 \in 0..MaxHops
    BY WebSessionAssumption
  <2>2. tabs' = [tabs EXCEPT ![t] = Request(path, jar, 0)] /\ jar' = jar
    BY <1>5 DEF Visit
  <2> QED
    BY <1>1, <1>4, <2>1, <2>2, RequestType
<1>6. CASE Follow(t)
  <2>1. Receive(t) \in [access: 0..minted, refresh: 0..minted]
    <3>1. tabs[t].cookies # Keep => tabs[t].cookies \in 0..minted
      BY <1>1 DEF Tab, InOrder, Keep
    <3> QED
      BY <1>1, <3>1 DEF Receive, NoToken
  <2>2. CASE tabs[t].next \in Paths /\ tabs[t].hops < MaxHops
    <3>1. tabs[t].hops + 1 \in 0..MaxHops
      BY <1>1, <2>2, WebSessionAssumption DEF Tab
    <3>2. tabs' = [tabs EXCEPT ![t] =
                     Request(tabs[t].next, Receive(t), tabs[t].hops + 1)]
      BY <1>6, <2>2 DEF Follow
    <3>3. jar' = Receive(t)
      BY <1>6 DEF Follow
    <3> QED
      BY <1>4, <2>1, <2>2, <3>1, <3>2, <3>3, RequestType
  <2>3. CASE ~(tabs[t].next \in Paths /\ tabs[t].hops < MaxHops)
    <3>1. tabs' = [tabs EXCEPT ![t] = IdleTab] /\ jar' = Receive(t)
      BY <1>6, <2>3 DEF Follow
    <3> QED
      BY <1>4, <2>1, <3>1, IdleType
  <2> QED
    BY <2>2, <2>3
<1>7. CASE Lose(t)
  <2>1. tabs' = [tabs EXCEPT ![t] = IdleTab] /\ jar' = jar
    BY <1>7 DEF Lose
  <2> QED
    BY <1>1, <1>4, <2>1, IdleType
<1> QED
  BY <1>5, <1>6, <1>7

\* Sessions end, tokens expire, secrets change.
LEMMA WorldStep ==
  ASSUME IndInv, RevokeAll \/ Expire \/ RotateSecret
  PROVE  IndInv'
<1>1. setting' = setting /\ minted' = minted /\ ver' = ver /\ tabs' = tabs /\ login' = login /\ bound' = bound
      /\ valid' \subseteq valid /\ live' \subseteq live
  BY DEF RevokeAll, Expire, RotateSecret
<1>2. tokenVersion' \in 0..MaxVersion /\ tokenVersion' >= tokenVersion
      /\ tokenVersion \in Nat
  BY WebSessionAssumption DEF RevokeAll, Expire, RotateSecret, IndInv, TypeOK
<1>3. jar' \in [access: 0..minted, refresh: 0..minted]
  <2>1. jar \in [access: 0..minted, refresh: 0..minted] /\ minted \in Nat
    BY WebSessionAssumption DEF IndInv, TypeOK
  <2>2. CASE Expire
    BY <2>1, <2>2 DEF Expire, NoToken
  <2> QED
    BY <2>1, <2>2 DEF RevokeAll, RotateSecret
<1>4. TypeOK'
  BY <1>1, <1>2, <1>3 DEF IndInv, TypeOK
<1>5. ASSUME NEW t \in Tabs PROVE InOrder(t)'
  <2>1. InOrder(t) /\ tabs[t].since \in Nat
    BY WebSessionAssumption DEF IndInv, TypeOK, Tab
  <2> QED
    BY <1>1, <1>2, <2>1 DEF InOrder, Answered, Fresh, Promised
<1> QED
  BY <1>4, <1>5 DEF IndInv

LEMMA Step == IndInv /\ [Next]_vars => IndInv'
<1> SUFFICES ASSUME IndInv, [Next]_vars PROVE IndInv'
  OBVIOUS
<1>1. CASE UNCHANGED vars
  BY <1>1 DEF vars, IndInv, TypeOK, InOrder, Answered, Fresh, Promised
<1>2. ASSUME NEW t \in Tabs, Serve(t) PROVE IndInv'
  BY <1>2, PageStep, RouteStep DEF Serve
<1>3. ASSUME NEW t \in Tabs, (\E path \in Paths : Visit(t, path)) \/ Follow(t) \/ Lose(t)
      PROVE  IndInv'
  BY <1>3, BrowserStep
<1> QED
  BY <1>1, <1>2, <1>3, WorldStep DEF Next

\* The invariant holds for any number of tabs, redirects and tokens.
THEOREM Inductive == Spec => []IndInv
BY InitIndInv, Step, PTL DEF Spec

\* Every variable keeps its type.
THEOREM TypeCorrect == Spec => []TypeOK
BY Inductive, PTL DEF IndInv

\* Pages, and data unless the deployment opted out of the version check, are
\* not given to a session that had ended when they were asked for.
THEOREM EndedSessionsGetNothing == Spec => []ServedOnlyWhileCurrent
<1>1. IndInv => ServedOnlyWhileCurrent
  BY DEF IndInv, InOrder, Fresh, ServedOnlyWhileCurrent
<1> QED
  BY <1>1, Inductive, PTL

-----------------------------------------------------------------------------
(* The browser's refresh token moves forward                               *)

\* The newest pair of its login.
Newest(k) == \A j \in 1..minted : login[j] = login[k] => j <= k

\* A login has the number of its first pair.
LoginsNamed == \A k \in 1..minted : login[k] \in 1..k

LiveIsNewest == \A k \in live : Newest(k)

\* A pair on its way to the browser is the newest of its login, and nobody has
\* it yet.
Undelivered(t) ==
  LET k == tabs[t].cookies IN
  tabs[t].at = "reply" /\ k > NoToken =>
    /\ Newest(k)
    /\ jar.refresh # k
    /\ \A u \in Tabs : tabs[u].refresh # k /\ (u # t => tabs[u].cookies # k)

InLine == LoginsNamed /\ LiveIsNewest /\ \A t \in Tabs : Undelivered(t)

LineInv == IndInv /\ InLine

\* What is on its way stays new when nothing is minted: the browser may take
\* what tab t was waiting for, and send what it holds.
LEMMA LineKept ==
  ASSUME LineInv, UNCHANGED <<minted, login>>, live' \subseteq live,
         NEW t \in Tabs, NEW q, tabs' = [tabs EXCEPT ![t] = q],
         q.cookies \in {NoToken, Keep},
         q.refresh \in {NoToken, tabs[t].refresh, jar'.refresh},
         jar'.refresh \in {NoToken, jar.refresh, tabs[t].cookies}
  PROVE  InLine'
<1>1. tabs \in [Tabs -> Tab] /\ minted \in Nat
  BY WebSessionAssumption DEF LineInv, IndInv, TypeOK
<1>2. LoginsNamed' /\ LiveIsNewest'
  BY DEF LineInv, InLine, LoginsNamed, LiveIsNewest, Newest
<1>3. ASSUME NEW u \in Tabs PROVE Undelivered(u)'
  <2>1. CASE u = t
    BY <1>1, <2>1 DEF Undelivered, NoToken, Keep
  <2>2. CASE u # t
    <3>1. tabs'[u] = tabs[u] /\ tabs'[t] = q
          /\ \A v \in Tabs : v # t => tabs'[v] = tabs[v]
      BY <1>1, <2>2
    <3>2. Undelivered(u)
      BY DEF LineInv, InLine
    <3> SUFFICES ASSUME tabs[u].at = "reply", tabs[u].cookies > NoToken
                 PROVE  /\ Newest(tabs[u].cookies)'
                        /\ jar'.refresh # tabs[u].cookies
                        /\ \A v \in Tabs : /\ tabs'[v].refresh # tabs[u].cookies
                                           /\ v # u => tabs'[v].cookies # tabs[u].cookies
      BY <3>1 DEF Undelivered
    <3>3. /\ Newest(tabs[u].cookies)
          /\ jar.refresh # tabs[u].cookies
          /\ \A v \in Tabs : /\ tabs[v].refresh # tabs[u].cookies
                             /\ v # u => tabs[v].cookies # tabs[u].cookies
      BY <3>2 DEF Undelivered
    <3>4. Newest(tabs[u].cookies)'
      BY <3>1, <3>3 DEF Newest
    <3>5. tabs[u].cookies \in Int /\ tabs[u].cookies # NoToken /\ tabs[u].cookies # Keep
      BY <1>1 DEF Tab, NoToken, Keep
    <3>6. jar'.refresh # tabs[u].cookies
      BY <2>2, <3>3, <3>5
    <3>7. q.refresh # tabs[u].cookies /\ q.cookies # tabs[u].cookies
      BY <3>3, <3>5, <3>6
    <3>8. ASSUME NEW v \in Tabs
          PROVE  /\ tabs'[v].refresh # tabs[u].cookies
                 /\ v # u => tabs'[v].cookies # tabs[u].cookies
      <4>1. CASE v = t
        BY <3>1, <3>7, <4>1
      <4>2. CASE v # t
        BY <3>1, <3>3, <4>2
      <4> QED
        BY <4>1, <4>2
    <3> QED
      BY <3>4, <3>6, <3>8
  <2> QED
    BY <2>1, <2>2
<1> QED
  BY <1>2, <1>3 DEF InLine

\* A pair is minted for tab t, from the live token it presented or for a login:
\* the token it replaces is not one that another tab still waits for, since t
\* had it.
LEMMA LineMinted ==
  ASSUME LineInv, NEW t \in Tabs, NEW from, NEW meta, Mint(from, meta),
         from = NoToken \/ (from \in live /\ from = tabs[t].refresh),
         jar' = jar, NEW q, tabs' = [tabs EXCEPT ![t] = q],
         q.cookies \in {NoToken, minted'}, q.refresh = tabs[t].refresh
  PROVE  InLine'
<1>0. PICK n \in Int : n = minted + 1
  BY WebSessionAssumption DEF LineInv, IndInv, TypeOK
<1>1. /\ tabs \in [Tabs -> Tab] /\ minted \in Nat /\ MaxTokens \in Nat /\ n \in Tokens
      /\ live \subseteq 1..minted /\ login \in [Tokens -> 0..MaxTokens]
      /\ minted <= MaxTokens
      /\ \A u \in Tabs : tabs[u].refresh <= minted /\ tabs[u].cookies <= minted
  BY <1>0, WebSessionAssumption, SMTT(30) DEF LineInv, IndInv, TypeOK, InOrder, Mint, Tokens
<1>2. /\ minted' = n /\ live' = (live \ {from}) \union {n}
      /\ login' = [login EXCEPT ![n] = IF from = NoToken THEN n ELSE login[from]]
  BY <1>0 DEF Mint
<1>3. n = minted + 1
  BY <1>0
<1>4. LoginsNamed /\ LiveIsNewest /\ (\A u \in Tabs : Undelivered(u))
  BY DEF LineInv, InLine
<1>5. /\ login'[n] = IF from = NoToken THEN n ELSE login[from]
      /\ \A k \in 1..minted : login'[k] = login[k] /\ k \in Tokens
  BY <1>1, <1>2, <1>3 DEF Tokens
<1>6. LoginsNamed'
  <2> SUFFICES ASSUME NEW k \in 1..n PROVE login'[k] \in 1..k
    BY <1>2 DEF LoginsNamed
  <2>1. CASE k = n
    <3>1. CASE from = NoToken
      BY <1>1, <1>3, <1>5, <2>1, <3>1
    <3>2. CASE from # NoToken
      <4>1. from \in 1..minted /\ login[from] \in 1..from
        BY <1>1, <1>4, <3>2 DEF LoginsNamed
      <4> QED
        BY <1>1, <1>3, <1>5, <2>1, <3>2, <4>1
    <3> QED
      BY <3>1, <3>2
  <2>2. CASE k # n
    BY <1>1, <1>3, <1>4, <1>5, <2>2 DEF LoginsNamed
  <2> QED
    BY <2>1, <2>2
\* The older pairs of the login are not newer than the token presented.
<1>7. ASSUME NEW k \in 1..minted, Newest(k), k # from \/ from = NoToken
      PROVE  Newest(k)' /\ login[k] # login'[n]
  <2>1. login[k] # login'[n]
    <3>1. CASE from = NoToken
      BY <1>1, <1>3, <1>4, <1>5, <3>1 DEF LoginsNamed
    <3>2. CASE from # NoToken
      <4>1. Newest(from) /\ from \in 1..minted
        BY <1>1, <1>4, <3>2 DEF LiveIsNewest
      <4>2. login[k] # login[from]
        BY <1>1, <1>7, <3>2, <4>1 DEF Newest
      <4> QED
        BY <1>5, <3>2, <4>2
    <3> QED
      BY <3>1, <3>2
  <2> QED
    BY <1>1, <1>2, <1>3, <1>5, <1>7, <2>1 DEF Newest
<1>8. Newest(n)'
  BY <1>1, <1>2, <1>3 DEF Newest
<1>9. LiveIsNewest'
  <2> SUFFICES ASSUME NEW k \in live' PROVE Newest(k)'
    BY DEF LiveIsNewest
  <2>1. CASE k = n
    BY <1>8, <2>1
  <2>2. CASE k # n
    <3>1. k \in live /\ k # from /\ k \in 1..minted
      BY <1>1, <1>2, <2>2
    <3> QED
      BY <1>4, <1>7, <3>1 DEF LiveIsNewest
  <2> QED
    BY <2>1, <2>2
<1>10. ASSUME NEW u \in Tabs PROVE Undelivered(u)'
  <2>1. /\ tabs'[t] = q /\ \A v \in Tabs : v # t => tabs'[v] = tabs[v]
        /\ \A v \in Tabs : tabs'[v].refresh = tabs[v].refresh
    BY <1>1
  <2>2. jar.refresh \in 0..minted
    BY DEF LineInv, IndInv, TypeOK
  <2>3. \A v \in Tabs : /\ tabs[v].refresh \in Int /\ tabs[v].cookies \in Int
                        /\ tabs[v].refresh # n /\ tabs[v].cookies # n
    BY <1>1, <1>3 DEF Tab
  <2>4. CASE u = t
    <3> SUFFICES ASSUME q.cookies > NoToken
                 PROVE  /\ Newest(q.cookies)' /\ jar'.refresh # q.cookies
                        /\ \A v \in Tabs : /\ tabs'[v].refresh # q.cookies
                                           /\ v # u => tabs'[v].cookies # q.cookies
      BY <2>1, <2>4 DEF Undelivered
    <3>1. q.cookies = n
      BY <1>2 DEF NoToken
    <3> QED
      BY <1>1, <1>3, <1>8, <2>1, <2>2, <2>3, <2>4, <3>1
  <2>5. CASE u # t
    <3>1. Undelivered(u) /\ tabs'[u] = tabs[u]
      BY <1>4, <2>1, <2>5
    <3>0. PICK k \in Int : k = tabs[u].cookies
      BY <2>3
    <3> SUFFICES ASSUME tabs[u].at = "reply", k > NoToken
                 PROVE  /\ Newest(k)' /\ jar'.refresh # k
                        /\ \A v \in Tabs : /\ tabs'[v].refresh # k
                                           /\ v # u => tabs'[v].cookies # k
      BY <3>0, <3>1 DEF Undelivered
    <3>2. /\ Newest(k) /\ jar.refresh # k
          /\ \A v \in Tabs : tabs[v].refresh # k /\ (v # u => tabs[v].cookies # k)
      BY <3>0, <3>1 DEF Undelivered
    <3>3. k \in 1..minted /\ k # n /\ k # NoToken
      BY <1>1, <1>3, <2>3, <3>0 DEF NoToken
    <3>4. Newest(k)'
      BY <1>7, <3>2, <3>3
    <3>5. q.cookies # k
      BY <1>2, <3>3
    <3> QED
      BY <2>1, <3>2, <3>4, <3>5
  <2> QED
    BY <2>4, <2>5
<1> QED
  BY <1>6, <1>9, <1>10 DEF InLine

\* The guard's and the routes' answers that mint nothing.
LEMMA LineAnswered ==
  ASSUME LineInv, NEW t \in Tabs, UNCHANGED <<minted, login, jar>>, live' \subseteq live,
         \/ \E cookies \in {NoToken, Keep}, next \in Outcomes : Answer(t, cookies, next)
         \/ \E at \in {"confirm", "layout"} :
              tabs[t].at # "reply" /\ tabs' = [tabs EXCEPT ![t].at = at]
  PROVE  InLine'
<1>1. tabs \in [Tabs -> Tab] /\ tabs[t] \in Tab
  BY DEF LineInv, IndInv, TypeOK
<1>2. ASSUME NEW cookies \in {NoToken, Keep}, NEW next \in Outcomes, Answer(t, cookies, next)
      PROVE  InLine'
  <2> DEFINE q == [tabs[t] EXCEPT !.at = "reply", !.cookies = cookies, !.next = next]
  <2>1. tabs' = [tabs EXCEPT ![t] = q]
    BY <1>1, <1>2 DEF Answer
  <2>2. q.cookies \in {NoToken, Keep} /\ q.refresh = tabs[t].refresh
    BY <1>1 DEF Tab
  <2> HIDE DEF q
  <2> QED
    BY <2>1, <2>2, LineKept
<1>3. ASSUME NEW at \in {"confirm", "layout"}, tabs' = [tabs EXCEPT ![t].at = at]
      PROVE  InLine'
  <2>1. ASSUME NEW u \in Tabs PROVE tabs'[u].refresh = tabs[u].refresh /\ tabs'[u].cookies = tabs[u].cookies
                                    /\ (tabs'[u].at = "reply" => tabs[u].at = "reply")
    BY <1>1, <1>3 DEF Tab
  <2>2. LoginsNamed' /\ LiveIsNewest'
    BY DEF LineInv, InLine, LoginsNamed, LiveIsNewest, Newest
  <2>3. ASSUME NEW u \in Tabs PROVE Undelivered(u)'
    <3>1. Undelivered(u)
      BY DEF LineInv, InLine
    <3>2. Newest(tabs[u].cookies) => Newest(tabs[u].cookies)'
      BY <2>1 DEF Newest
    <3> QED
      BY <2>1, <3>1, <3>2 DEF Undelivered, Newest
  <2> QED
    BY <2>2, <2>3 DEF InLine
<1> QED
  BY <1>2, <1>3

LEMMA LineServed ==
  ASSUME LineInv, NEW t \in Tabs, Serve(t)
  PROVE  InLine'
<1>1. tabs \in [Tabs -> Tab] /\ tabs[t] \in Tab
  BY DEF LineInv, IndInv, TypeOK
<1>2. ASSUME NEW cookies \in {NoToken, Keep}, NEW next \in Outcomes, Answer(t, cookies, next),
             UNCHANGED <<minted, login, jar>>, live' \subseteq live
      PROVE  InLine'
  BY <1>2, LineAnswered
<1>3. ASSUME NEW from, NEW meta, Mint(from, meta),
             from = NoToken \/ (from \in live /\ from = tabs[t].refresh),
             NEW cookies \in {NoToken, minted'}, NEW next, Answer(t, cookies, next),
             jar' = jar
      PROVE  InLine'
  <2> DEFINE q == [tabs[t] EXCEPT !.at = "reply", !.cookies = cookies, !.next = next]
  <2>1. tabs' = [tabs EXCEPT ![t] = q]
    BY <1>1, <1>3 DEF Answer
  <2>2. q.cookies = cookies /\ q.refresh = tabs[t].refresh
    BY <1>1 DEF Tab
  <2> HIDE DEF q
  <2> QED
    BY <1>3, <2>1, <2>2, LineMinted
<1>4. CASE Proxy(t) \/ Confirm(t) \/ Layout(t)
  <2>1. /\ UNCHANGED <<minted, login, live, jar>>
        /\ \/ \E next \in Outcomes : Answer(t, Keep, next)
           \/ \E at \in {"confirm", "layout"} :
                tabs[t].at # "reply" /\ tabs' = [tabs EXCEPT ![t].at = at]
    BY <1>4 DEF Proxy, Confirm, Layout, Reject, Outcomes, tokens
  <2> QED
    BY <2>1, LineAnswered
<1>5. CASE Data(t) \/ Refuse(t)
  <2>1. \E next \in Outcomes : Answer(t, Keep, next)
    BY <1>5 DEF Data, Refuse, Outcomes
  <2> QED
    BY <1>2, <1>5, <2>1 DEF Data, Refuse, tokens
<1>6. CASE Logout(t)
  BY <1>2, <1>6 DEF Logout, Outcomes
<1>7. CASE Signin(t)
  BY <1>3, <1>7 DEF Signin
<1>8. CASE Refresh(t)
  <2>1. CASE Rotate(t) \/ RotateLate(t)
    BY <1>3, <2>1 DEF Rotate, RotateLate, Rotates
  <2>2. CASE RotateRefused(t) \/ RotateNone(t)
    <3>1. \E next \in Outcomes : Answer(t, NoToken, next)
      BY <2>2 DEF RotateRefused, RotateNone, Outcomes
    <3>2. UNCHANGED <<minted, login, jar>> /\ live' \subseteq live
      BY <2>2 DEF RotateRefused, RotateNone, tokens
    <3> QED
      BY <1>2, <3>1, <3>2
  <2> QED
    BY <1>8, <2>1, <2>2 DEF Refresh
<1> QED
  BY <1>4, <1>5, <1>6, <1>7, <1>8 DEF Serve

LEMMA LineBrowsed ==
  ASSUME LineInv, NEW t \in Tabs,
         (\E path \in Paths : Visit(t, path)) \/ Follow(t) \/ Lose(t)
  PROVE  InLine'
<1>1. /\ tabs \in [Tabs -> Tab] /\ tabs[t] \in Tab /\ UNCHANGED <<minted, login, live>>
      /\ jar \in [access: 0..minted, refresh: 0..minted]
  BY DEF LineInv, IndInv, TypeOK, Visit, Follow, Lose, tokens
<1>2. ASSUME NEW path, NEW cookies, NEW hops, cookies.refresh = jar'.refresh,
             jar'.refresh \in {NoToken, jar.refresh, tabs[t].cookies},
             tabs' = [tabs EXCEPT ![t] = Request(path, cookies, hops)]
      PROVE  InLine'
  <2>1. /\ Request(path, cookies, hops).cookies = Keep
        /\ Request(path, cookies, hops).refresh \in {NoToken, jar'.refresh}
    BY <1>2 DEF Request
  <2> QED
    BY <1>1, <1>2, <2>1, LineKept
<1>3. ASSUME jar'.refresh \in {NoToken, jar.refresh, tabs[t].cookies},
             tabs' = [tabs EXCEPT ![t] = IdleTab]
      PROVE  InLine'
  <2>1. IdleTab.cookies = Keep /\ IdleTab.refresh = NoToken
    BY DEF IdleTab
  <2> QED
    BY <1>1, <1>3, <2>1, LineKept
<1>4. CASE \E path \in Paths : Visit(t, path)
  BY <1>2, <1>4 DEF Visit
<1>5. CASE Follow(t)
  <2>1. jar' = Receive(t) /\ Receive(t).refresh \in {jar.refresh, tabs[t].cookies}
    BY <1>5 DEF Follow, Receive
  <2> QED
    BY <1>2, <1>3, <1>5, <2>1 DEF Follow
<1>6. CASE Lose(t)
  BY <1>3, <1>6 DEF Lose
<1> QED
  BY <1>4, <1>5, <1>6

LEMMA LineStep == LineInv /\ [Next]_vars => LineInv'
<1> SUFFICES ASSUME LineInv, [Next]_vars PROVE InLine'
  BY Step DEF LineInv
<1>1. CASE UNCHANGED vars
  BY <1>1 DEF vars, LineInv, InLine, LoginsNamed, LiveIsNewest, Newest, Undelivered
<1>2. CASE RevokeAll \/ Expire \/ RotateSecret
  <2>1. UNCHANGED <<minted, login, tabs>> /\ live' \subseteq live /\ jar'.refresh = jar.refresh
    <3>1. jar \in [access: 0..minted, refresh: 0..minted]
      BY DEF LineInv, IndInv, TypeOK
    <3> QED
      BY <1>2, <3>1 DEF RevokeAll, Expire, RotateSecret
  <2> QED
    BY <2>1 DEF LineInv, InLine, LoginsNamed, LiveIsNewest, Newest, Undelivered
<1> QED
  BY <1>1, <1>2, LineServed, LineBrowsed DEF Next

LEMMA InitLineInv == Init => LineInv
<1> SUFFICES ASSUME Init PROVE InLine
  BY InitIndInv DEF LineInv
<1> QED
  BY DEF Init, InLine, LoginsNamed, LiveIsNewest, Newest, Undelivered, IdleTab, NoToken, Keep

\* Within a login the browser's refresh token only moves forward, for any
\* number of tabs, lost answers and logins.
THEOREM TokenMovesForward == Spec => SessionNeverGoesBack
<1> DEFINE Forward ==
      /\ jar.refresh # NoToken /\ jar'.refresh # NoToken
      /\ login[jar.refresh] = login'[jar'.refresh]
      => jar'.refresh >= jar.refresh
<1>1. LineInv /\ [Next]_vars => [Forward]_vars
  <2> SUFFICES ASSUME LineInv, Next PROVE Forward
    BY DEF vars
  <2>1. /\ jar \in [access: 0..minted, refresh: 0..minted] /\ minted \in Nat
        /\ tabs \in [Tabs -> Tab]
    BY WebSessionAssumption DEF LineInv, IndInv, TypeOK
  <2>2. CASE jar'.refresh = jar.refresh
    BY <2>1, <2>2
  <2>3. ASSUME NEW t \in Tabs, Follow(t), jar'.refresh # jar.refresh PROVE Forward
    <3>1. jar'.refresh = tabs[t].cookies /\ tabs[t].cookies # Keep /\ login' = login
      BY <2>3 DEF Follow, Receive, tokens
    <3> SUFFICES ASSUME jar.refresh # NoToken, tabs[t].cookies # NoToken,
                        login[jar.refresh] = login[tabs[t].cookies]
                 PROVE  tabs[t].cookies >= jar.refresh
      BY <3>1
    <3>2. tabs[t].cookies \in Nat /\ tabs[t].cookies > NoToken
      BY <2>1, <3>1, WebSessionAssumption DEF Tab, Keep, NoToken
    <3>3. Newest(tabs[t].cookies)
      BY <2>3, <3>2 DEF LineInv, InLine, Undelivered, Follow
    <3>4. jar.refresh \in 1..minted
      BY <2>1 DEF NoToken
    <3> QED
      BY <3>2, <3>3, <3>4 DEF Newest
  <2>4. \/ \E t \in Tabs : Follow(t)
        \/ jar'.refresh = jar.refresh
    <3>1. ASSUME NEW t \in Tabs, Serve(t) PROVE jar' = jar
      BY <3>1 DEF Serve, Proxy, Confirm, Layout, Data, Refuse, Refresh, Rotate, RotateLate,
                  RotateRefused, RotateNone, Signin, Logout
    <3>2. ASSUME NEW t \in Tabs, (\E path \in Paths : Visit(t, path)) \/ Lose(t)
          PROVE  jar' = jar
      BY <3>2 DEF Visit, Lose
    <3>3. ASSUME RevokeAll \/ Expire \/ RotateSecret PROVE jar'.refresh = jar.refresh
      BY <2>1, <3>3 DEF RevokeAll, Expire, RotateSecret
    <3> QED
      BY <3>1, <3>2, <3>3 DEF Next
  <2> HIDE DEF Forward
  <2> QED
    BY <2>2, <2>3, <2>4
<1> QED
  BY <1>1, InitLineInv, LineStep, PTL DEF Spec, SessionNeverGoesBack

-----------------------------------------------------------------------------
(* The undisturbed browser                                                 *)

\* Nobody else ends a session, so every pair is of the first version.
VersionsAgree == tokenVersion = 0 /\ \A k \in 1..minted : ver[k] = 0

\* Where a request q can be, by its path.
OnStage(q) ==
  /\ q.at # "reply" =>
       /\ q.path \in {"page", "login"} <=> q.at \in {"proxy", "confirm", "layout"}
       /\ q.path \in {"refresh", "renew"} <=> q.at = "refresh"
  /\ q.at \in {"confirm", "layout"} => q.path = "page"
  /\ q.path \in {"page", "login"} => q.refresh = NoToken
  /\ q.path \notin {"page", "login"} => q.hops = 0

\* A browser that was sent on to the login page holds no valid token, so the
\* login page does not send it back.
InHops(q) ==
  /\ q.path = "page" => q.hops <= 1
  /\ q.path = "login" /\ q.hops > 0 => q.access \notin valid
  /\ jar.access \in {q.access, NoToken}
  /\ q.at = "reply" =>
       /\ q.next # "refresh"
       /\ q.next = "page" => q.hops = 0
       /\ q.next = "login" =>
            /\ q.hops <= 1
            /\ q.cookies = NoToken \/ (q.cookies = Keep /\ q.access \notin valid)

\* The browser's refresh token is live, unless its successor is on the way.
LiveOrNone == live \union {NoToken}
Kept(q) ==
  /\ q.at = "refresh" => q.refresh = jar.refresh
  /\ q.at = "reply" => q.cookies \in LiveOrNone \union {Keep}
  /\ q.at # "reply" \/ q.cookies = Keep => jar.refresh \in LiveOrNone
  /\ q.at = "reply" /\ q.path \in {"refresh", "renew"} /\ q.refresh # NoToken
       => q.cookies # NoToken

Quiet ==
  /\ VersionsAgree
  /\ \A t \in Tabs : tabs[t].at # "idle" =>
       /\ t \in setting.open /\ OnStage(tabs[t]) /\ InHops(tabs[t])
       /\ ~setting.strictBind => Kept(tabs[t])
  /\ (\A t \in Tabs : tabs[t].at = "idle") /\ ~setting.strictBind
       => jar.refresh \in LiveOrNone

QuietInv == IndInv /\ (Undisturbed => Quiet)

\* The one open tab moves on.
LEMMA QuietTab ==
  ASSUME QuietInv, Undisturbed, setting' = setting, VersionsAgree',
         NEW t \in Tabs, t \in setting.open, NEW q, tabs' = [tabs EXCEPT ![t] = q],
         q.at # "idle" => OnStage(q) /\ InHops(q)' /\ (~setting.strictBind => Kept(q)'),
         q.at = "idle" /\ ~setting.strictBind => jar'.refresh \in LiveOrNone'
  PROVE  Quiet'
<1>1. tabs \in [Tabs -> Tab]
  BY DEF QuietInv, IndInv, TypeOK
<1>2. tabs'[t] = q /\ \A u \in Tabs : u # t => tabs'[u] = tabs[u] /\ tabs[u].at = "idle"
  BY <1>1 DEF QuietInv, Quiet, Undisturbed
<1> QED
  BY <1>2 DEF Quiet, OnStage

\* What a request at work is known to be.
LEMMA AtWork ==
  ASSUME QuietInv, Undisturbed, NEW t \in Tabs, tabs[t].at # "idle"
  PROVE  /\ t \in setting.open /\ OnStage(tabs[t]) /\ InHops(tabs[t])
         /\ ~setting.strictBind => Kept(tabs[t])
         /\ VersionsAgree /\ tabs \in [Tabs -> Tab] /\ tabs[t] \in Tab
         /\ minted \in Nat /\ valid \subseteq 1..minted /\ live \subseteq 1..minted
         /\ NoToken \notin valid /\ Keep \notin live
BY WebSessionAssumption DEF QuietInv, Quiet, IndInv, TypeOK, NoToken, Keep

LEMMA QuietAnswer ==
  ASSUME QuietInv, Undisturbed, setting' = setting, VersionsAgree', jar' = jar,
         NEW t \in Tabs, tabs[t].at # "idle", tabs[t].at # "reply",
         NEW cookies, NEW next, Answer(t, cookies, next),
         valid' = valid \/ tabs[t].path \notin {"page", "login"},
         next # "refresh", next = "page" => tabs[t].hops = 0,
         next = "login" =>
           /\ tabs[t].hops <= 1
           /\ cookies = NoToken \/ (cookies = Keep /\ tabs[t].access \notin valid'),
         ~setting.strictBind =>
           /\ cookies \in LiveOrNone' \union {Keep}
           /\ cookies = Keep => live' = live
           /\ tabs[t].at = "refresh" /\ tabs[t].refresh # NoToken => cookies # NoToken
  PROVE  Quiet'
<1> DEFINE q == [tabs[t] EXCEPT !.at = "reply", !.cookies = cookies, !.next = next]
<1>1. /\ t \in setting.open /\ OnStage(tabs[t]) /\ InHops(tabs[t])
      /\ ~setting.strictBind => Kept(tabs[t])
      /\ tabs \in [Tabs -> Tab] /\ tabs[t] \in Tab
  BY AtWork
<1>2. tabs' = [tabs EXCEPT ![t] = q]
  BY <1>1 DEF Answer
<1>3. /\ q.at = "reply" /\ q.cookies = cookies /\ q.next = next
      /\ q.path = tabs[t].path /\ q.access = tabs[t].access
      /\ q.refresh = tabs[t].refresh /\ q.hops = tabs[t].hops
  BY <1>1 DEF Tab
<1>4. PICK r : r = q
  OBVIOUS
<1> HIDE DEF q
<1>5. OnStage(r)
  BY <1>1, <1>3, <1>4 DEF OnStage
<1>6. InHops(r)'
  BY <1>1, <1>3, <1>4 DEF InHops
<1>7. ~setting.strictBind => Kept(r)'
  BY <1>1, <1>3, <1>4 DEF Kept, OnStage, LiveOrNone
<1> QED
  BY <1>1, <1>2, <1>3, <1>4, <1>5, <1>6, <1>7, QuietTab

\* The guard lets a page on to its next check.
LEMMA QuietPasses ==
  ASSUME QuietInv, Undisturbed, UNCHANGED <<tokens, jar>>,
         NEW t \in Tabs, tabs[t].at \in {"proxy", "confirm"}, tabs[t].path = "page",
         NEW at \in {"confirm", "layout"}, tabs' = [tabs EXCEPT ![t].at = at]
  PROVE  Quiet'
<1> DEFINE q == [tabs[t] EXCEPT !.at = at]
<1>1. /\ t \in setting.open /\ OnStage(tabs[t]) /\ InHops(tabs[t])
      /\ ~setting.strictBind => Kept(tabs[t])
      /\ tabs \in [Tabs -> Tab] /\ tabs[t] \in Tab /\ VersionsAgree
  BY AtWork
<1>2. tabs' = [tabs EXCEPT ![t] = q]
  BY <1>1
<1>3. /\ q.at = at /\ q.path = "page" /\ q.access = tabs[t].access
      /\ q.refresh = tabs[t].refresh /\ q.hops = tabs[t].hops
  BY <1>1 DEF Tab
<1>4. PICK r : r = q
  OBVIOUS
<1> HIDE DEF q
<1>5. OnStage(r) /\ InHops(r)'
  BY <1>1, <1>3, <1>4 DEF OnStage, InHops, tokens
<1>6. ~setting.strictBind => Kept(r)'
  BY <1>1, <1>3, <1>4 DEF Kept, LiveOrNone, tokens
<1>7. VersionsAgree' /\ setting' = setting
  BY <1>1 DEF VersionsAgree, tokens
<1> QED
  BY <1>1, <1>2, <1>3, <1>4, <1>5, <1>6, <1>7, QuietTab

LEMMA QuietServed ==
  ASSUME QuietInv, Undisturbed, NEW t \in Tabs, Serve(t)
  PROVE  Quiet'
<1> tabs[t].at # "idle" /\ tabs[t].at # "reply"
  BY DEF Serve, Proxy, Confirm, Layout, Data, Refuse, Refresh, Signin, Logout
<1>1. /\ t \in setting.open /\ OnStage(tabs[t]) /\ InHops(tabs[t])
      /\ ~setting.strictBind => Kept(tabs[t])
      /\ VersionsAgree /\ tabs \in [Tabs -> Tab] /\ tabs[t] \in Tab
      /\ minted \in Nat /\ valid \subseteq 1..minted /\ live \subseteq 1..minted
      /\ NoToken \notin valid /\ Keep \notin live
  BY AtWork
<1>2. ~setting.failures /\ ~setting.revocations /\ tabs[t].hops \in Nat
  BY <1>1, WebSessionAssumption DEF Undisturbed, Tab
\* With no failures and one version a valid token is current.
<1>3. tabs[t].access \in valid => Current(tabs[t].access)
  BY <1>1 DEF Current, VersionsAgree
<1>4. ASSUME UNCHANGED <<tokens, jar>>, NEW next, Answer(t, Keep, next), next # "refresh",
             next = "page" => tabs[t].hops = 0,
             next = "login" => tabs[t].hops <= 1 /\ tabs[t].access \notin valid
      PROVE  Quiet'
  <2>1. VersionsAgree' /\ setting' = setting /\ valid' = valid /\ live' = live /\ jar' = jar
    BY <1>1, <1>4 DEF tokens, VersionsAgree
  <2>2. Keep \in LiveOrNone' \union {Keep} /\ Keep # NoToken
    BY DEF Keep, NoToken
  <2> QED
    BY <1>4, <2>1, <2>2, QuietAnswer
<1>5. CASE Proxy(t)
  <2>1. tabs[t].path \in {"page", "login"} /\ UNCHANGED <<tokens, jar>>
    BY <1>1, <1>5 DEF Proxy, OnStage
  <2>2. CASE tabs[t].path = "login"
    BY <1>1, <1>2, <1>4, <1>5, <2>1, <2>2 DEF Proxy, InHops
  <2>3. CASE tabs[t].path = "page" /\ tabs[t].access \notin valid
    BY <1>1, <1>4, <1>5, <2>1, <2>3 DEF Proxy, Reject, OnStage, InHops
  <2>4. CASE tabs[t].path = "page" /\ tabs[t].access \in valid
    BY <1>5, <2>1, <2>4, QuietPasses DEF Proxy
  <2> QED
    BY <2>1, <2>2, <2>3, <2>4
<1>6. CASE Confirm(t)
  <2>1. tabs[t].path = "page" /\ UNCHANGED <<tokens, jar>>
    BY <1>1, <1>6 DEF Confirm, OnStage
  <2>2. CASE tabs' = [tabs EXCEPT ![t].at = "layout"]
    BY <1>6, <2>1, <2>2, QuietPasses DEF Confirm
  <2>3. CASE tabs[t].access \notin valid /\ Reject(t)
    BY <1>1, <1>4, <2>1, <2>3 DEF Reject, OnStage, InHops
  <2> QED
    BY <1>2, <1>3, <1>6, <2>2, <2>3 DEF Confirm
<1>7. CASE Layout(t)
  <2>1. tabs[t].path = "page" /\ UNCHANGED <<tokens, jar>>
    BY <1>1, <1>7 DEF Layout, OnStage
  <2>2. \/ Answer(t, Keep, "shown")
        \/ tabs[t].access \notin valid /\ Answer(t, Keep, "login")
    BY <1>2, <1>3, <1>7 DEF Layout
  <2> QED
    BY <1>1, <1>4, <2>1, <2>2 DEF InHops
<1>8. CASE Data(t) \/ Refuse(t)
  <2>1. UNCHANGED <<tokens, jar>> /\ \E next \in {"served", "refused"} : Answer(t, Keep, next)
    BY <1>8 DEF Data, Refuse
  <2> QED
    BY <1>4, <2>1
<1>9. CASE Logout(t)
  <2>1. /\ Answer(t, NoToken, "done") /\ jar' = jar /\ setting' = setting /\ valid' = valid
        /\ tabs[t].at # "refresh" /\ VersionsAgree'
    BY <1>1, <1>9 DEF Logout, VersionsAgree
  <2>2. NoToken \in LiveOrNone' /\ NoToken # Keep
    BY DEF LiveOrNone, NoToken, Keep
  <2> QED
    BY <2>1, <2>2, QuietAnswer
\* A pair that is minted and handed over.
<1>10. ASSUME NEW from, NEW meta, Mint(from, meta), jar' = jar,
              NEW next \in {"page", "done"}, Answer(t, minted', next),
              tabs[t].at \in {"refresh", "signin"}
       PROVE  Quiet'
  <2>1. /\ tabs[t].path \notin {"page", "login"} /\ tabs[t].hops = 0
    BY <1>1, <1>10 DEF OnStage
  <2>2. minted' = minted + 1 /\ minted' \in live' /\ setting' = setting
    BY <1>10 DEF Mint
  <2>3. VersionsAgree'
    <3>1. ver \in [Tokens -> 0..MaxVersion] /\ minted + 1 \in Tokens
      BY <1>1, <1>10, WebSessionAssumption DEF QuietInv, IndInv, TypeOK, Mint, Tokens
    <3>2. \A k \in 1..minted' : ver'[k] = 0
      BY <1>1, <1>10, <2>2, <3>1 DEF Mint, VersionsAgree, Tokens
    <3> QED
      BY <1>1, <1>10, <3>2 DEF Mint, VersionsAgree
  <2>4. minted' \in LiveOrNone' \union {Keep} /\ minted' # Keep /\ minted' # NoToken
    BY <1>1, <2>2 DEF LiveOrNone, Keep, NoToken
  <2>5. PICK c : c = minted'
    OBVIOUS
  <2> QED
    BY <1>10, <2>1, <2>2, <2>3, <2>4, <2>5, QuietAnswer
<1>11. CASE Signin(t)
  BY <1>10, <1>11 DEF Signin
<1>12. CASE Refresh(t)
  <2>1. tabs[t].at = "refresh" /\ tabs[t].path \notin {"page", "login"} /\ tabs[t].hops = 0
    BY <1>1, <1>12 DEF Refresh, OnStage
  <2>2. CASE Rotate(t)
    BY <1>10, <2>1, <2>2 DEF Rotate
  <2>3. CASE RotateRefused(t) \/ RotateNone(t)
    <3>1. PICK next \in {"login", "done"} : Answer(t, NoToken, next)
      BY <2>3 DEF RotateRefused, RotateNone
    <3>2. setting' = setting /\ valid' = valid /\ jar' = jar /\ VersionsAgree'
      BY <1>1, <2>3 DEF RotateRefused, RotateNone, tokens, VersionsAgree
    <3>3. ~setting.strictBind => tabs[t].refresh = NoToken
      BY <1>1, <1>2, <2>1, <2>3
      DEF RotateRefused, RotateNone, Rotates, Mismatch, Kept, LiveOrNone
    <3>4. NoToken \in LiveOrNone' /\ NoToken # Keep
      BY DEF LiveOrNone, NoToken, Keep
    <3> QED
      BY <2>1, <3>1, <3>2, <3>3, <3>4, QuietAnswer
  <2> QED
    BY <1>2, <1>12, <2>2, <2>3 DEF Refresh, RotateLate
<1> QED
  BY <1>5, <1>6, <1>7, <1>8, <1>9, <1>11, <1>12 DEF Serve
LEMMA QuietBrowsed ==
  ASSUME QuietInv, Undisturbed, NEW t \in Tabs,
         (\E path \in Paths : Visit(t, path)) \/ Follow(t) \/ Lose(t)
  PROVE  Quiet'
<1>1. /\ UNCHANGED tokens /\ tabs \in [Tabs -> Tab] /\ tabs[t] \in Tab
      /\ Quiet /\ ~setting.failures /\ VersionsAgree /\ NoToken \notin valid
      /\ jar \in [access: 0..minted, refresh: 0..minted]
  BY WebSessionAssumption
  DEF Visit, Follow, Lose, QuietInv, IndInv, TypeOK, Undisturbed, Quiet, NoToken
<1>2. /\ setting' = setting /\ valid' = valid /\ live' = live
      /\ LiveOrNone' = LiveOrNone /\ VersionsAgree'
  BY <1>1 DEF tokens, LiveOrNone, VersionsAgree
\* The next request of the open tab, with the cookies the browser now holds.
<1>3. ASSUME t \in setting.open, NEW path \in Paths, NEW hops,
             tabs' = [tabs EXCEPT ![t] = Request(path, jar', hops)],
             path \notin {"page", "login"} => hops = 0,
             path = "page" => hops <= 1,
             path = "login" /\ hops > 0 => jar'.access \notin valid,
             ~setting.strictBind => jar'.refresh \in LiveOrNone
      PROVE  Quiet'
  <2>1. PICK q : q = Request(path, jar', hops)
    OBVIOUS
  <2>2. /\ q.at = Handler(path) /\ q.path = path /\ q.access = jar'.access
        /\ q.refresh = IF path \in UnderApiAuth THEN jar'.refresh ELSE NoToken
        /\ q.cookies = Keep /\ q.hops = hops
    BY <2>1 DEF Request
  <2>3. /\ q.at \notin {"reply", "confirm", "layout"}
        /\ path \in {"page", "login"} <=> q.at = "proxy"
        /\ path \in {"refresh", "renew"} <=> q.at = "refresh"
    BY <2>2 DEF Handler, Paths
  <2>4. OnStage(q)
    BY <1>3, <2>2, <2>3 DEF OnStage, UnderApiAuth
  <2>5. InHops(q)'
    BY <1>2, <1>3, <2>2, <2>3 DEF InHops
  <2>6. ~setting.strictBind => Kept(q)'
    BY <1>2, <1>3, <2>2, <2>3 DEF Kept, UnderApiAuth
  <2>7. ~setting.strictBind => jar'.refresh \in LiveOrNone'
    BY <1>2, <1>3
  <2>8. tabs' = [tabs EXCEPT ![t] = q]
    BY <1>3, <2>1
  <2> QED
    BY <1>2, <1>3, <2>4, <2>5, <2>6, <2>7, <2>8, QuietTab
<1>4. ASSUME NEW path \in Paths, Visit(t, path) PROVE Quiet'
  <2>1. /\ t \in setting.open /\ tabs[t].at = "idle" /\ jar' = jar
        /\ tabs' = [tabs EXCEPT ![t] = Request(path, jar', 0)]
    BY <1>4 DEF Visit
  <2>2. \A u \in Tabs : tabs[u].at = "idle"
    BY <1>1, <2>1 DEF Quiet, Undisturbed
  <2>3. ~setting.strictBind => jar'.refresh \in LiveOrNone
    BY <1>1, <2>1, <2>2 DEF Quiet
  <2>4. PICK hops : hops = 0 /\ hops <= 1 /\ ~(hops > 0)
    OBVIOUS
  <2>5. tabs' = [tabs EXCEPT ![t] = Request(path, jar', hops)]
    BY <2>1, <2>4
  <2> QED
    BY <1>3, <1>4, <2>1, <2>3, <2>4, <2>5
<1>5. CASE Follow(t)
  <2>1. /\ t \in setting.open /\ OnStage(tabs[t]) /\ InHops(tabs[t])
        /\ ~setting.strictBind => Kept(tabs[t])
        /\ tabs[t].at = "reply" /\ jar' = Receive(t)
    BY <1>5, AtWork DEF Follow
  <2>2. ~setting.strictBind => jar'.refresh \in LiveOrNone
    BY <2>1 DEF Receive, Kept
  <2>3. CASE tabs[t].next \in Paths /\ tabs[t].hops < MaxHops
    <3>1. tabs' = [tabs EXCEPT ![t] = Request(tabs[t].next, jar', tabs[t].hops + 1)]
      BY <1>5, <2>3 DEF Follow
    <3>2. tabs[t].next \in {"page", "login"} /\ tabs[t].hops \in Nat
      BY <1>1, <2>1, <2>3, WebSessionAssumption DEF InHops, Tab, Outcomes, Paths
    <3>3. tabs[t].next = "login" => jar'.access \notin valid
      BY <1>1, <2>1 DEF InHops, Receive, Keep, NoToken
    <3>4. PICK hops : hops = tabs[t].hops + 1
      OBVIOUS
    <3>5. tabs[t].next = "page" => hops <= 1
      BY <2>1, <3>2, <3>4 DEF InHops
    <3> QED
      BY <1>3, <2>1, <2>2, <2>3, <3>1, <3>2, <3>3, <3>4, <3>5
  <2>4. CASE ~(tabs[t].next \in Paths /\ tabs[t].hops < MaxHops)
    <3>1. tabs' = [tabs EXCEPT ![t] = IdleTab] /\ IdleTab.at = "idle"
      BY <1>5, <2>4 DEF Follow, IdleTab
    <3> QED
      BY <1>2, <2>1, <2>2, <3>1, QuietTab
  <2> QED
    BY <2>3, <2>4
<1> QED
  BY <1>1, <1>4, <1>5 DEF Lose

\* Tokens expire and the secret is replaced; nobody revokes.
LEMMA QuietWorld ==
  ASSUME QuietInv, Undisturbed, RevokeAll \/ Expire \/ RotateSecret
  PROVE  Quiet'
<1>1. /\ Quiet /\ ~setting.revocations
      /\ jar \in [access: 0..minted, refresh: 0..minted]
  BY DEF QuietInv, IndInv, TypeOK, Undisturbed
<1>2. /\ UNCHANGED <<setting, minted, ver, live, tokenVersion, tabs>>
      /\ valid' \subseteq valid
      /\ jar'.access \in {jar.access, NoToken} /\ jar'.refresh = jar.refresh
  BY <1>1 DEF RevokeAll, Expire, RotateSecret
<1>3. VersionsAgree' /\ LiveOrNone' = LiveOrNone
  BY <1>1, <1>2 DEF Quiet, VersionsAgree, LiveOrNone
<1>4. ASSUME NEW t \in Tabs, tabs[t].at # "idle"
      PROVE  /\ t \in setting.open /\ OnStage(tabs[t]) /\ InHops(tabs[t])'
             /\ ~setting.strictBind => Kept(tabs[t])'
  <2>1. /\ t \in setting.open /\ OnStage(tabs[t]) /\ InHops(tabs[t])
        /\ ~setting.strictBind => Kept(tabs[t])
    BY <1>1, <1>4 DEF Quiet
  <2>2. InHops(tabs[t])'
    BY <1>2, <2>1 DEF InHops
  <2>3. ~setting.strictBind => Kept(tabs[t])'
    BY <1>2, <1>3, <2>1 DEF Kept
  <2> QED
    BY <2>1, <2>2, <2>3
<1> QED
  BY <1>1, <1>2, <1>3, <1>4 DEF Quiet, OnStage

LEMMA InitQuiet == Init => QuietInv
<1> SUFFICES ASSUME Init PROVE Quiet
  BY InitIndInv DEF QuietInv
<1> QED
  BY DEF Init, Quiet, VersionsAgree, IdleTab, LiveOrNone

LEMMA QuietStep == QuietInv /\ [Next]_vars => QuietInv'
<1> SUFFICES ASSUME QuietInv, [Next]_vars PROVE QuietInv'
  OBVIOUS
<1>1. IndInv'
  BY Step DEF QuietInv
<1>2. setting' = setting
  BY DEF Next, vars, Serve, Proxy, Confirm, Layout, Data, Refuse, Refresh, Rotate, RotateLate,
         RotateRefused, RotateNone, Signin, Logout, Mint, Visit, Follow, Lose, RevokeAll,
         Expire, RotateSecret, tokens
<1>3. Undisturbed' = Undisturbed
  BY <1>2 DEF Undisturbed
<1>4. ASSUME Undisturbed PROVE Quiet'
  <2>1. CASE UNCHANGED vars
    BY <1>4, <2>1
    DEF vars, QuietInv, Quiet, VersionsAgree, OnStage, InHops, Kept, LiveOrNone
  <2> QED
    BY <1>4, <2>1, QuietServed, QuietBrowsed, QuietWorld DEF Next
<1> QED
  BY <1>1, <1>3, <1>4 DEF QuietInv

LEMMA AlwaysQuiet == Spec => []QuietInv
BY InitQuiet, QuietStep, PTL DEF Spec

\* One tab and an API that answers: no refresh signs the browser out, however
\* long it works.  With REFRESH_STRICT_BIND it does, as the pair of a login is
\* bound to the browser's address and the refresh comes from the web tier.
THEOREM UndisturbedKeepsSession == Spec => [](~setting.strictBind => RefreshKeepsSession)
<1>1. QuietInv => (~setting.strictBind => RefreshKeepsSession)
  BY DEF QuietInv, Quiet, Kept, RefreshKeepsSession
<1> QED
  BY <1>1, AlwaysQuiet, PTL

\* One tab and an API that answers: two redirects are enough to reach a page
\* or the login form.
THEOREM UndisturbedNeverLoops ==
  ASSUME MaxHops >= 2
  PROVE  Spec => []NoRedirectLoop
<1>1. QuietInv => NoRedirectLoop
  <2> SUFFICES ASSUME QuietInv, Undisturbed, NEW t \in Tabs,
                      Answered(t, {"page", "login", "refresh"})
               PROVE  tabs[t].hops < MaxHops
    BY DEF NoRedirectLoop
  <2>1. InHops(tabs[t]) /\ tabs[t].hops \in Int /\ tabs[t].at = "reply"
    BY AtWork, WebSessionAssumption DEF Answered, Tab
  <2> QED
    BY <2>1, WebSessionAssumption DEF Answered, InHops
<1> QED
  BY <1>1, AlwaysQuiet, PTL

-----------------------------------------------------------------------------
(* The API that the browser and its guard talk to is one of abstract        *)
(* sessions.                                                                *)

\* The exchangeable token of the login s.
LeafOf(s) ==
  IF \E k \in live : login[k] = s THEN CHOOSE k \in live : login[k] = s ELSE NoToken

Leaves == [s \in Tokens |-> LeafOf(s)]

Abstract == INSTANCE Sessions WITH leaf <- Leaves

ImplementsSessions == Abstract!Spec

LeafFacts ==
  \A s \in Tokens :
    /\ (\A k \in live : login[k] # s) => LeafOf(s) = NoToken
    /\ \A k \in live : login[k] = s => LeafOf(s) = k

\* The newest pair of a login is the only one that is live.
LEMMA LeafIsUnique == LineInv => LeafFacts
<1> SUFFICES ASSUME LineInv, NEW s \in Tokens
             PROVE  /\ (\A k \in live : login[k] # s) => LeafOf(s) = NoToken
                    /\ \A k \in live : login[k] = s => LeafOf(s) = k
  BY DEF LeafFacts
<1>1. (\A k \in live : login[k] # s) => LeafOf(s) = NoToken
  BY DEF LeafOf
<1>2. ASSUME NEW k \in live, login[k] = s PROVE LeafOf(s) = k
  <2>1. minted \in Nat /\ live \subseteq 1..minted /\ LiveIsNewest
    BY WebSessionAssumption DEF LineInv, InLine, IndInv, TypeOK
  <2>2. ASSUME NEW j \in live, login[j] = s PROVE j = k
    <3>1. j \in 1..minted /\ k \in 1..minted /\ Newest(j) /\ Newest(k)
      BY <2>1 DEF LiveIsNewest
    <3>2. j <= k /\ k <= j
      BY <1>2, <2>2, <3>1 DEF Newest
    <3> QED
      BY <2>1, <3>1, <3>2
  <2> QED
    BY <1>2, <2>2 DEF LeafOf
<1> QED
  BY <1>1, <1>2

\* What a step does to the refresh tokens: it mints one, for a login or in the
\* place of a live one, or at most takes some away.
Mints == \E from \in live \union {NoToken}, meta \in {"browser", "web"} : Mint(from, meta)
TakesAway == UNCHANGED <<minted, login>> /\ live' \subseteq live

LEMMA TokenStep == [Next]_vars => Mints \/ TakesAway
<1> SUFFICES ASSUME [Next]_vars PROVE Mints \/ TakesAway
  OBVIOUS
<1>1. ASSUME NEW t \in Tabs, Refresh(t) \/ Signin(t) PROVE Mints \/ TakesAway
  <2>1. ASSUME Rotates(tabs[t].refresh), Mint(tabs[t].refresh, "web") PROVE Mints
    BY <2>1 DEF Rotates, Mints
  <2>2. Mint(NoToken, "browser") => Mints
    BY DEF Mints
  <2>3. CASE RotateRefused(t) \/ RotateNone(t)
    BY <2>3 DEF RotateRefused, RotateNone, TakesAway, tokens
  <2> QED
    BY <1>1, <2>1, <2>2, <2>3 DEF Refresh, Rotate, RotateLate, Signin
<1>2. ASSUME NEW t \in Tabs, Proxy(t) \/ Confirm(t) \/ Layout(t) \/ Data(t) \/ Refuse(t) \/ Logout(t)
      PROVE  TakesAway
  BY <1>2 DEF Proxy, Confirm, Layout, Data, Refuse, Logout, TakesAway, tokens
<1>3. ASSUME NEW t \in Tabs, (\E path \in Paths : Visit(t, path)) \/ Follow(t) \/ Lose(t)
      PROVE  TakesAway
  BY <1>3 DEF Visit, Follow, Lose, TakesAway, tokens
<1>4. RevokeAll \/ Expire \/ RotateSecret \/ UNCHANGED vars => TakesAway
  BY DEF RevokeAll, Expire, RotateSecret, TakesAway, vars
<1> QED
  BY <1>1, <1>2, <1>3, <1>4 DEF Next, Serve

\* Every step of browser, guard and API is a step of the abstract sessions or
\* none at all.
LEMMA StepRefines ==
  ASSUME LineInv, LineInv', [Next]_vars
  PROVE  [Abstract!Next]_<<minted, Leaves>>
<1>1. LeafFacts /\ LeafFacts'
  BY LeafIsUnique, PTL
<1>2. /\ minted \in Nat /\ MaxTokens \in Nat /\ minted <= MaxTokens
      /\ login \in [1..MaxTokens -> 0..MaxTokens] /\ live \subseteq 1..minted
      /\ live \subseteq Tokens
      /\ \A k \in live : login[k] \in Tokens
  <2>1. /\ minted \in Nat /\ MaxTokens \in Nat /\ minted <= MaxTokens
        /\ login \in [1..MaxTokens -> 0..MaxTokens] /\ live \subseteq 1..minted
    BY WebSessionAssumption DEF LineInv, IndInv, TypeOK, Tokens
  <2>2. LoginsNamed
    BY DEF LineInv, InLine
  <2>3. live \subseteq Tokens
    BY <2>1 DEF Tokens
  <2> QED
    BY <2>1, <2>2, <2>3 DEF LoginsNamed, Tokens
<1> DEFINE L == Leaves
<1>3. /\ L = [s \in Tokens |-> LeafOf(s)]
      /\ L' = [s \in Tokens |-> LeafOf(s)']
  BY DEF Leaves
<1> HIDE DEF L
<1>4. CASE TakesAway
  <2> DEFINE C == {s \in Tokens : \A k \in live' : login'[k] # s}
  <2>1. ASSUME NEW s \in Tokens, s \in C PROVE LeafOf(s)' = 0
    BY <1>1, <2>1 DEF LeafFacts, NoToken
  <2>2. ASSUME NEW s \in Tokens, s \notin C PROVE LeafOf(s)' = LeafOf(s)
    <3>1. PICK k \in live' : login'[k] = s
      BY <2>2
    <3>2. k \in live /\ login[k] = s
      BY <1>4, <3>1 DEF TakesAway
    <3> QED
      BY <1>1, <3>1, <3>2 DEF LeafFacts
  <2>3. L' = [s \in Tokens |-> IF s \in C THEN 0 ELSE L[s]]
    BY <1>3, <2>1, <2>2
  <2>4. Abstract!Close(C) /\ C \in SUBSET Tokens
    BY <1>4, <2>3 DEF Abstract!Close, Abstract!Tokens, Tokens, L, TakesAway
  <2> HIDE DEF C
  <2> QED
    BY <2>4 DEF Abstract!Next, Abstract!Tokens, Tokens
<1>5. CASE Mints
  <2>1. PICK from \in live \union {NoToken}, meta \in {"browser", "web"} : Mint(from, meta)
    BY <1>5 DEF Mints
  <2>2. PICK n \in Tokens : n = minted + 1
    BY <1>2, <2>1 DEF Mint, Tokens
  <2>3. PICK s \in Tokens : s = IF from = NoToken THEN n ELSE login[from]
    BY <1>2, <2>2
  <2>4. /\ minted < MaxTokens /\ minted' = n /\ n \notin live
        /\ live' = (live \ {from}) \union {n}
        /\ login' = [login EXCEPT ![n] = s]
    BY <1>2, <2>1, <2>2, <2>3 DEF Mint
  <2>5. login'[n] = s /\ \A k \in live : login'[k] = login[k]
    BY <1>2, <2>2, <2>4 DEF Tokens
  <2>6. LeafOf(s)' = n
    BY <1>1, <2>4, <2>5 DEF LeafFacts
  <2>7. ASSUME NEW r \in Tokens, r # s PROVE LeafOf(r)' = LeafOf(r)
    <3>1. ASSUME NEW k \in live, login[k] = r PROVE LeafOf(r)' = LeafOf(r)
      <4>1. k # from
        BY <1>2, <2>3, <2>7, <3>1 DEF NoToken
      <4>2. k \in live' /\ login'[k] = r
        BY <2>4, <2>5, <3>1, <4>1
      <4> QED
        BY <1>1, <3>1, <4>2 DEF LeafFacts
    <3>2. ASSUME \A k \in live : login[k] # r PROVE LeafOf(r)' = LeafOf(r)
      <4>1. \A k \in live' : login'[k] # r
        BY <2>4, <2>5, <2>7, <3>2
      <4> QED
        BY <1>1, <3>2, <4>1 DEF LeafFacts
    <3> QED
      BY <3>1, <3>2
  <2>8. L' = [L EXCEPT ![s] = n]
    BY <1>3, <2>6, <2>7
  <2>9. CASE from = NoToken
    <3>1. Abstract!Open
      BY <2>2, <2>3, <2>4, <2>8, <2>9 DEF Abstract!Open, L
    <3> QED
      BY <3>1 DEF Abstract!Next
  <2>10. CASE from # NoToken
    <3>1. from \in live /\ LeafOf(s) = from /\ from # 0
      BY <1>1, <1>2, <2>3, <2>10 DEF LeafFacts, NoToken
    <3>2. Abstract!Exchange(s)
      BY <1>3, <2>2, <2>4, <2>8, <3>1 DEF Abstract!Exchange, L
    <3> QED
      BY <3>2 DEF Abstract!Next, Abstract!Tokens, Tokens
  <2> QED
    BY <2>9, <2>10
<1> QED
  BY <1>4, <1>5, TokenStep

\* Tabs, redirects, lost answers, revocations: what the browser meets is an API
\* of sessions that open, pass from leaf to leaf, and close for good - the one
\* that the token store, statement by statement, implements as well.
THEOREM ApiImplementsSessions == Spec => ImplementsSessions
<1>1. Init => Abstract!Init
  BY DEF Init, Abstract!Init, Abstract!Tokens, Tokens, Leaves, LeafOf, NoToken
<1>2. LineInv /\ LineInv' /\ [Next]_vars => [Abstract!Next]_<<minted, Leaves>>
  BY StepRefines
<1> QED
  BY <1>1, <1>2, InitLineInv, LineStep, PTL
     DEF Spec, ImplementsSessions, Abstract!Spec, Leaves

=============================================================================
