------------------------------- MODULE WebSession -------------------------------
(***************************************************************************)
(* The session of one browser: its two cookies, the page guard of the web  *)
(* application (web/src/proxy.ts and the layout of the private pages), the *)
(* auth routes that set and clear the cookies, and the API behind them.    *)
(*                                                                         *)
(* Every tab has at most one request under way.  A request carries the     *)
(* cookies the browser held when it sent it; its answer sets cookies when  *)
(* it arrives, and may redirect.  The refresh cookie is only sent to paths *)
(* under /api/auth.                                                        *)
(*                                                                         *)
(* A login or a rotation mints an access and a refresh token together:     *)
(* token k is the k-th such pair.  What RefreshTokens does statement by    *)
(* statement is one step here.                                             *)
(***************************************************************************)
EXTENDS Integers, FiniteSets

CONSTANTS Tabs,          \* tabs of the browser
          Settings,      \* the deployments and circumstances to consider
          MaxHops,       \* redirects after which the browser gives up
          MaxTokens,     \* bound: pairs of tokens minted
          MaxVersion     \* bound: increments of User.tokenVersion

\* versionCheck is isSessionVersionCheckEnabled() and strictBind is
\* REFRESH_STRICT_BIND; with failures the API may be down or late and answers
\* be lost; with revocations another device may end every session; the user
\* works in the open tabs.
Setting == [versionCheck: BOOLEAN, strictBind: BOOLEAN, failures: BOOLEAN,
            revocations: BOOLEAN, open: SUBSET Tabs]

ASSUME WebSessionAssumption ==
  /\ Settings \subseteq Setting
  /\ MaxHops \in Nat /\ MaxTokens \in Nat /\ MaxVersion \in Nat

VARIABLES
  setting,       \* the setting of this behaviour
  minted,        \* pairs of tokens minted so far
  login,         \* of every pair: the first pair of its login (familyId)
  ver,           \* of every pair: the `ver` claim of the access token
  bound,         \* of every pair: whose address and user agent the API stored
  valid,         \* access tokens whose signature and expiry verify
  live,          \* refresh tokens that are not revoked
  tokenVersion,  \* User.tokenVersion
  jar,           \* the cookies of the browser
  tabs           \* the request of every tab

vars == <<setting, minted, login, ver, bound, valid, live, tokenVersion, jar, tabs>>

\* The setting, and what the API keeps.
tokens == <<setting, minted, login, ver, bound, valid, live, tokenVersion>>

Tokens  == 1..MaxTokens
NoToken == 0    \* no cookie; as Set-Cookie: both cookies are cleared
Keep    == -1   \* an answer without Set-Cookie

Paths == {"page", "login", "data", "refresh", "renew", "signin", "logout"}

\* Where a request is answered first.
Stages == {"idle", "proxy", "confirm", "layout", "data", "refresh", "signin",
           "logout", "reply"}

\* The outcome of a request: the paths of redirects, and what ends a
\* navigation: a page shown, the login form, an answer of an API route.
Outcomes == {"none", "page", "login", "refresh", "shown", "form", "served",
             "refused", "done"}

Tab == [at: Stages, path: Paths, access: 0..MaxTokens, refresh: 0..MaxTokens,
        cookies: -1..MaxTokens, next: Outcomes, since: 0..MaxVersion,
        hops: 0..MaxHops]

IdleTab == [at |-> "idle", path |-> "page", access |-> NoToken,
            refresh |-> NoToken, cookies |-> Keep, next |-> "none",
            since |-> 0, hops |-> 0]

Init ==
  /\ setting \in Settings
  /\ minted = 0
  /\ login = [k \in Tokens |-> NoToken]
  /\ ver = [k \in Tokens |-> 0]
  /\ bound = [k \in Tokens |-> "browser"]
  /\ valid = {}
  /\ live = {}
  /\ tokenVersion = 0
  /\ jar = [access |-> NoToken, refresh |-> NoToken]
  /\ tabs = [t \in Tabs |-> IdleTab]

-----------------------------------------------------------------------------
(* The browser                                                             *)

UnderApiAuth == {"refresh", "renew", "signin", "logout"}

Handler(path) ==
  CASE path \in {"page", "login"}     -> "proxy"
    [] path \in {"refresh", "renew"}  -> "refresh"
    [] OTHER                          -> path

\* A request for a path, with the cookies the browser sends there.
Request(path, cookies, hops) ==
  [at |-> Handler(path), path |-> path, access |-> cookies.access,
   refresh |-> IF path \in UnderApiAuth THEN cookies.refresh ELSE NoToken,
   cookies |-> Keep, next |-> "none", since |-> tokenVersion, hops |-> hops]

\* Requests that may still mint tokens.
Minting == {t \in Tabs : tabs[t].at \in {"refresh", "signin"}}

\* The user opens a page, or a client script calls a route.
Visit(t, path) ==
  /\ tabs[t].at = "idle"
  /\ t \in setting.open
  /\ path \in {"refresh", "renew", "signin"} =>
       minted + Cardinality(Minting) < MaxTokens
  /\ tabs' = [tabs EXCEPT ![t] = Request(path, jar, 0)]
  /\ UNCHANGED <<tokens, jar>>

\* applyAuthCookies and clearAuthCookies write both cookies.
Receive(t) ==
  IF tabs[t].cookies = Keep THEN jar
  ELSE LET k == tabs[t].cookies
       IN  [access |-> IF k \in valid THEN k ELSE NoToken, refresh |-> k]

\* The answer arrives: its cookies are stored, its redirect is followed.
Follow(t) ==
  /\ tabs[t].at = "reply"
  /\ jar' = Receive(t)
  /\ tabs' = [tabs EXCEPT ![t] =
       IF tabs[t].next \in Paths /\ tabs[t].hops < MaxHops
       THEN Request(tabs[t].next, Receive(t), tabs[t].hops + 1)
       ELSE IdleTab]
  /\ UNCHANGED tokens

\* The answer is lost with the connection or the tab.
Lose(t) ==
  /\ setting.failures
  /\ tabs[t].at = "reply"
  /\ tabs' = [tabs EXCEPT ![t] = IdleTab]
  /\ UNCHANGED <<tokens, jar>>

Answer(t, cookies, next) ==
  tabs' = [tabs EXCEPT ![t].at = "reply", ![t].cookies = cookies, ![t].next = next]

-----------------------------------------------------------------------------
(* The API                                                                 *)

\* JwtStrategy.validate: the access token belongs to the current tokenVersion.
Current(k) == k \in valid /\ ver[k] = tokenVersion

\* A new pair, of the login `from` or of a new one.
Mint(from, meta) ==
  /\ minted < MaxTokens
  /\ minted' = minted + 1
  /\ login' = [login EXCEPT ![minted + 1] = IF from = NoToken THEN minted + 1 ELSE login[from]]
  /\ ver' = [ver EXCEPT ![minted + 1] = tokenVersion]
  /\ bound' = [bound EXCEPT ![minted + 1] = meta]
  /\ valid' = valid \union {minted + 1}
  /\ live' = (live \ {from}) \union {minted + 1}
  /\ UNCHANGED <<setting, tokenVersion>>

\* refreshMetaMismatch: the web application calls from its own address.
Mismatch(k) == setting.strictBind /\ bound[k] # "web"

\* Mutant: a refresh token that was used is accepted again.
RotatesReused(k) == k # NoToken

Rotates(k) == k \in live /\ ~Mismatch(k)

\* Mutant: the route sets the cookies of the pair that was presented.
RotateKeepsCookie(t) ==
  /\ Rotates(tabs[t].refresh)
  /\ Mint(tabs[t].refresh, "web")
  /\ Answer(t, tabs[t].refresh, IF tabs[t].path = "refresh" THEN "page" ELSE "done")
  /\ UNCHANGED jar

\* POST /auth/refresh rotates the token; the route sets the new cookies.
Rotate(t) ==
  /\ Rotates(tabs[t].refresh)
  /\ Mint(tabs[t].refresh, "web")
  /\ Answer(t, minted', IF tabs[t].path = "refresh" THEN "page" ELSE "done")
  /\ UNCHANGED jar

\* The API accepts the token and its answer comes too late: the route treats
\* a timeout as a refusal.
RotateLate(t) ==
  /\ setting.failures
  /\ Rotates(tabs[t].refresh)
  /\ Mint(tabs[t].refresh, "web")
  /\ Answer(t, NoToken, IF tabs[t].path = "refresh" THEN "login" ELSE "done")
  /\ UNCHANGED jar

\* A refresh token that was used, revoked or is bound elsewhere ends its login.
RotateRefused(t) ==
  LET k == tabs[t].refresh IN
  /\ k # NoToken
  /\ ~Rotates(k)
  /\ live' = {j \in live : login[j] # login[k]}
  /\ Answer(t, NoToken, IF tabs[t].path = "refresh" THEN "login" ELSE "done")
  /\ UNCHANGED <<setting, minted, login, ver, bound, valid, tokenVersion, jar>>

\* No refresh cookie, or an API that cannot be reached.
RotateNone(t) ==
  /\ tabs[t].refresh = NoToken \/ setting.failures
  /\ Answer(t, NoToken, IF tabs[t].path = "refresh" THEN "login" ELSE "done")
  /\ UNCHANGED <<tokens, jar>>

-----------------------------------------------------------------------------
(* The page guard                                                          *)

\* refreshRedirect when the request has a refresh cookie, else /login.
Reject(t) == Answer(t, Keep, IF tabs[t].refresh # NoToken THEN "refresh" ELSE "login")

\* Mutant: any access cookie sends the login page to the dashboard.
ProxyTrustsCookie(t) ==
  /\ tabs[t].at = "proxy"
  /\ IF tabs[t].path = "login"
     THEN Answer(t, Keep, IF tabs[t].access # NoToken THEN "page" ELSE "form")
     ELSE IF tabs[t].access \notin valid THEN Reject(t)
     ELSE tabs' = [tabs EXCEPT ![t].at = IF setting.versionCheck THEN "confirm" ELSE "layout"]
  /\ UNCHANGED <<tokens, jar>>

\* proxy(): the signature of the access token decides.
Proxy(t) ==
  /\ tabs[t].at = "proxy"
  /\ IF tabs[t].path = "login"
     THEN Answer(t, Keep, IF tabs[t].access \in valid THEN "page" ELSE "form")
     ELSE IF tabs[t].access \notin valid THEN Reject(t)
     ELSE tabs' = [tabs EXCEPT ![t].at = IF setting.versionCheck THEN "confirm" ELSE "layout"]
  /\ UNCHANGED <<tokens, jar>>

\* confirmSessionViaUpstream: no answer counts as no session.
Confirm(t) ==
  /\ tabs[t].at = "confirm"
  /\ \/ /\ Current(tabs[t].access)
        /\ tabs' = [tabs EXCEPT ![t].at = "layout"]
     \/ /\ ~Current(tabs[t].access) \/ setting.failures
        /\ Reject(t)
  /\ UNCHANGED <<tokens, jar>>

\* Mutant: getCurrentUser takes the user from the token.
LayoutTrustsToken(t) ==
  /\ tabs[t].at = "layout"
  /\ \/ /\ tabs[t].access \in valid
        /\ Answer(t, Keep, "shown")
     \/ /\ tabs[t].access \notin valid \/ setting.failures
        /\ Answer(t, Keep, "login")
  /\ UNCHANGED <<tokens, jar>>

\* The layout of the private pages: getCurrentUser asks the API again.
Layout(t) ==
  /\ tabs[t].at = "layout"
  /\ \/ /\ Current(tabs[t].access)
        /\ Answer(t, Keep, "shown")
     \/ /\ ~Current(tabs[t].access) \/ setting.failures
        /\ Answer(t, Keep, "login")
  /\ UNCHANGED <<tokens, jar>>

-----------------------------------------------------------------------------
(* The API routes of the web application                                   *)

\* requireSessionUser, before any route of a user's data.
Data(t) ==
  /\ tabs[t].at = "data"
  /\ Answer(t, Keep,
       IF tabs[t].access \in valid /\ (setting.versionCheck => Current(tabs[t].access))
       THEN "served" ELSE "refused")
  /\ UNCHANGED <<tokens, jar>>

\* The origin guard or the rate limit refuses; cookies stay.
Refuse(t) ==
  /\ tabs[t].at \in {"refresh", "signin", "logout"}
  /\ Answer(t, Keep, "refused")
  /\ UNCHANGED <<tokens, jar>>

\* GET and POST /api/auth/refresh.
Refresh(t) ==
  /\ tabs[t].at = "refresh"
  /\ Rotate(t) \/ RotateLate(t) \/ RotateRefused(t) \/ RotateNone(t)

\* POST /api/auth/login, with the right password.
Signin(t) ==
  /\ tabs[t].at = "signin"
  /\ Mint(NoToken, "browser")
  /\ Answer(t, minted', "done")
  /\ UNCHANGED jar

\* POST /api/auth/logout: revocation is best-effort, the cookies go.
Logout(t) ==
  /\ tabs[t].at = "logout"
  /\ \/ live' = live \ {tabs[t].refresh}
     \/ setting.failures /\ UNCHANGED live
  /\ Answer(t, NoToken, "done")
  /\ UNCHANGED <<setting, minted, login, ver, bound, valid, tokenVersion, jar>>

-----------------------------------------------------------------------------
(* The rest of the world                                                   *)

\* Another device resets the password or ends every session.
RevokeAll ==
  /\ setting.revocations
  /\ tokenVersion < MaxVersion
  /\ tokenVersion' = tokenVersion + 1
  /\ live' = {}
  /\ UNCHANGED <<setting, minted, login, ver, bound, valid, jar, tabs>>

\* The oldest access token expires, and its cookie with it.
Expire ==
  \E k \in valid :
    /\ \A j \in valid : k <= j
    /\ valid' = valid \ {k}
    /\ jar' = [jar EXCEPT !.access = IF @ = k THEN NoToken ELSE @]
    /\ UNCHANGED <<setting, minted, login, ver, bound, live, tokenVersion, tabs>>

\* Both services restart with a new JWT_SECRET: the cookies remain.
RotateSecret ==
  /\ valid # {}
  /\ valid' = {}
  /\ UNCHANGED <<setting, minted, login, ver, bound, live, tokenVersion, jar, tabs>>

Serve(t) ==
  Proxy(t) \/ Confirm(t) \/ Layout(t) \/ Data(t) \/ Refuse(t) \/ Refresh(t)
    \/ Signin(t) \/ Logout(t)

Next ==
  \/ \E t \in Tabs : (\E path \in Paths : Visit(t, path)) \/ Serve(t) \/ Follow(t) \/ Lose(t)
  \/ RevokeAll \/ Expire \/ RotateSecret

Spec == Init /\ [][Next]_vars

-----------------------------------------------------------------------------
(* Properties                                                              *)

TypeOK ==
  /\ setting \in Settings
  /\ minted \in 0..MaxTokens
  /\ login \in [Tokens -> 0..MaxTokens]
  /\ ver \in [Tokens -> 0..MaxVersion]
  /\ bound \in [Tokens -> {"browser", "web"}]
  /\ valid \subseteq 1..minted
  /\ live \subseteq 1..minted
  /\ tokenVersion \in 0..MaxVersion
  /\ jar \in [access: 0..minted, refresh: 0..minted]
  /\ tabs \in [Tabs -> Tab]

Answered(t, outcomes) == tabs[t].at = "reply" /\ tabs[t].next \in outcomes

\* What only a current session gets: pages, and data unless the deployment
\* opted out of the version check.
Promised == IF setting.versionCheck THEN {"shown", "served"} ELSE {"shown"}

\* A page, or a user's data, asked for after the sessions were ended is not
\* given to a token from before, through every redirect on the way.
ServedOnlyWhileCurrent ==
  \A t \in Tabs : Answered(t, Promised) => ver[tabs[t].access] >= tabs[t].since

\* Within a login the browser's refresh token only moves forward, in whatever
\* order the answers to several tabs arrive: an older token would be taken for
\* a stolen one and end the login.
SessionNeverGoesBack ==
  [][ /\ jar.refresh # NoToken /\ jar'.refresh # NoToken
      /\ login[jar.refresh] = login'[jar'.refresh]
      => jar'.refresh >= jar.refresh ]_vars

\* One tab, and an API that answers.
Undisturbed ==
  /\ ~setting.failures /\ ~setting.revocations
  /\ \A t, u \in setting.open : t = u

\* Undisturbed, a browser that presents its refresh token is not signed out
\* by it.
RefreshKeepsSession ==
  Undisturbed => \A t \in Tabs :
    tabs[t].at = "reply" /\ tabs[t].path \in {"refresh", "renew"}
      /\ tabs[t].refresh # NoToken
    => tabs[t].cookies # NoToken

\* Undisturbed, redirects between the guard, the refresh route and the login
\* page end before the browser gives up.
NoRedirectLoop ==
  Undisturbed => \A t \in Tabs : Answered(t, {"page", "login", "refresh"}) => tabs[t].hops < MaxHops

\* The same after another device has ended the sessions: the login page is
\* public, whoever asks for it.
LoginIsPublic ==
  ~setting.failures =>
    \A t \in Tabs : Answered(t, {"page", "login", "refresh"}) => tabs[t].hops < MaxHops
=============================================================================
