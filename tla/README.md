# Pronuxfin, verified in TLA+

Pronuxfin is a Brazilian market desk: a Next.js application (`web/`) that serves
pages and API routes, a NestJS API (`backend/`) that owns accounts and sessions,
and one PostgreSQL database that both write to. This directory models the parts
whose correctness depends on the order in which things happen, checks the models
with TLC on small instances, and proves the most important properties with TLAPS
for every instance. `PROJECT.json` lists the components, runs, mutants, hazards
and theorems, and maps every definition to the source lines it models.

Paths below are relative to the repository (`src/` in the map).

## 1. The system

| Component | State | Operations | Talks to |
|---|---|---|---|
| Refresh-token store (`backend/src/auth/refresh-token.service.ts`, session part of `auth.service.ts`, `web/src/lib/auth/user-sessions.ts`) | `RefreshToken` rows: family, `revokedAt`, `replacedById`, `expiresAt`; `User.tokenVersion` | issue with the device cap, rotate with reuse detection and optional binding, logout, logout everywhere, revoke one or all from the web tier | database, from **two** processes (API and web) |
| Credentials (`auth.service.ts`, `users.service.ts`) | `User.passwordHash`, `tokenVersion`, `PasswordResetToken` rows | register, login with bcrypt upgrade, forgot, reset | token store, mailer |
| Sign-in (`login-lockout.service.ts`, `webauthn.service.ts`, `security-event.service.ts`) | `SecurityEvent`, `WebAuthnChallenge`, `WebAuthnCredential` rows | lockout, login challenge, new-device alert | credentials, token store, mailer |
| Web session (`web/src/proxy.ts`, `web/src/lib/auth/*`, `web/src/app/api/auth/*`, `web/src/lib/session.ts`) | the browser's two cookies | page guard, login, silent refresh (page and fetch), logout | API over HTTP |
| Market server cache (`web/src/lib/market/market-server-cache.ts`) | values with expiry, in-flight promises, guard timers | `rememberWithTtl` | market gateway |
| Market gateway and provider budget (`market-data-gateway.ts`, `*market-provider-budget.ts`) and the adapters behind it | monthly counters, one row shared by all instances and one entry in the memory of each | a chain of providers per task, soft cap, the desk's timer | providers, database, the cache |
| Rate limits (`web/src/lib/security/*-rate-limit.ts`) | a row per key and window, a bucket per instance | consume, clean up | database |
| Quote desks and search in the browser (`use-sector-quotes.ts`, `use-global-asset-search.ts`) | what is on screen, the books in the session's storage, the requests under way | poll, hide and show, change of selection, debounced search | quote routes |
| AI keys (`app/api/user/ai-keys/route.ts`) and assistant (`assistant-chat.tsx`, `app/api/market-ai/route.ts`, `market-ai-*.ts`) | a row of two ciphers; a chat in the browser | read, merge and write; choose engines, try them in turn or as a panel | database, language models |
| Watchlist, portfolio, scenarios, financial routes (`app/api/user/*`) | one table each, with a limit | insert, bulk import, delete | database |
| Alert rules and their page, signal history, route alerts (`lib/user-watchlist/*`, `lib/financial-route/load.ts`) | one table each; drafts in the page | upsert and list again; store what is new; one alert a day | database |
| Radar, route engine, debt calculator (`intelligence.ts`, `engine.ts`, `amortization.ts`) | none | pure functions | |
| Asset dossier and scoring engines (`asset-dossier-*.ts`, `lib/analytica/*`) | none beyond the market cache | join what the sources say; returns, health, class, PCI, seal | third parties |
| Compound interest, calendars, news | none beyond the market cache | pure functions; fetch and reshape | third parties |
| Mailer, health, environment checks, UI, SEO, scripts, CI | none that matters here | output, configuration, rendering | |

What is hard here:

* **Concurrency without transactions.** Most handlers are a sequence of
  statements under READ COMMITTED. Two tabs, a retry, or the web tier and the
  API together interleave them; only the row counts of conditional UPDATEs, unique
  indexes and a few transactions keep order.
* **Failure between statements.** A process, a connection or an answer can be lost
  after any statement; some failures (`.catch(() => null)` around the rotation) are
  taken for a lost race.
* **Two sources of truth for a session.** The access token's signature, which the
  web tier checks by itself, and the database behind the API.
* **Late answers.** Cookies are set in the order answers arrive; a cache loader may
  outlive its guard; a desk may show the answer of the previous market.
* **Check, then act.** The lockout, the passkey challenge, the device cap, every
  quota and the provider budget read a count and act on it later.

The properties that make each part correct:

* token store: a session has at most one usable token; exchanges form one line;
  a closed session stays closed; logout everywhere covers what it saw; the cap holds;
* credentials: a link resets once; a reset ends older links; nothing but a reset
  changes a password; sessions opened with an old password do not survive it;
* sign-in: failures beyond the limit are bounded; no lock without its cause; a
  challenge does not open sessions without bound; a new device is reported;
* web session: nothing is served to an ended session; the browser's refresh token
  moves forward; no redirect loop; no refresh signs an undisturbed browser out;
* cache: one loader at a time; values do not go back; no key sticks; callers are
  answered;
* rate limits and budgets: never more than the limit plus what was in flight;
* quotas: the same; alerts once a day; signals not repeated within the interval;
* AI keys: a save about one engine leaves the other's key alone;
* alert rules: the page shows what is stored, or what the user has edited since;
* desks and search: late answers of an earlier selection lose in the end;
* assistant: the engine that was chosen answers, if it can; every message is answered;
* calculations: what matters is told (extremes, delays), an extra payment never costs,
  better numbers never score lower, and what one page says of an asset agrees.

The 40 hazards behind these, each at its line, are in `PROJECT.json`.

## 2. Modules

| Module | Models | Proofs |
|---|---|---|
| `RefreshTokens` (`MCRefreshTokens`) | the token store, statement by statement | `RefreshTokensProofs` |
| `Sessions` | abstract: sessions with one leaf each | refinements in `RefreshTokensProofs`, `WebSessionProofs` |
| `Credentials` (`MCCredentials`) | passwords and reset links | `CredentialsProofs` |
| `SignIn` (`MCSignIn`) | lockout, passkey challenge, new-device alert | `SignInProofs` |
| `WebSession` (`MCWebSession`) | browser, guard, auth routes; API atomic | `WebSessionProofs` |
| `TtlCache` (`MCTtlCache`) | the market cache for one key | `TtlCacheProofs` |
| `RateLimit` (`MCMarket`) | the fixed window of one key, shared row and buckets | `MarketProofs` |
| `MarketGateway` (`MCMarket`) | chains of providers, budgets, the live desk | `MarketProofs` |
| `Analytica` (`MCMarket`) | the scores made of the dossier of a stock | `MarketProofs` |
| `PriceHistory` (`MCMarket`) | returns and falls over the prices of an asset | `MarketProofs` |
| `QuoteDesk` (`MCBrowser`) | the hook of a desk | `BrowserProofs` |
| `AssetSearch` (`MCBrowser`) | the hook of the search | `BrowserProofs` |
| `AiKeys` (`MCBrowser`) | the save of the AI keys | `BrowserProofs` |
| `Assistant` (`MCBrowser`) | extends `AiKeys`: the chat beside the form of the keys | `BrowserProofs` |
| `UserTables`, `RouteAlerts` (`MCUserData`) | quotas; daily alerts of a route | `UserDataProofs` |
| `AlertRules`, `SignalHistory` (`MCUserData`) | the rules with their page; the stored signals | `UserDataProofs` |
| `Radar`, `RouteEngine` (`MCUserData`) | what is said of an asset and of a route | `UserDataProofs` |
| `Amortization` (`MCUserData`) | the calculator of debts | `UserDataProofs` |

The three database modules share one form. A request is a record with a program
counter (`pc`); every statement or transaction of the handler is an action; `Fail`
ends a request between any two of them. The state of a table is a handful of
functions and sets over row numbers, in creation order. `UNCHANGED` names tables.
The modules divide the account between them: `SignIn` decides who may open a
session, `Credentials` which password counts, `RefreshTokens` what the session is,
`WebSession` what a browser sees of it. The cache of `TtlCache` stands in front of the
gateway of `MarketGateway`, which is why a chain there has one run at a time. `WebSession` abstracts each handler that
`RefreshTokens` spells out into one step; `Sessions` is the promise between them.

### RefreshTokens and Sessions

State: rows `1..rows` with `family`, `revokedAt`, `replacedById`; `horizon`, up to
which rows have expired (all rows live equally long, so they expire in order);
`tokenVersion`; `held`, the tokens clients know; `access`, the versions in access
tokens handed out. Actions: `Login`, `EnforceCap`, `Issue`; `Refresh`, `Rotate`,
`LoseRace`, `Sign`; `Logout`, `LogoutAll`, `RevokeSession`, `RevokeAllSessions`;
`Snapshot` and `Apply`; `Reply`; `Expire`; `Fail`. An `updateMany` is two steps, because
READ COMMITTED selects rows when the statement starts and re-checks each when it
locks it: a row inserted in between is missed. `Rotate` is one step, being a
transaction whose first UPDATE is conditional, and `revokeAllUserSessions` holds the
`User` row's lock until it commits.

`Sessions` has only `minted` and `leaf`; a step opens, exchanges or closes. The
mapping is `LeafOf(f)`, the unrevoked row of family `f`, and `ImplementsSessions` is
the abstract specification as a property.

* `tokens_concurrent` (two requests, three rows, cap 1, strict binding):
  `LinearRotation`, `ImplementsSessions`. Three rows are a login, its
  refresh and either a second refresh or a second login; two requests race every
  pair of operations. That a family has one leaf and that a closed one stays closed
  (`OneLeafPerFamily`, `ClosedStaysClosed`) follow, and are proved rather than run.
* `tokens_sequential` (one request, four rows, cap 2, fair): `FamilyCap`,
  `ReuseClosesFamily`, `LogoutEverywhere`, `EveryRequestEnds`. Four rows fill the cap, exceed it
  and refresh besides. These promises are about what one operation achieves.
* With two requests `LogoutEverywhere` does not hold. A refresh
  commits between the snapshot and the end of `revokeAllForUser`, and its session
  survives a logout everywhere. By the same mechanism `ReuseClosesFamily` fails with
  two requests, and `FamilyCap` fails because two logins both count before either
  inserts.

### Credentials

State: the password the stored hash accepts and whether the hash is bcrypt
(`legacy`); `tokenVersion`; links by rank with `present`, `used`, `expired`; sessions with
the password that opened them. Actions follow `register`, `login` (with `Upgrade`),
`requestPasswordReset` (`Forgot`, `Clear`, `InsertLink`) and `resetPassword` (`Reset`,
`Consume` or `ConsumeRefused`, `Revoke`, `Apply`, `Done`). `Consume` is one transaction: the
conditional UPDATE locks the row, so the rest cannot interleave on one link.

* `credentials` (two requests, two passwords, three links, two sessions):
  `ResetOncePerLink`, `PasswordChangesWithVersion`, and, for the histories in which
  requests take turns, `SessionsProvePasswordInTurn`. The variable `inTurn` of
  `MCCredentials` tells the two kinds of history apart: those that interleave start
  without bcrypt hashes, those in turn with or without. Three links let one be used
  while two are left behind by racing requests.
* With bcrypt hashes and two requests `PasswordChangesWithVersion` does not hold:
  `updatePasswordHash` (`users.service.ts:44`) writes by id alone, so a login that verified
  the old password before a reset committed puts it back.

### SignIn

State: a clock; failures, locks and successes as `SecurityEvent` rows with their
times; whether the account has a passkey; challenges with `expiresAt` and `consumed`;
`opened`, the sessions each challenge opened. Actions follow `assertLoginAllowed`
(`FindLock`, `CountFailures`, `RecordLock`), `login` (`RecordFailure`, `CountPasskeys`,
`CreateChallenge`), `verifyLogin` (`Verify`, `Consume`, `Touch`) and `completeLogin`
(`RecordSuccess`, `LookUpDevice`, `Alert`, `Issue`). `SecurityEventService.record` swallows errors,
so every event may be lost. `Verify` is the reading half of `verifyLogin`; the rest
acts on what it read.

* `sign_in` (two requests, limit 2, window, lock and challenge of one tick, a clock of
  two ticks, four failures, one challenge): `AttemptsBounded`, `LocksHaveCause`, `SessionsPerChallenge`.
  Four failures exceed the limit by two where the bound allows one, the clock lets a
  window and a lock end, and one challenge is presented by both requests.
* `sign_in_new_device` (finding): `completeLogin` records `LOGIN_SUCCESS` and then asks whether
  the device signed in lately. It finds the row it has just written, so the alert
  of `AUTH_LOGIN_NOTIFY` is never sent (unless the event was lost).

### WebSession

State: pairs of tokens by rank with `login`, `ver`, `bound`; `valid` access tokens, `live`
refresh tokens; the cookie jar; one request per tab with its stage, its answer and
its redirects; the `setting` of the behaviour (version check, strict binding, failures,
revocations from another device, open tabs). The refresh cookie is sent only below
`/api/auth`. Actions: the browser's `Visit`, `Follow`, `Lose`; the guard's `Proxy`, `Confirm`,
`Layout`; the routes' `Data`, `Refresh` (`Rotate`, `RotateLate`, `RotateRefused`, `RotateNone`),
`Signin`, `Logout`, `Refuse`; and `RevokeAll`, `Expire`, `RotateSecret`.

* `web_session` (two tabs, three pairs, two redirects): `ServedOnlyWhileCurrent`, `RefreshKeepsSession`,
  `NoRedirectLoop`, `SessionNeverGoesBack`. The settings cover one tab undisturbed, two tabs
  with failures, two with revocations, and one tab with both, with and without the
  version check. Three pairs allow a login and two racing refreshes.
  `RefreshKeepsSession` and `NoRedirectLoop` speak of an undisturbed browser: one open tab, an
  API that answers, nobody else ending the session.
* `web_revoked_loop` (finding): login page and dashboard disagree about a revoked
  session and redirect to each other.
* Two more disagreements that the model shows and no run states: the browser sends the
  refresh cookie only below `/api/auth` (`auth-cookie-names.ts:13`), so the guard's redirect
  to the refresh route never happens for a page; and an API that does not answer
  sends a current session to the login page (`session.ts:48`).

### TtlCache

State: the cached value and its expiry, the promise in flight, every loader's
progress, the pending guards, who waits for whom, the clock, and `longest`, the longest
load of the behaviour. A promise settles in two microtasks (`Store` or `Reject`, then
`Settle`) with no timer in between. Keys do not interact, so one is modelled.

* `cache` (two callers, four loads, guard 3, loads of 2 or 5): below the guard,
  `SingleFlight` and `ValuesNeverGoBack`; also beyond it, `EveryCallerAnswered`. Four loads
  and seven ticks let a forgotten loader end while its successor's successor runs.
  Deadlock is not checked: the bounds on the clock and on loads do stop the model.

### RateLimit and MarketGateway

`RateLimit` follows `consumeRateLimit` for one key. State: a count per window (`row`), a
bucket per instance and window (`memory`), the calls in flight with the window they
took from the clock, and, as history, what was let through while a window was open.
Actions: `Ask`, `CountRow` (the upsert, with its opportunistic cleanup of old rows),
`DatabaseFails` and `Remember` (memory, or denial for callers that fail closed),
`CleanUp`, `PassTime`. The answer of the database may come windows later.

`MarketGateway` has chains, one per instance and task, each a program counter over
`executeProviderChain`: `ReadUsage` and `Decide` (is there budget?), then `Deliver` or
`Disappoint` (what an adapter may answer: `BrapiBooks`, `YahooBooks`, ...), `Charge` (the
increment of the shared row, which may be lost) or `Skip`, and `Finish` or `FallBack`. `OpenDesk`
starts the three chains of the live desk, `StopWaiting` is its 45 s timer, `Publish` joins
the books; `OpenBook` starts a sector book; `NewMonth` resets the counters, local ones
lazily. The database is up, down or flaky for a whole behaviour.

* `market` (two calls, two instances, limit 1, windows of two ticks; BRAPI with a
  budget of one answer a month, two months): `WindowHolds`, `CapHolds`, `AnswersAreCharged`,
  `BooksTellGaps`, `DesksAnswered`, and of the calculations below `StatsAgree`,
  `SealAgreesWithPanel`, `BetterNeverScoresLower`. Two calls race for one place and may both be late; two
  instances share one budget, so both chains pass its check together, and three
  answers are one more than the cap tolerates. A universe of two symbols with BRAPI
  capped at one makes the gaps; the parts share no row, so
  a behaviour moves one of them. The bounds on clock, months and answers stop the
  model, so deadlock is not checked.

### PriceHistory and Analytica

`PriceHistory` holds the points a provider has given, the newest first or last, with
up to two closes of a day (`GivePoint` adds one). From them: `UniqueDays` (of a day the
point given last), `PeriodReturn` over the binary search `IndexAtOrBefore` (`Halve` is one
turn of it), `YtdReturn`, `MaxDrawdown` (`Fall` is one day of its loop), and `CalendarYearReturns`, which takes the latest point of a day instead.
A return is the pair of its closes, so comparisons are exact.

`Analytica` holds the dossier of a stock, what each source says or nothing, and the
page made of it; `Reload` loads the page again after one source has changed. Following
`Page` from the inside: the fallbacks and `Normalize` (`Margin`, `Roe`, `Years`, `Growth`,
`Debt`), `ExactHealth` and `Class` per risk profile, the qualitative scores and the PCI
(`Bundle`), then the seal (`Distress`, `Pillars`, `Grade`). Every operator names the unit in
which it is exact, and rounds where the code does.

In the `market` run a history has up to four points over four days of two-day years
with three prices: two years, two closes of one day, a fall and a rise. The dossiers
take every combination of a few values on both sides of each threshold; ratios stay
between 1.5 and 150 percent. What the models show besides:

* `normalizeRatio` guesses the unit: 1 given in percent is read as 100 percent, and a ratio of 1.6
  as 1.6 percent. The seal normalises once more what is already a ratio, so a return
  on equity of 160 in percent is 1.6 percent there and 160 percent in the panel.
* A margin below -5 percent that no statement of a loss bears out makes the seal
  critical while the panel may still advise cash: the exception in `SealAgreesWithPanel`.
* A debt that no source gives counts as 99 times EBITDA, so such a company is toxic.
* A better return of the key metrics may lower the score: beyond 45 percent of the
  quote's it is no longer believed, and the quote's counts. `NoWorse` holds it fixed.
* A return over five years of a shorter history is the return since its first point,
  and growth is its fifth root all the same; "profitable years" are years in which the
  price rose, unless the last statement shows no profit.
* The seal is always of the moderate profile, beside a panel of the one chosen.

### QuoteDesk, AssetSearch, AiKeys and Assistant

`QuoteDesk`: the selection, what is shown (`payload`), the storage, `task` (the pull the
interval's ref holds), the pulls in flight. `Select` is the render and the effects of a
new market or sector; `Show` and `Hide` the visibility; `Fire` the interval, which waits for
its own pull (`busy`) while the other pulls run beside it; `Answer` and `Fail` are the two
ways a pull ends, for whatever selection it was made. `AssetSearch`: the debounced
query, the requests with their abort flag; `Search` aborts the last one and sends its
own, `Settle` takes an answer or an error unless its request was aborted. `AiKeys`:
`Submit`, `ReadRow`, `WriteRow`, `SaveFails`, one read and one upsert per save. `Assistant`:
`RefreshEngines`, `Choose` and `Send` in the browser; `Refuse`, `Reject`, `ListEngines`, `LoadKeys`, `Panel`
and `TryEngine` in the handler, which reads the row of the keys twice.

* `browser` (three selections, three pulls, three queries and requests, two tabs with
  one key, one engine of the platform, a panel of two, five messages): `KeysAreKept`,
  `ChosenEngineAnswers`, `SwitchShowsSelection`, `DeskSettles`, `SearchSettles`, `ChatAnswers`. Three of
  a kind let the answers of two earlier selections cross that of the last; five
  messages exceed the four that the schema of the model takes. Beside the chat one
  tab sets and clears one key. Slots run out and chats end, so deadlock is not checked.
* What the chat model shows besides: the first exception of an engine ends the
  request (`market-ai/route.ts:355`), although the order is called a fallback
  (`market-ai-providers.ts:14`): only an engine without a key is passed over. And a chat of
  more than 28 messages, or with one of more than 8000 characters, is refused for
  good, since the whole of it is sent each time (`assistant-chat.tsx:138`).

### UserTables, RouteAlerts, AlertRules, SignalHistory

`UserTables` is check-then-act on a table with a limit: `LookUp` (keyed tables), `Count`,
`Write`, `RemoveRows`, and the portfolio's bulk import (`BulkStart` counts the room once;
`BulkLook` and `BulkWrite` per row). `RouteAlerts`: `Evaluate` takes the moment from which
alerts count as today's, `Find` and `Create` are the two statements per alert, and
routes, dismissals and the clock move beside. `AlertRules`: the drafts of the page, `Edit`,
`Save` of one scope, `Reset`, and per request `Store`, `ListRules`, `Receive` or `Lose`; the answer
replaces all drafts. `SignalHistory`: `Look` reads the last signals within the newest
`Window` rows, `Insert` stores what is new.

### Radar, RouteEngine, Amortization

A behaviour picks inputs and evaluates them. `Radar` computes thresholds, priority,
reasons and the kind of event from an asset's rules and dossier; the reasons are a
set, those that apply with fewer than three before them in the order of the code. `RouteEngine` keeps a
balance as a fraction, so comparisons are exact; the bisection
of the suggestion is modelled by what it returns, the least sufficient extra rounded
up to tens, or ten more. `Amortization` pays the same debt twice in step, with and
without what is paid besides, one month per step. Its amounts count a unit so small that
every division of a loan is exact (`Grain`, `EvenAssumption`): for any finite set of loans there is
one, so the assumption chooses a unit and excludes no loan. What a card
divides is rounded down.

* `user_data` (five rows or identifiers against a limit of two, a bulk of two; one
  route with two types, two evaluations, days of two ticks; two assets with one type
  of rule, two requests; two symbols, two posts, a window of three rows of five; some
  93 000 radar inputs, 180 route plans, 614 debts with terms of none to three months or of up to eight
  card months, some of them ending on a rest): `QuotaHolds`, `AlertsAreDaily`, `PageShowsStored`, `HistoryIsSparse`,
  `ExtremesAreTold`, `OffTrackIsTold`, `ExtrasNeverCost`. Two requests at once are the least that
  race, and five rows are more than two bulk imports may leave. The parts share
  nothing, so a behaviour is about one of them.
* `radar_paused_rules` (finding): a rule the user paused for an asset is passed over, the
  desk's rule or the default is in force, and its reason is still given
  (`alerts.ts:43`), although the page says that the rule is paused in prioritization.
* What the models show besides: a listing of rules that fails answers the defaults
  with `ok` (`rules.ts:32`), and the next save of the desk's rules stores them over the
  real ones; a route that cannot be reached within 600 months, or whose date is
  less than a month away, is behind by no number and raises no `schedule_behind`; a
  card that its minimum never pays off ends the schedule after 600 months with a rest
  that the totals do not show; a route that is stored before its evaluation throws is
  answered with a 500 (`financial-routes/route.ts:104`), and a retry stores it twice.

## 3. Fairness

* `RefreshTokens!Fairness`: weak fairness of `Step(r) \/ Fail(r)`. Node resumes every
  continuation, and a statement ends or errors; nothing says that a request
  succeeds. Clients are not obliged to ask anything.
* `TtlCache!Fairness`: weak fairness of each loader's end and of each `Settle`; the
  fetches behind loaders go through `fetchWithTimeout` (12 s each by default). Callers, guards and time are not fair.

* `MarketGateway!GatewayFairness`: weak fairness of the chains behind the desk except BRAPI's,
  and of the desk itself: their fetches have timeouts and `setTimeout` fires. BRAPI's chain
  is not fair, since the desk's own timer is there for the case that it never ends.
* `QuoteDesk!DeskFairness`: the interval fires as long as the page lives, and a fetch ends.
  `AssetSearch!SearchFairness`: a request settles. Users are not fair; `DeskSettles` and
  `SearchSettles` begin with "once the user stays".
* `Assistant!ChatFairness`: the handler's steps, which have timeouts, are taken. Users, keys and
  failures are not fair.

The other modules state safety only and no fairness.

## 4. Mutants

Every property of a passing run has a mutant, an operator next to the definition
it replaces that changes it as a plausible bug would: `RotateById` drops the
condition of the rotation's UPDATE, `ApplySkipsExpired` revokes too little,
`CountFailuresOffByOne` lets one failure more through, `ConsumeNothing` leaves a challenge usable,
`SelectForgetful` leaves the old pull in the interval's ref, `FindDismissed` looks for the wrong
alerts, `NextInstallmentLate` counts the paid month among those that remain,
`NormalizeFromOne` takes a ratio of 1.2 for 1.2 percent, `EarliestOfDays` keeps the wrong close.
TLC finds the property violated under the same configuration.

## 5. Proofs

All proofs are for arbitrary values of the constants and rest only on the named
assumption of each module (types of the constants; `Requests` finite where
cardinalities of requests are counted; no limit on rows, requests, tabs or times).

* **RefreshTokensProofs.** `IndInv` joins `TypeOK` and `LinearRotation` with `FamilyNamed` (a family is
  named by a row that exists), `BlankAhead` (nothing has touched the rows to come) and
  `RequestsHoldRows` (the rows a request in flight refers to exist). `LinearRotation` alone
  is not inductive: an insert extends a line only if the row it makes was blank
  and the row it replaces exists; that the latter is the family's newest follows
  from its being unrevoked. From it: `RotationIsLinear`, `OneLeaf`, the action properties
  `ClosedForGood` and `ExchangedAtMostOnce`, and `StoreImplementsSessions`: initial states map to
  initial states, and each of the four ways a step can treat the rows (none, one
  inserted, one exchanged, some revoked) maps to a step of `Sessions` or a stutter.
  What only holds of requests one at a time is proved under `Sequential` (any two
  requests are the same), with `AloneInv`: the active rows are within the cap, a
  request about to add a row has made room for it, and one that revokes has all it
  must revoke in front of it: `CapHoldsInTurn`, `ReuseClosesInTurn`, `LogoutClosesInTurn`.
  `RequestsEnd`: the statements a request has left are counted by `StepsLeft`, with two for each
  family the cap has still to revoke, and every step lowers the count. It takes the least
  family off the list, so the loop ends whatever the others insert or revoke meanwhile.
* **CredentialsProofs.** Here the two invariants are inductive together with `TypeOK`:
  `tokenVersion` counts the used links, and a used link has ended all older ones
  (`LinksAreSpent`, `ResetEndsOlderLinks`). `UpgradedPasswordsKeep` needs `~LegacyHashes`; without
  it the property is false (the upgrade race of section 2). `SessionsProveInTurn` is
  about `MCSpec`, whose `inTurn` makes requests take turns, and is proved for any
  number of them: a reset closes every session that is open while it is alone.
* **SignInProofs.** What a request in flight may still add is counted with what the
  table holds: recent failures plus requests about to record one, and sessions a
  challenge opened plus requests that loaded it. Those sums do not grow after the
  check: `AttemptsAreBounded`, `SessionsPerChallengeBounded`. `LocksAreCaused` carries the cause from the
  count to the insert, and keeps it while the clock moves on.
* **WebSessionProofs.** A request knows the version of its moment (`since`) and the guard
  has confirmed it before anything is shown: `EndedSessionsGetNothing`. `LineInv` adds that
  live pairs are the newest of their login, and that a pair on its way to the browser
  is the newest and held by nobody, so no answer takes the browser back:
  `TokenMovesForward`. `QuietInv` says what one tab and an API that answers may hold at each
  stage: `UndisturbedKeepsSession`, without strict binding (with it a refresh from another
  network is refused, which is its purpose), and `UndisturbedNeverLoops`, for two redirects or more.
  `ApiImplementsSessions` closes the circle: with the live pair of a login as its leaf,
  the API that is atomic here refines the `Sessions` that the token store implements
  statement by statement, so browser and guard are shown against what the store keeps to.
* **TtlCacheProofs.** While every load ends before its guard, the only pending loader is
  the one in the table, and it is newer than the cached value: `CallersShareOneLoad`,
  `ValuesMoveForward`. The condition is part of the statements. Nobody is forgotten without
  it: a caller waits for a load that has not ended, even if the guard gave that load up and
  another took its place (`NoCallerForgotten`), so as loads end he is answered
  (`CallersAreAnswered`). The descent is over the loads that have not ended or are settling, of
  the `MaxLoads` of a behaviour, any number.
* **MarketProofs.** What an open window has let through never exceeds what its row and
  its buckets have counted, and neither forgets before the window ends: the cleanup
  deletes rows of windows that are over, and a bucket's `resetAt` is not before the
  window's end. `CallsAreTimely` (nobody asks in a window still to come) makes it
  inductive: `LimitHolds`, `LimitTypeCorrect`, for any calls, servers, limit and window.
  For the gateway, `GatewayInv` keeps every chain within the queue of its task and its
  book among those of its provider (`GatewayTypeCorrect`, `GapsAreTold`); `BudgetInv` adds per
  provider that every answer is on the shared row, lost, or pending (`NothingUncharged`), and,
  while the database answers, that answers and pending chains together stay below the
  limit plus the chains that may ask; while it is down each instance is bounded by its
  own counter: `SoftCapHolds`. `DesksGetAnswers`: the chains that must end have a queue of one
  provider at most, hence five steps; a part that has come stays until the desk
  publishes, so the desk has them all, and its timer stands in for the chain that need not end.
  For the prices of an asset, both series are shown to be one, sorted by the number of
  points that are not later; then each loop by induction on its turns: what is old enough
  lies between the bounds of the search, which close by at least a point a turn, and the
  deepest fall so far is no less than that between any two points seen (`Seen`, with
  the order of fractions by cross-multiplication). With `YearStarts`, the first point
  of the newest year, that is `PricesAgree`.
  For the scores of a stock, `SealsAgree` needs bounds from below: what is not toxic has
  a PCI of 50 or more, which climbs the first step of the seal, and an elite compounder's
  health forces its return, growth and debt. `BetterScoresHold` follows the order of two
  dossiers through every reading, cut, weight and sum. Its hypothesis, `ReadAsMeant`, is
  that `normalizeRatio` reads each ratio as it is meant; the dossiers of the `market`
  run satisfy it, and without it the statement is false (section 2).
* **BrowserProofs.** A book is stored only under what it was asked for
  (`StoredUnderItsOwn`): `SwitchesShowSelection`, for any pulls and selections. `KeysAreKept` needs
  `ReadersAgree`: what a save has read of a key that was not crossed is what the row still
  holds, so writing it back changes nothing: `KeysKept`. `ChosenAnswers` rests on
  `OnlyKeylessPass`: an engine leaves the order only by a turn it passed without a key.
  Then, what must happen: each turn of the chat shortens an order or ends it
  (`MessagesAreAnswered`); the query in force has the only request whose answer will be taken, or
  is answered already (`TypedQueryIsSought`), and that request settles
  (`KeptQueryIsAnswered`); once the user stays, only the pulls that were under way for another
  selection can overwrite the desk, and there are fewer with every answer (`StaysAndSees`).
* **UserDataProofs.** `Fits` counts the rows that are there, the rows that requests past the
  check are about to write, and the places that bulk imports may still fill, less one
  request that may have been the only one: `LimitsHold`, for every table. `DayFits` counts the day's active alerts
  of a route and type together with the evaluations about to create one, and
  `LooksBackADay` says that an evaluation looks back at least as far as the day does now:
  `DailyAlerts`, `AlertsTypeCorrect`. The page of the alert rules: a row that waits for nothing
  shows what is stored, and an answer on its way brings it: `PageIsTrue`. The history: what a
  post calls news stays news until it stores it, but for the rows it did not see:
  `HistoryStaysSparse`. The radar: at most two reasons come before the first extreme:
  `ExtremesTold`. The route: `OffTrackTold`, from three facts about the loop, each by
  induction on the months: who pays more never has less, a target that is reached
  stays reached, and what is paid in is there in the end. The debts, `ExtrasCostNothing`: an
  installment pays off the debt it is calculated for in the months that remain
  (`PaymentPaysOff`, from what powers are), and until then each month leaves a fraction of
  it that depends on the months alone, not on the debt (`PriceMonth`). So `DebtInv`
  can say, of every month, what the installments still pay off, or how many slices are left,
  and that the lower debt stays the lower one. `EvenAssumption` makes every
  division on the way exact. The statement leaves the rests of a card out: below 50
  cents a debt is over, and with 0.95 paid besides one of 2.40 ends on 0.45,
  without on 0.40.

Induction on months and turns is done over a set of numbers (`MonthByMonth`, `OneByOne`,
from the well-foundedness of `<`), since the library's induction theorems take an
operator. The loops of `ProjectBalance`, `IndexAtOrBefore` and `MaxDrawdown` and the products of
`Amortization` are recursive functions: that there is such a function is proved
(`CourseExists`, `LoopExists`, `ProductExists`) and its
equation is not taken for granted.

The six liveness properties of the runs are theorems, of this form: `Spec /\ []Fair => Property`,
where `Fair` says of each fair action A that its guard is false some time or A is taken
(`RequestsGoOn`, `LoadsGoOn`, `GatewayGoesOn`, `PullsGoOn`, `FetchesEnd`, `ServeComes`). That is `WF(A)` with
`ENABLED <<A>>` written out as the guard one reads off the action, since no prover here expands
ENABLED. Where the guard implies ENABLED, `WF(A)` implies it. In the runs' instances
it does so in every reachable state, the bounds on times, rows and versions included: TLC was
asked for it as an invariant of each of them. Each proof has a rank that every fair
action lowers and nobody else raises while the goal is open. Where the code fixes its
size (the providers of a queue, the engines) the descent is unrolled; otherwise it is by
induction on the rank (`NumberByNumber`), with what holds of a behaviour for each number taken
as a sequence of truths (`Told`), because it makes no set.

Only model-checked: the same properties under `WF` itself, whose ENABLED is beyond the prover.
All other properties of the runs that pass are theorems as well.

## 6. Abstractions and what is left out

* One user, one account, one browser, one cache key: the code keeps no state across them
  that these properties mention. In `refresh`, the branch for a user who is gone
  cannot be reached: nothing deletes users, and their tokens would go with them.
* Hashes, tokens, challenges and cookies are ranks or tags; the collisions and
  signatures of cryptography are assumed away. Mail is not state.
* Times are ticks. Rows of one table live equally long.
* `RefreshTokens` treats binding (`REFRESH_STRICT_BIND`) as a choice of the presenting client.
* `SignIn`: not the per-address lockout of unknown e-mails, the admin network
  check (an end like `Fail`), registration challenges or signature counters.
* `WebSession`: not a missing `JWT_SECRET`, the expiry of the refresh cookie, legacy
  cookie names, or a database that fails in the web tier while the API works.
* `TtlCache`: not the purge of expired keys (it removes what `Fresh` already ignores) or
  unhandled rejections.
* `RateLimit`: one key; the purge of idle buckets that a large map triggers is left out.
* `MarketGateway`: a book is its number of rows and whether it calls itself partial;
  simulated quotes are off, as by default; index cards and the usage report are out.
* `QuoteDesk`: a payload is the selection it was asked for; `Assistant`: of a text only
  whether it is longer than the schema takes.
* `RouteEngine` and `Amortization` calculate exactly where the code uses doubles: what is
  shown is that the arithmetic is right, not its rounding. Returns are monthly rates.
* `Analytica`: arithmetic is exact up to the points the code rounds; growth is given as a
  yearly rate, not as the fifth root of a return; what else the qualitative scores
  look at is bundled in `esteem`. Volatility, volumes, the confidence in the data, the peers
  and the seal of coins are left out.
* `PriceHistory`: times are half days, returns the pair of their closes.
* `Radar`: rules have the default threshold or one other; the live ranks of the
  dossier are booleans.

### Not modelled

The reasons are in `PROJECT.json`, component by component. Most of the repository's
lines are not behaviour that a specification could be faithful to: React markup and
WebGL scenes, marketing pages, message catalogues and the scripts that merge them,
tables of sectors and symbols, parsers of feeds and of provider rows. The map covers
the files that keep state that several actors share, and most that decide something;
the share of all lines stays small for that reason, and mapping definitions to markup
would not make it true. In particular:

* transport signatures, JWT formats, bootstrap, mailer, CSRF: stateless checks and
  configuration;
* provider adapters beyond what they may answer; of the dossier the fetching and
  joining of answers;
* `CashRebalancingEngine`, which only its tests call; the live ranks and the texts of the
  engines; compound interest and the calendars, of which nothing is stated but
  their formulas;
* news, SEO, platform status, scripts and CI;
* the UI, except for the hooks and forms whose order of answers matters.

## 7. Plan

Written: the account (`RefreshTokens` with `Sessions`, `Credentials`, `SignIn`, `WebSession`), the
market (`TtlCache`, `RateLimit`, `MarketGateway`, `PriceHistory`, `Analytica`), the browser (`QuoteDesk`, `AssetSearch`, `AiKeys`,
`Assistant`), the user's data (`UserTables`, `RouteAlerts`, `AlertRules`, `SignalHistory`) and three
calculations (`Radar`, `RouteEngine`, `Amortization`), with proofs where the table of section 2
names them.

Left, in order of what could go wrong:

1. The composition of `SignIn` with `RefreshTokens` through `Issue`, as a refinement.
2. The quotes stream of the browser, the alerts of a route that come from the
   calendar and the indicators, the registration of passkeys.

Runs stay one per question; where a new question needs a run, histories of existing
ones are merged with a variable like `inTurn`, `setting` or `part`.
