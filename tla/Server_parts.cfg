\* Credentials: two handlers, two bootstrap tokens, room for two of three keys.
\* RateLimiter: three buckets, windows of two ticks, pruning beyond one window.
\* Service: two requests for one route, a worker, alerts on or off.
\* Startup: two processes, one slug, two users that a start may name as owner.
\* Events: two accounts, room for two of four events.
\* GitHubClient: two searches through two pages, one removed issue.
CONSTANTS
  Boots = {b1, b2}
  Keys = {k1, k2, k3}
  Handlers = {h1, h2}
  Direct = direct
  Free = free
  MaxKeys = 2
  Buckets = {a1, a2, a3}
  Limit = 2
  Window = 2
  MaxBuckets = 1
  Callers = {c1, c2}
  Loops = {w1}
  Main = main
  Settings = {TRUE, FALSE}
  Cooldown = 3
  SendTimeout = 1
  Grace = 2
  Calls = {f1, f2}
  MaxNumber = 3
  MaxRemovals = 1
  PageSize = 2
  Life = 3
  Margin = 1
  Processes = {p1, p2}
  Slugs = {s1}
  Users = {u1, u2}
  Nobody = nobody
  Environment = env
  Accounts = {o1, o2}
  MaxIds = 4
  MaxEvents = 2
  Retention = 1
SPECIFICATION MCSpec
INVARIANTS
  ServerTypeOK
  OneKeyPerBootstrap
  BurstIsTwoWindows
  RefusalIsEarned
  SuppressedIsCovered
  AlertsSpaced
  NotFoundIsTrue
  TokenLasts
  MigrationCompletes
  LegacyTokensGone
  EventsRetained
PROPERTIES
  ConnectionReturns
  SignalStops
  OwnedStays
