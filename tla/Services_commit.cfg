SPECIFICATION Spec
CONSTANTS
  Key = {k1, k2}  Filler = {f1}  MaxTime = 2  MaxVersion = 1  Lifetime = 1  Absent = absent
  Topic = {c1}  Handler = {h1, h2}  MaxCommands = 3  MaxMessages = 2
  Tx = {t1, t2}  Query = {q1}  Slot = {s1, s2}  Nobody = nobody  MaxSent = 2
  Request = {r1, r2}  MaxToken = 3  MaxClock = 2  Validity = 1
  Locale = {"en", "nl"}  Default = "en"  MaxRefresh = 2  MaxLogouts = 2  MaxLoads = 3
  Asker = {a1, a2}  Token <- MCTokens  Tenant <- MCTenants  Scope <- MCScope  Audience <- MCAudience
  CacheTTL <- MCCacheTTL  Home <- MCHome  Exp <- MCExp  Aud <- MCAud
  MaxCacheSize = 1  Timeout = 1  MaxNow = 3
  Adopter = {b1, b2}  Migrator = migrator  NoSession = nosession  MaxEdits = 2
INVARIANT SuccessMeansCommitted
CHECK_DEADLOCK FALSE
