SPECIFICATION Spec
CONSTANTS
  Tokens = {t1, t2, t3}
  Root = t1
  Threads = {h1, h2}
  Caches = {a, b}
  TotalBlocks = 3
  BlockSize = 2
  MaxBatch = 5
  TabIds = {tabA, tabB, tabC}
  Sizes = {2, 4}
  CapTokens = 6
  PrefixLen = 2
  MaxFed = 6
  Models = {m1, m2}
  Runs = {r1, r2}
  Streams = 1
  MaxPages = 2
  MaxModels = 2
  MaxAttempts = 2
  Talks = {k1, k2}
  Past = k0
  Budget = 2
  HistoryLimit = 3
  MaxClock = 2
  Paths = {"p", "q"}
  x1 = x1
  x2 = x2
  x3 = x3
  Texts = {x1, x2, x3}
  Defs <- MCDefs
  Uses <- MCUses
  Workspaces <- MCWorkspaces
  Indexers = {i1, i2}
  MaxEdits = 1
  MaxStarts = 2
  d1 = d1
  d2 = d2
  d3 = d3
  d4 = d4
  qwen = qwen
  NoModel = NoModel
  MaxPanel = 2
  FlintTag = flint
  FlintRepo = flint_hub
  GlmTag = glm
  GlmRepo = glm_hub
  Settings <- MCSettings
  Typings = {g1, g2, g3}
  Nobody = Nobody
INVARIANTS
  CompletionIsCurrent
  FusionConsistent
  TreeConsistent
  PagesConsistent
  LogConsistent
  GraphConsistent
PROPERTIES
  TabsKept
  CatalogKept
  ContextIsRecent
