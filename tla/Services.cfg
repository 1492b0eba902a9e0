CONSTANTS
  None = None
  t1 = t1
  t2 = t2
  open = open
  look = look
  type = type
  c3 = c3
  f1 = f1
  f2 = f2
  h1 = h1
  a = a
  b = b
  k = k
  m1 = m1
  Clients = {c1, c2}
  Calls = {c1, c2}
  Tools = {t1, t2}
  Idempotent = {t2}
  Risky = {t1}
  Fallback <- MCFallback
  Keys = {k}
  Hashes = {h1, h2}
  MaxRetries = 1
  MaxCrashes = 1
  StepTools = {open, look, type}
  Provides <- MCProvides
  Requires <- MCRequires
  MaxTurns = 2
  MaxCalls = 4
  StepLimit = 3
  ToolLimit = 2
  TokenLimit = 2
  MaxRequests = 3
  Todos = {t1, t2}
  TaskGoals = {g1, g2}
  Constraints = {v1, v2}
  MaxCheckpoints = 2
  Memories = {m1, m2}
  MaxLength = 6
  Sizes = {2, 3}
  Overlaps = {0, 1}
  Editors = {c1, c2, k}
  ItemNames = {a, b}
  BuiltIn = a
  Docs = {c3}
  Builds = {b1, b2, b3}
  Uploads = {f1, f2}
  Homes = {a}
  NameOf <- MCNameOf
  Pages = {a, b}
  Streams = {k1, k2}
  Paths = {a, b}
  Chunks = {a, b, c3}
  Similar = {50, 100}
  Overlap <- MCOverlap
  Length <- MCLength
  Passage <- MCPassage
  MaxVariants = 1
  MarkedChunks = 2
  TopK = 2
  MinScore = 300
  BlockChars = 5
  Slack = 1
  MaxPieces = 2
  Asked = {0, 1, 2, 4, 5, 8, 9, 10, 15, 16}
  Items <- MCItems
  MaxItems = 3
  Limit = 2
  ItemChars = 3
  MaxChars = 5
  MaxLinks = 1
  HistoryChars = 7
  Short = 1
  MarkChars = 1
  TitleFrame = 1
  Recent = 1
  DigestChars = 2
  Goals <- MCGoals
  StepTexts <- MCSteps
  Contexts <- MCContexts
  MaxIndex = 2
  Loaded <- MCLoaded
  Servers <- MCServers
  Agents = {c3, h1}
  Default = c3
  MaxChanges = 1
  Transport <- MCTransport
  Notes = {m1}
  LifePasses = {c1, c2}
  Pace <- MCPace
  MaxConf = 4
  Confs = {1, 4}
  MinHits = 2
  Promoted = 3
  Floor = 2
  MaxDays = 1
  Browsers = {b1, b2}
  Urls = {k}
  Shells = {a}
  MaxLines = 3
  LineLimit = 2
  Plans = {a, b}
  CardTexts = {t1, t2}
  MaxRuns = 2
  MaxEvents = 6
SPECIFICATION Spec
INVARIANTS
  TypeOK
  ToolEffectOnce
  StepSound
  MemoriesSound
  DeprecatedStaysOut
  FilesLoad
  KnowledgeSound
  ChunksFaithful
  RetrievalSound
  FilesKept
  PageIsCoherent
  VerdictsSound
  UpdatesSound
  TurnSound
  ContextBounded
  OutsideSound
  SandboxSound
PROPERTY BoardSound
CHECK_DEADLOCK FALSE
