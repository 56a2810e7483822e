SPECIFICATION ReviewsSpec
CONSTANTS
  a = a  b = b  x = x
  Process = {a, b}
  PR = {x}
  NoPR = NoPR
  Reviews <- OneReview
  Ttl = 2
  Trouble = {"crash", "prepare_error", "db_error"}
  MaxTime = 4
  MaxFailed = 1
  MaxHead = 2
  Message = {"m", "n"}
  Rank = {0, 1, 2}
  MinRank = 1
  FileLines = 6
  Commentable = {1, 2, 3}
  MaxLine = 7
  SameLines = {4, 6}
  QuoteLines = {2, 4, 6}
  MaxDistance = 2
  MaxComments = 2
  SuggestionsMode = "apply"
  Settings <- Deployments
  Attempts = 2
  Symbol = {1, 2, 3, 4}
  FileOf <- SymbolFiles
  Calls <- CallGraph
  Trees <- TwoHeads
  BaseTree <- BaseBefore
  MovedText <- BaseAfter
  Ignored = {}
  Signature <- TextSignature
  TopK = 3
  FewRows = 2
  MaxAsked = 1
  Chunk = {1, 2, 3, 4, 5, 6}
  Indexed = {1, 2, 3, 4, 5, 6}
  PathOf <- ChunkPath
  Lines <- ChunkLines
  TestPath = {"t"}
  RrfK = 60
  RatioTenths = 5
  AbsFloor = 3
  FetchLimit = 40
  BaseAsked <- BaseQueries
  MultiAsked <- MultiQueries
  Reporter = {a, b}
  Signature0 = {1, 2}
  Title0 = {"t", "u", "v"}
  Foreign = {2}
  Open = {a, b}
  ByHand <- HandWritten
  ListLimit = 2
  SendAttempts = 2
  MaxIssues = 3
  MaxCalls = 2
  ReportTrouble = {"list_error", "refused", "busy", "busy_but_done", "timeout"}
  MaxChanges = 2
INVARIANTS SessionHasItsOverlay ActiveOverlayIsGuarded GitLabPostsOnce NothingKeptIsLost PublishedIsThere DedupIsSound CommentsAreOnTarget ToolsShowTheHead SearchKeepsWhatItFinds ReportsAreWanted ContextIsHonest
PROPERTIES GcIsExact
CHECK_DEADLOCK FALSE
