SPECIFICATION AnswersSpec
CONSTANTS
  a = a
  b = b
  ab = ab
  x = x
  v1 = v1
  v2 = v2
  old = old
  None = None
  NFiles = 3
  Terms = {a, b}
  Titled <- MCTitled
  Summaries = {2}
  Label <- MCLabel
  Wanted = {None, x}
  MaxNamed = 1
  MaxScan = 1
  MaxWrites = 2
  NRepos = 2
  Shas = {s1}
  Idents = {i1}
  Askers = {q1, q2}
  MaxLands = 1
  MaxFails = 1
  Nothing = Nothing
  MaxCommits = 2
  ChunkWords = 3
  ChunkOverlap = 1
  BackPerTerm = 1
  BackExtra = 1
  RerankSet = 2
  SpreadFrom = 2
  Cases <- MCCases
  Compounds <- MCCompounds
  MinBody = 3
  MinSections = 1
  MinSection = 2
  StubHeadings = 1
  StubWords = {x}
  KeepVersions = 1
  Versioned <- MCVersioned
  StaleMark = old
  Signs = {x}
  Unnamed = Unnamed
  ViewRows = 2
  Unscoped = Unscoped
INVARIANTS
  LastWordIsLast
  AbsenceNamesTheUnread
  FirstRepoWins
  AbsentEverywhere
  QuotesAreFound
  
  ThreadsRunForward
  PageIsBest
  SpreadKeepsVerdict
  SectionsOpen
  SectionsAgree
CHECK_DEADLOCK FALSE
