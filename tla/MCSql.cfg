SPECIFICATION MCSpec
CONSTANTS
  Schema <- MCSchema
  Indexes <- MCIndexes
  Statements <- MCStatements
  Databases <- MCDatabases
  Modes <- MCModes
  FloatMax = 1000
  Big = 1000
  Trees <- MCTrees
  RowNums <- MCRowNums
  Io = 3000
  Cpu = 2
  Fragments <- MCFragments
  MaxFragments = 4
  Vocabulary <- MCVocabulary
  Starts <- MCStarts
  Endings <- MCEndings
  MaxTokens = 3
  Partials <- MCPartials
  PrefixOf <- MCPrefixOf
  ParserViews <- MCParserViews
  ItemLimits = {0, 2}
  Catalog <- MCCatalog
  TableOrder <- MCTableOrder
  NameOrder <- MCNameOrder
  Continuations <- MCContinuations
  MaxModelTokens = 3
  MaxAnswered = 0
  MaxSchemaTables = 2
  Askers = {a1, a2}
  Timeout = 1
  HealthTtl = 2
  Parts = 1
  Pieces = 2
  MaxCalls = 1
  MaxToggles = 1
  MaxWaits = 1
INVARIANTS
  StatementsAreRight
  SearchIsSound
  TextIsReadRight
  
  ClientIsSound

  
CHECK_DEADLOCK FALSE
