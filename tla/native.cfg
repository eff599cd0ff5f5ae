SPECIFICATION Spec
CONSTANTS
  ByteBits = 1
  SafeInteger = 100
  Ten = 2
  MsPerSecond = 2
  MsPerDay = 4
  MsPrecision = 1
  UuidHalf = 2
  Ipv6Groups = 3
  DecimalDigits <- MCDecimalDigits
  NullArm = 255
  ByteOrder <- MCByteOrder
  DictMax <- MCDictMax
  IndexMax <- MCIndexMax
  EndFlag = 1048576
  Schemas <- MCSchemas
  RowSchemas <- MCRowSchemas
  Samples <- MCSamples
  MaxRows = 2
  ColumnSets <- MCColumnSets
  PathSets <- MCPathSets
  PathType <- Json
  ServerBlocks <- MCServerBlocks
  KindsRevision = 54454
  MaxHops = 2
  CacheTypes <- MCCacheTypes
  CacheArgs <- MCCacheArgs
  CacheDepth <- MCCacheDepth
  UnknownTypes = {"x"}
  CacheLimit = 3
  GroupBits = 2
  WordBits = 5
  WideGroups = 4
  ShortString = 2
  CharBytes = 3
  WriterSizes = {1, 4}
  DefaultWriter = 4
  Numbers = {0, 3, 4, 31}
  Strings <- MCStrings
  Chunks <- MCChunks
  MaxWrites = 2
  InputBytes = {0, 1, 3, 4, 7}
  MaxInput = 5
  PlainTypes <- MCPlainTypes
  Words <- MCWords
  LeafTypes <- MCLeafTypes
  NamePairs <- MCNamePairs
  PathPairs <- MCPathPairs
  JsonParams <- MCJsonParams
  MaxGrowth = 2
  Pieces <- MCPieces
  Placeholders <- MCPlaceholders
  Letters <- MCLettersAndWords
  MaxPieces = 2
  TypeNamed <- MCTypeNamed
  Arguments <- MCArguments
  Peers <- MCPeers
  Greetings <- MCGreetings
  Methods <- MCMethods
  Defaults <- MCDefaults
  CallSettings <- MCCallSettings
  CallParams <- MCCallParams
  Tables <- MCTables
  Expected <- MCExpected
  Deltas <- MCDeltas
  Infos <- MCInfos
  EventBlocks <- MCEventBlocks
  LogBlock <- MCLogBlock
  NsPerMicro = 2
  MaxFrame = 1000
  MaxPackets = 2
  HttpDefaults <- MCHttpDefaults
  HttpChoices <- MCHttpChoices
  SettingNames <- MCSettingNames
  TextFormats <- MCTextFormats
  FrameBlock = 4
  MaxChoices = 3
INVARIANTS RowsWhole BlocksKept CacheSound IoExact TypesParse ParamsRead PacketsAgree RequestMeant
CHECK_DEADLOCK FALSE
