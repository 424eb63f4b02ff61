SPECIFICATION Spec
CONSTANTS
  CharsPerToken = 2
  CacheBlockSizeTokens = 1
  FirstBlocksPerChar = 1
  SecondBlocksPerChar = 2
  ThirdBlocksPerChar = 3
  FirstBoundaryBlocks = 2
  SecondBoundaryBlocks = 6
  MaxTokens = 10
  NameOrder <- MCNameOrder
  Characters <- MCCharacters
  Files = {"file", "file2"}
  Requests <- MCRequests
  Answers <- MCAnswers
  DefaultSalts <- MCDefaultSalts
  RandomSalt <- MCRandomSalt
  MinSalt = 2
  InsecureParts = {"http"}
  Confidential <- MCConfidential
  None = None
  MaxAttempts = 2
  MaxRequests = 2
CHECK_DEADLOCK FALSE
INVARIANTS TypeOK WorkloadGetsRequest NothingConfidentialReadable ShardKeysFit AnswerArrives FailsForAReason
