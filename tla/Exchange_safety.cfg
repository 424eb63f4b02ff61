SPECIFICATION FairSpec
CONSTANTS
  Fields = 2
  MaxParts = 2
  MaxSecrets = 2
  MaxAttempts = 2
CHECK_DEADLOCK FALSE
INVARIANTS RequestInOrder HeaderNamesCipher OneAnswer ShortForAReason
PROPERTIES ImplementsAnswerPrefix Terminates
