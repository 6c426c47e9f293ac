SPECIFICATION Spec
CONSTANTS
  Characters <- FewCharacters
  Chunks <- ShortChunks
  Claims <- WordAndPhrase
  PendingLimit = 3
  CandidateLimit = 6
INVARIANTS NoTextLost CommittedIsShown WordClaimsNeverShown GeneratedIsClean
CHECK_DEADLOCK FALSE
