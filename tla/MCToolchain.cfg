SPECIFICATION Spec
CONSTANTS
  NULL = NULL
  None = None
  Signature <- MCSignature
  Texts <- MCTexts
  Trees <- MCTrees
  Files <- MCFiles
  MaxTokens = 5
  MaxLength = 4
  MaxBytes = 6
  MaxArgs = 2
INVARIANTS
  RunsWhatWasWritten
  AcceptsOnlyBytecode
  LinksMirror
  OnlyBlanksDropped
  TokensAreLexemes
  CompilesToMeaning
  RefusesOnlyStrayArrows
PROPERTIES
  WellFormedRuns
  ToolchainEnds
