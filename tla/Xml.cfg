\* The parser's grammar of the prolog, what documents mean to it, and what
\* property files make of a tree.
SPECIFICATION Spec
CONSTANTS
  MaxLength = 10
  Common <- MCCommon
  FullLength = 5
  Files <- MCFiles
  Masters <- MCMasters
  PropNames = {"a", "b"}
  Reads <- MCReads
  Inputs <- MCInputs
INVARIANTS
  PrologIsGrammatical
  MeansWhatItSays
  ErrorLineIsRight
  SettingsHold
  WrittenReadsBack
CHECK_DEADLOCK FALSE
