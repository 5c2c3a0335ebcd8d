SPECIFICATION PropertiesSpec
CONSTANTS
  Names = {"a"}
  Indices = {0, 1}
  MaxNodes = 3
  Texts <- MCTexts
  Parse <- MCParse
  Bare <- MCBare
  Callers = {1, 2}
  NoNode = NoNode
  NoText = NoText
  Thrown = Thrown
  Props = {1, 2}
  NoTarget = NoTarget
  MayTie = {1}
  MayAlias <- MCMayAlias
  RawFunctions <- MCRawFunctions
  NumericTypes = {"BOOL", "INT", "DOUBLE"}
  Numbers <- MCNumbers
  Strings <- MCStrings
  Atoi <- MCAtoi
  Strtol <- MCStrtol
  Strtod <- MCStrtod
  Written <- MCWritten
INVARIANTS
  NodesAreKept
  PathsAreRight
  ValuesAreRight
  ValuesAreHandedOn
PROPERTY
  CreateFinds
CHECK_DEADLOCK FALSE
