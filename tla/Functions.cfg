SPECIFICATION Spec
CONSTANTS
  None = None
  Jobs = {j1, j2}
  Local = Local
  Stops = {"stop", "toolUse", "error"}
  MaxEntries = 5
  MaxItems = 3
  MaxParts = 5
  Text = "text"
  MaxImages = 4
  MaxEdits = 2
  MaxNodes = 6
  MaxFiles = 3
INVARIANTS
  BridgeExact
  ProviderExact
  ExtensionsExact
PROPERTY CutIsFinal
CHECK_DEADLOCK FALSE
