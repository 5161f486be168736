SPECIFICATION Spec
CONSTANTS
  MCBad = MCBad
  MCNaN = MCNaN
  MCUnknown = MCUnknown
  Bad = MCBad
  NaN = MCNaN
  Unknown = MCUnknown
  Empty <- MCEmpty
  Skipped <- MCSkipped
  Atoi <- MCAtoi
  ParseFloat <- MCParseFloat
  Cell <- MCCell
  Tab <- MCTab
  Layout <- MCLayout
  Place <- MCPlace
INVARIANTS TypeOK DistancesFit NearestKept ValidationAgrees
