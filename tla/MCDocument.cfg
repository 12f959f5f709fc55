SPECIFICATION Spec
CONSTANTS
  plain = plain
  scanned = scanned
  foreign = foreign
  NoLanguage = NoLanguage
  Languages <- MCLanguages
  Supported <- MCSupported
  Scanners <- MCScanners
  Units <- MCUnits
  MaxUnits = 1
  MaxMade = 5
INVARIANT NothingLeaks
INVARIANT ParseFindsTheText
INVARIANT NodeOfThisParse
