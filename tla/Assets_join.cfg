SPECIFICATION Spec
CONSTANTS
  NULL = NULL
  Texts <- SomeTexts
  Floats <- SomeFloats
  IpNumber <- Addresses
  CardNumber <- CardIds
  Inputs <- JoinsAndSorts
INVARIANTS TypeOK AssetsOfOwnKey SortedByHost
