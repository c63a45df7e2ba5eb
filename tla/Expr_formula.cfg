SPECIFICATION Spec
CONSTANTS
  Names <- ThreeNames
  FloatNames = {"inf"}
  Literal <- Numerals
  Texts <- ShortAndLong
  FieldMetrics = {"inf"}
  Values <- SampleValues
  Top = 8
  NULL = NULL
INVARIANTS TypeOK AcceptsTheGrammar ValueOfTheFormula
