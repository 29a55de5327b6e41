SPECIFICATION Spec
CONSTANTS
  x = x
  y = y
  z = z
  Unit = 4
  Names <- MCNames
  H_string <- MCH_string
  DefaultFields <- MCDefaultFields
  DefaultAliases <- MCDefaultAliases
  AliasOrder <- MCAliasOrder
  PartOf <- MCPartOf
  Options <- MCOptions
  Numerals <- MCNumerals
  Extension <- MCExtension
  Tasks <- MCTasks
INVARIANTS ChoicesHonoured ModelIsDeclared SearchSeesModel SparseIsDense InitialBoundsHold
PROPERTY ExpansionEnds
