SPECIFICATION SpliceSpec
CONSTANTS
  Nil = Nil
  Section <- MCSection
INVARIANTS
  SpliceAsEncoded
