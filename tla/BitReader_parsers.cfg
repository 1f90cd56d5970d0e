SPECIFICATION Spec
CONSTANTS
  Byte = 8
  Size = 40
  Programs <- MCPrograms
INVARIANTS
  ReadsItsBits
  StaysAligned
