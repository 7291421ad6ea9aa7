\* The field of 256 elements with the tables of the program.
SPECIFICATION Spec
CONSTANTS
  BITS = 8
  ltable <- ltableOfProgram
  atable <- atableOfProgram
  Polynomial = 283
  Generator = 229
INVARIANTS
  TablesArePowers
  ProductIsFieldProduct
  QuotientUndoesProduct
CHECK_DEADLOCK FALSE
