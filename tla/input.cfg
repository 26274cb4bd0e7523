SPECIFICATION Spec
CONSTANTS
  MaxBytes = 4
INVARIANTS RegistersSurvive InServiceIsHandled KeysInOrder
PROPERTY BytesAreRead
