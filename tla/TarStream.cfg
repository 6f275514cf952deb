SPECIFICATION Spec
CONSTANT Size = 8
INVARIANTS NoTornArchive SuccessIsStored
PROPERTY Returns
CHECK_DEADLOCK FALSE
