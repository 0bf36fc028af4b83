CONSTANT MaxHunks = 1
SPECIFICATION Spec
INVARIANT SuccessIsInTheFile
