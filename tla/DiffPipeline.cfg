CONSTANT MaxHunks = 4
SPECIFICATION Spec
INVARIANTS TypeOK AccountedFor AlreadyAppliedIsNoOp ReversibleIsExact
           WrittenIsChanged
