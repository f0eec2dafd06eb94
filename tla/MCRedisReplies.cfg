CONSTANT MaxPending = 2
SPECIFICATION Spec
INVARIANT InStep
