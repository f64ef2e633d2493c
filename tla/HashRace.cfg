SPECIFICATION Spec
INVARIANT OnlyOneValue
