SPECIFICATION Spec
INVARIANT SenderHasValue
