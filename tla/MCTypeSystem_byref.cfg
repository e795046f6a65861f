SPECIFICATION Spec
INVARIANT ByRefOnlyToByRef
