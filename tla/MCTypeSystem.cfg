SPECIFICATION Spec
INVARIANT VerifierAssignableTransitive
INVARIANT StackKindPreserved
