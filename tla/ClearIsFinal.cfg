SPECIFICATION Spec
CONSTANT Failures = {}
INVARIANT ClearIsFinal
