SPECIFICATION Spec
INVARIANT LocalUnusedUnlessConfigured
CHECK_DEADLOCK FALSE
CONSTANT Configurations <- WithoutLocal
