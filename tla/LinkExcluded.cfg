SPECIFICATION Spec
CONSTANT MaxRequests = 3
INVARIANT ExcludedIsServed
