SPECIFICATION Spec
CONSTANTS
  Addr = {1, 2, 3}
  Requests = {1, 3}
  SizeRange = 8
  MaxCalls = 4
  Below = 1
INVARIANTS ListIsRight BytesBalance VerdictsAreRight CrashesAreMissingItems
