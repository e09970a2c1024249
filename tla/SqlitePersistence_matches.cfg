CONSTANTS
  form = form
  console = console
  k1 = k1
  r1 = r1
  Process = {form, console}
  Console = {console}
  LastName = 1
  Key = {k1}
  Rule = {r1}
  MaxScans = 2
  MaxCalls = 2
SPECIFICATION Spec
CHECK_DEADLOCK FALSE
INVARIANT
  MatchesListed
