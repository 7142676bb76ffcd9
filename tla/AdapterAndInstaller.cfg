SPECIFICATION AdapterAndInstaller
CONSTANTS
  c1 = c1  c2 = c2
  Calls = {c1, c2}
  Providers = {"p", "q", "r"}
  Workloads <- MCWorkloads
  Plans <- MCPlans
  Models = 2
  Slots = 1
  MaxRetries = 1
  MaxFallbacks = 1
  MaxEntries = 1
  MaxChanges = 1
  None = None
  Unparsable = Unparsable
  o = o
  Chain <- MCChain
  Others = {o}
  MaxCommands = 4
CHECK_DEADLOCK FALSE
INVARIANTS AnswerIsWhole WorkIsBounded SuccessIsReal RelationFollowsChain
PROPERTIES CallsSettle
