\* Two private runners with one agent each and one hosted executor on hand-run
\* workflows whose policy changes between hosted, private and either.
SPECIFICATION Spec
CONSTANTS
  a1 = a1 a2 = a2 k1 = k1 k2 = k2 gpu = gpu p1 = p1
  NoRunner = NoRunner NoPR = NoPR NoAgent = NoAgent
  MaxRuns = 2
  NumSteps = 1
  MaxFaults = 1
  Labels = {gpu}
  Runners = {k1, k2}
  PRs = {}
  Sources = {"manual", "policy"}
  Executors = {e1}
  Agents = {a1, a2}
  RunnerOf <- OneAgentEach
  RunnerLabels <- GpuOnFirst
  Concurrency = 1
INVARIANT HostedHoldsAlone PrivateRunsStayPrivate LeasedWithinPolicy 
PROPERTY RunsFollowLifecycle
CHECK_DEADLOCK FALSE
