\* Without faults: everything the native runner and the executor serve completes.
SPECIFICATION FairSpec
CONSTANTS
  a1 = a1 a2 = a2 k1 = k1 k2 = k2 gpu = gpu p1 = p1
  NoRunner = NoRunner NoPR = NoPR NoAgent = NoAgent
  MaxRuns = 2
  NumSteps = 2
  MaxFaults = 0
  Labels = {}
  Runners = {}
  PRs = {p1}
  Sources = {"push", "pull", "manual", "workflow", "policy"}
  Executors = {e1, e2}
  Agents = {}
  RunnerOf <- NoFunction
  RunnerLabels <- NoFunction
  Concurrency = 1
PROPERTY QueuedRunsComplete StartedRunsComplete
CHECK_DEADLOCK FALSE
