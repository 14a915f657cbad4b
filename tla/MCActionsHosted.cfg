\* Enqueueing, the native runner and two hosted executors; no private runner.
SPECIFICATION Spec
CONSTANTS
  a1 = a1 a2 = a2 k1 = k1 k2 = k2 gpu = gpu p1 = p1
  NoRunner = NoRunner NoPR = NoPR NoAgent = NoAgent
  MaxRuns = 2
  NumSteps = 2
  MaxFaults = 1
  Labels = {}
  Runners = {}
  PRs = {p1}
  Sources = {"push", "pull", "request", "manual", "workflow", "policy"}
  Executors = {e1, e2}
  Agents = {}
  RunnerOf <- NoFunction
  RunnerLabels <- NoFunction
  Concurrency = 1
SYMMETRY ExecutorSymmetry
INVARIANT SystemTypeOK HostedHoldsAlone PrivateRunsStayPrivate VerificationHasEvidence
PROPERTY RunsFollowLifecycle
CHECK_DEADLOCK FALSE
