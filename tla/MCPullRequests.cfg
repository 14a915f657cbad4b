\* One pull request, two policies, a human and a bot, pushes and merges.
SPECIFICATION Spec
CONSTANTS
  main = main f1 = f1 f2 = f2
  NoCommit = NoCommit NoPolicy = NoPolicy NoPull = NoPull
  Principals = {alice, bot}
  Reviewers = {alice, bot}
  Developers = {alice}
  Humans = {alice}
  Pulls = {p1}
  Base = main
  Features = {f1}
  MaxCommits = 4
  MaxRuns = 2
  Policies <- Counting
  Floors <- Default
  RequiredApprovals = {1}
  StartRefs <- Diverged
  StartParents <- DivergedParents
  StartHistory <- DivergedHistory
INVARIANTS PullTypeOK HeadsAreReconstructable
PROPERTIES  MergesKeepUnmovedBase PullsFollowLifecycle
CHECK_DEADLOCK FALSE
