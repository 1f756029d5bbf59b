\* One noisy descriptor, one kohikoctl, two monitors.
SPECIFICATION FairSpec
CONSTANTS
  Monitor = {m1, m2}
  MaxStacked = 3
  Lifetime = 2
  Sources = {bus}
  Clients = {c1}
  Idle = 5
  Prompt = 2
  Frame = 1
  Burst = 1
SYMMETRY Symmetry
INVARIANTS
  NothingWaitsLong
  ToastsBehave
