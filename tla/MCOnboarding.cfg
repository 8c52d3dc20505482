SPECIFICATION Spec
CONSTANTS
  Databases = {first, other}
  Default = first
  NoDatabase = NoDatabase
  NoConfig = NoConfig
  Upstreams = {u}
  Policies = {p, q}
  FirstPolicies = p
  Calls = {c1, c2, c3, c4}
SYMMETRY Symmetry
INVARIANTS
  MemoryIsStored
  RestartFindsConfig
  SecretsFollow
PROPERTIES
  DurableIsSwitched
