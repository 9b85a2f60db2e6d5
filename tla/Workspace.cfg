SPECIFICATION Spec
CONSTANTS
  u1 = u1
  u2 = u2
  u3 = u3
  w1 = w1
  w2 = w2
  g1 = g1
  h1 = h1
  google = google
  github = github
  d1 = d1
  d2 = d2
  i1 = i1
  i2 = i2
  v1 = v1
  c1 = c1
  c2 = c2
  Users = {u1, u2, u3}
  Orgs = {w1, w2}
  Accounts = {g1, h1}
  ProviderOf <- Providers
  Invites = {i1, i2}
  Domains = {d1, d2}
  DomainOf <- OneDomain
  Centers = {v1}
  Given = {"admin"}
  EmailSignIn = FALSE
  Teams <- TwoTeams
  Links <- TwoLinks
  Calls = {c1, c2}
  MaxCalls = 3
  MaxStops = 1
SYMMETRY Interchangeable
PROPERTIES
  LastOwnerStays
  AccountsHold
  JoiningHolds
CHECK_DEADLOCK FALSE
