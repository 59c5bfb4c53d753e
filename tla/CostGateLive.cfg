SPECIFICATION FairSpec
CONSTANTS
  Dims = {cents}
  U32Max = 3
  I64Max = 3
  U64Max = 7
  Holders = {h1}
  Tokens = {t1}
  Providers = {p1}
  AllowedProviders = {p1}
  Rids = {r1, r2}
  Calls = {c1, c2}
  EnvelopeSizes = {2}
  ActualSizes = {1}
  TopUpSizes = {2}
  InitialSize = 3
  CeilingSize = 2
  CapSize = 4
  Envelopes <- MCEnvelopes
  Actuals <- MCActuals
  TopUps <- MCTopUps
  InitialBalance <- MCInitialBalance
  Ceiling <- MCCeiling
  ProvisionCap <- MCCap
  Funded = {h1}
  TtlMs = 1
  MaxNow = 2
  MaxTopUps = 1
  NoHolder = NoHolder
  NoRid = NoRid
CHECK_DEADLOCK FALSE
PROPERTIES ClaimsComplete AdmitAnswers
