SPECIFICATION Spec
CONSTANTS
  Keys = {k1}
  NoKey = NoKey
  Threads = {t1, t2}
  NoThread = NoThread
  Nonces = {n1}
  NoNonce = NoNonce
  Signings = {FALSE}
  Tip = 2
  Witness = {1, 2}
  WideRanges = {}
  Seeded = {}
  Receipts = {"main", "bad"}
  DiskFaults = TRUE
  CLAIM_TTL = 2
  CLAIM_GRACE = 1
  CLAIM_MAX = 3
  CLAIM_OPEN_MAX = 2
  CLAIM_RETAKE_WAIT = 2
  MAX_ATTEMPTS = 1
  FRONTIER_TTL = 9
  FRONTIER_SETTLE = 2
  COMMIT_MAX = 1
  SponsorIds = {}
  MaxTime = 2
CONSTRAINT ClaimLoad
SYMMETRY Perms
INVARIANTS RetryHoldsOneBlock
PROPERTIES VerifiedRowKept LiveClaimKept
