SPECIFICATION Spec
CONSTANTS
  Keys = {k1}
  NoKey = NoKey
  Threads = {t1, t2}
  NoThread = NoThread
  Nonces = {}
  NoNonce = NoNonce
  Signings = {FALSE}
  Tip = 2
  Witness = {2}
  WideRanges <- OneFold
  Seeded <- OneFold
  Receipts = {"main", "stale"}
  DiskFaults = FALSE
  CLAIM_TTL = 2
  CLAIM_GRACE = 1
  CLAIM_MAX = 2
  CLAIM_OPEN_MAX = 4
  CLAIM_RETAKE_WAIT = 1
  MAX_ATTEMPTS = 1
  FRONTIER_TTL = 1
  FRONTIER_SETTLE = 2
  COMMIT_MAX = 1
  SponsorIds = {}
  MaxTime = 2
CONSTRAINT NoBeats
SYMMETRY Perms
INVARIANTS CoveredMeansLeafProved MainStaysVerified ServedProofIsMain
PROPERTIES KeepsTheLedger FrontierNeverRegresses
