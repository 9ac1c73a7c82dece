SPECIFICATION SSpec
CONSTANTS
  Keys = {k1, k2}
  NoKey = NoKey
  Threads = {t1}
  NoThread = NoThread
  Nonces = {}
  NoNonce = NoNonce
  Signings = {FALSE}
  Tip = 2
  Witness = {1, 2}
  WideRanges = {}
  Seeded = {}
  Receipts = {"main"}
  DiskFaults = FALSE
  CLAIM_TTL = 2
  CLAIM_GRACE = 1
  CLAIM_MAX = 2
  CLAIM_OPEN_MAX = 4
  CLAIM_RETAKE_WAIT = 1
  MAX_ATTEMPTS = 1
  FRONTIER_TTL = 1
  FRONTIER_SETTLE = 1
  COMMIT_MAX = 0
  SponsorIds = {s1}
  MaxTime = 1
  SponsorSpans <- Spans
  SPONSOR_INVOICE_MINUTES = 1
  SPONSOR_INVOICE_WATCH = 1
  SPONSOR_CONFIRMING_HOLD = 1
  NoSponsorship = NoSponsorship
CONSTRAINT NoBeats
SYMMETRY Perms
INVARIANTS HoldEndsWhenProven HoldIsPaidFor
