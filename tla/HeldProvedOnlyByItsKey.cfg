SPECIFICATION SSpec
CONSTANTS
  Keys = {k1}
  NoKey = NoKey
  Threads = {t1}
  NoThread = NoThread
  Nonces = {}
  NoNonce = NoNonce
  Signings = {FALSE}
  Tip = 1
  Witness = {1}
  WideRanges = {}
  Seeded = {}
  Receipts = {"main"}
  DiskFaults = FALSE
  CLAIM_TTL = 2
  CLAIM_GRACE = 1
  CLAIM_MAX = 2
  CLAIM_OPEN_MAX = 4
  CLAIM_RETAKE_WAIT = 1
  MAX_ATTEMPTS = 1
  FRONTIER_TTL = 1
  FRONTIER_SETTLE = 2
  COMMIT_MAX = 1
  SponsorIds = {s1}
  MaxTime = 2
  SponsorSpans <- OneBlock
  SPONSOR_INVOICE_MINUTES = 1
  SPONSOR_INVOICE_WATCH = 2
  SPONSOR_CONFIRMING_HOLD = 1
  NoSponsorship = NoSponsorship
ACTION_CONSTRAINT ShortSections
PROPERTIES HeldProvedOnlyByItsKey
