---------------------------- MODULE Sponsorship ----------------------------
(***************************************************************************)
(* Sponsorships on the board: a sponsor asks for a span of blocks, BTCPay  *)
(* opens an invoice, a poller follows its payments, and a paid span is     *)
(* held for the sponsor's proving bot until it is proven. Board reads the  *)
(* holds when it hands out a block and when it accepts a proof; this       *)
(* module adds the actions that create, move and end them.                 *)
(*                                                                         *)
(* None of them takes the server's `_lock` except bot_reconcile: they may  *)
(* fall between the check and the write of a claim or a submit. Only       *)
(* SQLite's one write lock keeps them out of a transaction, hence `DbFree` *)
(* in every action that writes.                                            *)
(***************************************************************************)
EXTENDS Board

CONSTANTS
  SponsorSpans,              \* the spans sponsors ask for
  SPONSOR_INVOICE_MINUTES,   \* how long an invoice is payable, and holds its blocks
  SPONSOR_INVOICE_WATCH,     \* how long after that the poller still asks about it
  SPONSOR_CONFIRMING_HOLD,   \* how far a payment being confirmed pushes the hold out
  NoSponsorship              \* no request, no poll under way

ASSUME SponsorAssumption ==
  /\ SponsorSpans \subseteq {r \in Blocks \X Blocks : r[1] <= r[2]}
  /\ {SPONSOR_INVOICE_MINUTES, SPONSOR_INVOICE_WATCH, SPONSOR_CONFIRMING_HOLD} \subseteq Nat
  /\ NoSponsorship \notin SponsorIds

VARIABLES
  requesting,  \* the row whose request is inside _sponsor_request_lock
  expires,     \* column invoice_expires_at; watch_until is SPONSOR_INVOICE_WATCH later
  paid,        \* BTCPay: what each invoice was paid, "none", "part" or "full", and whether it is settled
  poll         \* the row the poller is on, and what it read of it

svars == <<requesting, expires, paid, poll>>

NoPoll == [id |-> NoSponsorship, now |-> 0, status |-> "none", hold_until |-> Never, outcome |-> "open"]

SInit ==
  /\ Init
  /\ requesting = NoSponsorship
  /\ expires = [s \in SponsorIds |-> 0]
  /\ paid = [s \in SponsorIds |-> [sats |-> "none", settled |-> FALSE]]
  /\ poll = NoPoll

boardRest == <<clock, ranges, vranges, files, skeys, cache, busy, lock, req>>

-----------------------------------------------------------------------------
(* Asking for a span.                                                      *)

(* _sponsor_span: every block still open, not proven, claimed or sponsored. *)
SpanOpen(r) ==
  /\ Span(r) \cap Covered(vranges) = {}
  /\ \A q \in RangeIds : LiveClaim(ranges[q], clock) => Span(q) \cap Span(r) = {}
  /\ \A s \in SponsorHolds \cup SponsorPending(clock) : SponsorSpan(s) \cap Span(r) = {}

(* _sponsor_request_invoice, up to the call: checked and recorded under
   _sponsor_request_lock, holding nothing yet. *)
Request_(s, r) ==
  /\ requesting = NoSponsorship /\ DbFree
  /\ sponsors[s].status = "none"
  /\ SpanOpen(r)
  /\ sponsors' = [sponsors EXCEPT ![s] = [lo |-> r[1], hi |-> r[2], status |-> "requested", hold_until |-> Never]]
  /\ requesting' = s
  /\ UNCHANGED <<boardRest, expires, paid, poll>>

(* BTCPay answered: from here the invoice holds the blocks. *)
Invoice(s) ==
  /\ requesting = s /\ DbFree
  /\ sponsors' = [sponsors EXCEPT ![s] = [@ EXCEPT !.status = "invoiced",
                                                   !.hold_until = clock + SPONSOR_INVOICE_MINUTES]]
  /\ expires' = [expires EXCEPT ![s] = clock + SPONSOR_INVOICE_MINUTES]
  /\ requesting' = NoSponsorship
  /\ UNCHANGED <<boardRest, paid, poll>>

(* BTCPay failed: the row is deleted. *)
InvoiceFailed(s) ==
  /\ requesting = s /\ DbFree
  /\ sponsors' = [sponsors EXCEPT ![s] = NoSponsor]
  /\ requesting' = NoSponsorship
  /\ UNCHANGED <<boardRest, expires, paid, poll>>

-----------------------------------------------------------------------------
(* Payments. BTCPay lets an invoice be paid late; it says Expired once its  *)
(* time is over and nothing, or too little, was paid.                       *)

Pay(s, sats) ==
  /\ sponsors[s].status \in {"invoiced", "expired", "underpaid"}
  /\ <<paid[s].sats, sats>> \in {<<"none", "part">>, <<"none", "full">>, <<"part", "full">>}
  /\ paid' = [paid EXCEPT ![s] = [sats |-> sats, settled |-> FALSE]]
  /\ UNCHANGED <<boardRest, sponsors, requesting, expires, poll>>

Settle(s) ==
  /\ paid[s].sats # "none" /\ ~paid[s].settled
  /\ paid' = [paid EXCEPT ![s].settled = TRUE]
  /\ UNCHANGED <<boardRest, sponsors, requesting, expires, poll>>

(* What the two BTCPay calls of a poll say. *)
InvoiceOutcome(s) ==
  CASE paid[s].sats = "full" /\ paid[s].settled  -> "settled"
    [] paid[s].sats # "none" /\ ~paid[s].settled -> "confirming"
    [] clock < expires[s]                        -> "open"
    [] paid[s].sats = "part"                     -> "short"
    [] OTHER                                     -> "nothing"

(* sponsor_payments_poll reads the clock and a row, and asks BTCPay about it.
   Nobody but the poller moves a row it watches, so the reading and the
   asking are one step; *)
PollRead(s) ==
  /\ poll.id = NoSponsorship
  /\ sponsors[s].status \in {"invoiced", "expired", "underpaid"}
  /\ expires[s] + SPONSOR_INVOICE_WATCH > clock
  /\ poll' = [id |-> s, now |-> clock, status |-> sponsors[s].status, hold_until |-> sponsors[s].hold_until,
              outcome |-> InvoiceOutcome(s)]
  /\ UNCHANGED <<boardRest, sponsors, requesting, expires, paid>>

(* Fault: a payment still being confirmed counts as paid. *)
ConfirmingCounts ==
  IF poll.outcome \in {"settled", "confirming"} THEN "paid" ELSE poll.status

PolledStatus ==
  CASE poll.outcome = "settled" -> "paid"
    [] poll.outcome = "short"   -> "underpaid"
    [] poll.outcome = "nothing" /\ poll.status = "invoiced" -> "expired"
    [] OTHER -> poll.status

(* Fault: a payment that arrives after the span was proven starts a hold. *)
NoLateMark(s, row) == [sponsors EXCEPT ![s] = row]

(* The poller's transaction: the row, and, when it is paid, the end of every
   hold on a span that others have proven meanwhile. *)
Settled(s, row) ==
  LET S == [sponsors EXCEPT ![s] = row]
  IN  IF row.status = "paid" THEN MarkProven(S, vranges, <<row.lo, row.hi>>) ELSE S

(* Every transition is guarded by the status it moves from. *)
StillAsRead(s) == sponsors[s].status = poll.status

(* ... and writes what it found, if the row is still as it was read. *)
PollWrite ==
  LET s    == poll.id
      held == IF poll.hold_until > poll.now + SPONSOR_CONFIRMING_HOLD
                THEN poll.hold_until ELSE poll.now + SPONSOR_CONFIRMING_HOLD
      row  == [sponsors[s] EXCEPT
                 !.status = PolledStatus,
                 !.hold_until = IF poll.outcome = "confirming" /\ poll.status = "invoiced" THEN held ELSE @]
  IN  /\ s # NoSponsorship /\ DbFree
      /\ sponsors' = IF StillAsRead(s) THEN Settled(s, row) ELSE sponsors
      /\ poll' = NoPoll
      /\ UNCHANGED <<boardRest, requesting, expires, paid>>

-----------------------------------------------------------------------------
(* The bot.                                                                *)

(* bot_register_key: one sponsorship per key, and only while it holds. *)
RegisterKey(k, s) ==
  /\ DbFree
  /\ s \in SponsorHolds /\ skeys[k] = {}
  /\ skeys' = [skeys EXCEPT ![k] = {s}]
  /\ UNCHANGED <<clock, ranges, vranges, files, sponsors, cache, busy, lock, req, svars>>

(* bot_proving *)
BotProving(s) ==
  /\ DbFree
  /\ sponsors[s].status = "paid"
  /\ sponsors' = [sponsors EXCEPT ![s].status = "proving"]
  /\ UNCHANGED <<boardRest, svars>>

(* bot_reconcile, under `_lock`: end the holds on spans that were proven by
   another path. *)
BotReconcile ==
  /\ lock = NoThread
  /\ sponsors' = MarkProven(sponsors, vranges, <<1, Tip>>)
  /\ UNCHANGED <<boardRest, svars>>

(* The server dies: the request and the poll under way are lost with it. *)
SCrash == Crash /\ requesting' = NoSponsorship /\ poll' = NoPoll /\ UNCHANGED <<expires, paid>>

BoardStep ==
  /\ \/ \E t \in Threads : Start(t) \/ Serve(t) \/ Abort(t)
     \/ \E r \in RangeIds : Unpark(r)
     \/ Tick
  /\ UNCHANGED svars

SNext ==
  \/ BoardStep
  \/ SCrash
  \/ \E s \in SponsorIds : \/ \E r \in SponsorSpans : Request_(s, r)
                           \/ Invoice(s) \/ InvoiceFailed(s)
                           \/ \E sats \in {"part", "full"} : Pay(s, sats)
                           \/ Settle(s) \/ PollRead(s)
                           \/ BotProving(s)
                           \/ \E k \in Keys : RegisterKey(k, s)
  \/ PollWrite
  \/ BotReconcile

SSpec == SInit /\ [][SNext]_<<vars, svars>>

-----------------------------------------------------------------------------
(* Properties.                                                             *)

(* A span that is held is not yet covered: the hold ends in the step that
   completes the span, whether a proof or a late payment comes last. A hold
   left behind would block its span for good, since holds never expire. *)
HoldEndsWhenProven ==
  \A s \in SponsorHolds : ~(SponsorSpan(s) \subseteq Covered(vranges))

(* Only money that has settled, and all of it, holds blocks: the board's
   status and BTCPay's agree, whenever the poller read the one and wrote the
   other. *)
HoldIsPaidFor ==
  \A s \in SponsorHolds : paid[s].sats = "full" /\ paid[s].settled

-----------------------------------------------------------------------------
(* What the documentation says of sponsorships and the code does not do.   *)

(* "Only the sponsorship's own key can prove a held block": a proof that
   newly covers a held block is recorded under a key registered for it. *)
HeldProvedOnlyByItsKey ==
  [][\A r \in RangeIds : vranges'[r] # vranges[r] =>
       \A s \in SponsorHolds :
         (\E h \in Span(r) \cap SponsorSpan(s) : h \notin Covered(vranges))
           => s \in skeys[vranges'[r].pubkey]]_<<vars, svars>>
=============================================================================
