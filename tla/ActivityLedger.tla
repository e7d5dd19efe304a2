--------------------------- MODULE ActivityLedger ---------------------------
(***************************************************************************)
(* What the stream and the scoring worker promise about an event: at least *)
(* once, unless it expires first.  Events are published in order; the      *)
(* worker settles them, in any order and any number at a time; it          *)
(* acknowledges a prefix, and only a prefix that is settled or expired.    *)
(* Publishing makes unacknowledged events expire, but none of the newest   *)
(* Keep; nobody is told.  The acknowledgement may be forgotten and the     *)
(* stream may be lost (each a key that Redis evicts).                      *)
(***************************************************************************)
EXTENDS Naturals

CONSTANTS
  Max,  \* entries the stream ever holds
  Keep  \* the newest entries publishing never makes expire

VARIABLES
  published,  \* events 1..published were added to the stream
  settled,    \* events logged, or given up with a message
  expired,    \* events that left the stream unacknowledged, without a message
  acked       \* events 1..acked are never read again, unless acked is lost

ledger == <<published, settled, expired, acked>>

LedgerInit == published = 0 /\ settled = {} /\ expired = {} /\ acked = 0

\* Some of the unacknowledged events expire.
Expire ==
  /\ expired \subseteq expired'
  /\ \A id \in expired' \ expired : id > acked /\ id <= published

Publish ==
  /\ published < Max
  /\ published' = published + 1
  /\ Expire
  /\ \A id \in expired' \ expired : id + Keep <= published'
  /\ UNCHANGED <<settled, acked>>

Settle ==
  /\ settled \subseteq settled'
  /\ settled' \subseteq 1..published
  /\ UNCHANGED <<published, expired, acked>>

Acknowledge ==
  /\ acked' \in acked..published
  /\ 1..acked' \subseteq settled \cup expired
  /\ UNCHANGED <<published, settled, expired>>

Forget == acked' = 0 /\ UNCHANGED <<published, settled, expired>>

LoseStream == Expire /\ UNCHANGED <<published, settled, acked>>

LedgerNext == Publish \/ Settle \/ Acknowledge \/ Forget \/ LoseStream

LedgerSpec == LedgerInit /\ [][LedgerNext]_ledger
=============================================================================
