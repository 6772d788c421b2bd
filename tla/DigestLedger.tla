---------------------------- MODULE DigestLedger ----------------------------
(***************************************************************************)
(* What the digest evaluator promises of one scheduled firing, a (job,     *)
(* window) pair: it is claimed at most once, the sender is invoked for it  *)
(* at most once and only after the claim, and it is confirmed as sent only *)
(* after the sender ran. No step leads back: neither a crash, nor a reaped *)
(* row, nor a second evaluator re-opens a firing.                          *)
(***************************************************************************)
CONSTANT Key                    \* the (job, window) pairs

VARIABLE phase

LedgerInit == phase = [k \in Key |-> "open"]

Advance(k, from, to) ==
    /\ phase[k] = from
    /\ phase' = [phase EXCEPT ![k] = to]

LedgerNext ==
    \E k \in Key :
        \/ Advance(k, "open", "claimed")
        \/ Advance(k, "claimed", "dispatched")
        \/ Advance(k, "dispatched", "confirmed")

LedgerSpec == LedgerInit /\ [][LedgerNext]_phase
=============================================================================
