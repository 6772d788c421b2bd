----------------------------- MODULE SmtpSend -----------------------------
(***************************************************************************)
(* Sending one digest (kerdoos/digest/smtp_sender.py): the recipient is    *)
(* looked up and vetted, the registry is read for the links of the         *)
(* message, and the message is handed to the relay, again when the relay   *)
(* certainly did not take it and a whole attempt still fits the deadline.  *)
(*                                                                         *)
(* An attempt with STARTTLS and login, the deployment's default, is nine   *)
(* exchanges: 1 connect and banner, 2 EHLO, 3 STARTTLS, 4 EHLO, 5 AUTH,    *)
(* 6 MAIL, 7 RCPT, 8 DATA, 9 the reply to the message; 10 is the QUIT that *)
(* leaving the client's with block sends. An exchange is one or more waits *)
(* on the socket; each wait is bounded by the socket timeout, and nothing  *)
(* bounds them together. The relay's name has one address, and a reply     *)
(* comes in one piece.                                                     *)
(***************************************************************************)
EXTENDS RegistryLoad, Settings

CONSTANTS
    MaxPrep,        \* bound: how long loading and rendering take
    MaxOversleep    \* bound: how much longer than asked a sleep lasts

ASSUME SmtpAssumption == MaxPrep \in Nat /\ MaxOversleep \in Nat

VARIABLES
    clock,      \* time since send() was called
    due,        \* the deadline of send(), on that clock
    left,       \* attempts_left
    op,         \* the exchange under way
    delivered   \* how often the relay took the message

smtp == <<clock, due, left, op, delivered>>

Budget == MaxOps * settings.timeout     \* budget_per_attempt

-----------------------------------------------------------------------------
(* Up to the first attempt                                                  *)

\* No address on file: the digest is skipped and a later window tries again.
NoRecipient ==
    /\ at = "lookup"
    /\ at' = "skipped"
    /\ UNCHANGED <<rows, seen, smtp>>

\* A list of addresses, or a host that is not a domain name.
UnsafeRecipient ==
    /\ at = "lookup"
    /\ at' = "raised"
    /\ UNCHANGED <<rows, seen, smtp>>

Recipient ==
    /\ at = "lookup"
    /\ at' = "sites"
    /\ UNCHANGED <<rows, seen, smtp>>

\* iter_sources raises, or the template does.
RenderFails ==
    /\ at = "loaded"
    /\ at' = "raised"
    /\ UNCHANGED <<rows, seen, smtp>>

\* The deadline starts when the message is ready.
Render ==
    /\ at = "loaded"
    /\ \A r \in seen.sources : ~Dangling(r)
    /\ \E d \in 0 .. MaxPrep :
         /\ clock' = clock + d
         /\ due' = clock + d + settings.deadline
    /\ left' = settings.attempts
    /\ op' = 1
    /\ at' = "attempt"
    /\ UNCHANGED <<rows, seen, delivered>>

-----------------------------------------------------------------------------
(* _send_smtp_once                                                          *)

\* The waits of an exchange: connect and banner; EHLO and, when it is refused,
\* HELO; the reply to STARTTLS and the handshake; CRAM-MD5, PLAIN and LOGIN,
\* which login() tries in turn, with two, one and two replies.
Rounds(o) == CASE o \in 1 .. 4 -> 2
               [] o = 5 -> 5
               [] OTHER -> 1

Took(rounds) == \E d \in 0 .. rounds * settings.timeout : clock' = clock + d

\* A fault drops the connection, or is a temporary or permanent refusal.
Fault == {"dropped", "temporary", "permanent"}

\* Whatever stops the constructor is an SMTPConnectError or an OSError;
\* after it, only a lost connection is.
RetryableConnect(o, fault) == o = 1 \/ fault = "dropped"

\* Faulty variant: a connection lost while sending counts as not delivered.
RetryableSendDropped(fault) == fault # "permanent"

\* Only a reply that says so proves that the message was not taken.
RetryableSend(fault) == fault = "temporary"

Retryable(o, fault) == IF o <= 5 THEN RetryableConnect(o, fault) ELSE RetryableSend(fault)

Exchange ==
    /\ at = "attempt" /\ op <= 9
    /\ Took(Rounds(op))
    /\ op' = op + 1
    /\ delivered' = IF op = 9 THEN delivered + 1 ELSE delivered
    /\ UNCHANGED <<rows, seen, at, due, left>>

\* A relay that goes away after the message may have taken it.
ExchangeFails ==
    /\ at = "attempt" /\ op <= 9
    /\ \E fault \in Fault :
         /\ at' = IF ~Retryable(op, fault) THEN "raised"
                  ELSE IF fault # "dropped" /\ op > 1 THEN "closing" ELSE "failed"
         /\ delivered' \in IF op = 9 /\ fault = "dropped"
                           THEN {delivered, delivered + 1} ELSE {delivered}
    /\ Took(Rounds(op))
    /\ UNCHANGED <<rows, seen, due, left, op>>

\* After a refusal smtplib resets the session, and the with block quits. A
\* QUIT answered by anything but 221 raises in place of the refusal.
CloseAfterRefusal ==
    /\ at = "closing"
    /\ Took(2)
    /\ at' \in {"failed", "raised"}
    /\ UNCHANGED <<rows, seen, due, left, op, delivered>>

\* The same QUIT after a delivery turns it into an error.
Quit ==
    /\ at = "attempt" /\ op = 10
    /\ Took(1)
    /\ at' \in {"sent", "raised"}
    /\ UNCHANGED <<rows, seen, due, left, op, delivered>>

-----------------------------------------------------------------------------
(* The loop of send()                                                       *)

GiveUp ==
    /\ at = "failed"
    /\ left <= 0 \/ due - clock < Budget
    /\ at' = "raised"
    /\ UNCHANGED <<rows, seen, smtp>>

\* The backoff is cut so that an attempt still fits after it.
BackOff ==
    /\ at = "failed"
    /\ left > 0 /\ due - clock >= Budget
    /\ LET backoff == Min({settings.backoff, due - clock - Budget})
       IN  \E late \in 0 .. MaxOversleep :
             clock' = IF backoff > 0 THEN clock + backoff + late ELSE clock
    /\ at' = "slept"
    /\ UNCHANGED <<rows, seen, due, left, op, delivered>>

\* The time is read again after the sleep.
Recheck == at' = IF due - clock < Budget THEN "raised" ELSE "attempt"

AfterSleep ==
    /\ at = "slept"
    /\ Recheck
    /\ IF at' = "attempt" THEN left' = left - 1 /\ op' = 1 ELSE UNCHANGED <<left, op>>
    /\ UNCHANGED <<rows, seen, clock, due, delivered>>

SendStep ==
    \/ NoRecipient \/ UnsafeRecipient \/ Recipient \/ RenderFails \/ Render
    \/ Exchange \/ ExchangeFails \/ CloseAfterRefusal \/ Quit
    \/ GiveUp \/ BackOff \/ AfterSleep
=============================================================================
