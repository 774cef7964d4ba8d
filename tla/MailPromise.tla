---------------------------- MODULE MailPromise ----------------------------
(***************************************************************************)
(* What the transactional outbox promises its callers: a mail is owed from *)
(* the commit of the transaction that asked for it, and from then on it is *)
(* only ever settled, either by handing it to the broker (at least once)   *)
(* or by giving it up for good.  Nothing about polls, locks, attempts or   *)
(* crashes.                                                                *)
(***************************************************************************)
EXTENDS Naturals

CONSTANT Rows

VARIABLES intent,     \* "none", "owed", "handed", "given_up"
          published   \* how often the mail was put into the broker

vars == <<intent, published>>

Init == intent = [r \in Rows |-> "none"] /\ published = [r \in Rows |-> 0]

Promise(r) ==
  /\ intent[r] = "none"
  /\ intent' = [intent EXCEPT ![r] = "owed"]
  /\ UNCHANGED published

\* Only a mail that is owed is published.
Publish(r) ==
  /\ intent[r] = "owed"
  /\ published' = [published EXCEPT ![r] = @ + 1]
  /\ UNCHANGED intent

\* Any set of owed mails is settled at once, each one either way; handed over
\* means that the broker really has it.
Settle ==
  /\ intent' \in [Rows -> {"none", "owed", "handed", "given_up"}]
  /\ \A r \in Rows : intent'[r] # intent[r] =>
       /\ intent[r] = "owed" /\ intent'[r] \in {"handed", "given_up"}
       /\ intent'[r] = "handed" => published[r] > 0
  /\ UNCHANGED published

Next == (\E r \in Rows : Promise(r) \/ Publish(r)) \/ Settle

Spec == Init /\ [][Next]_vars
=============================================================================
