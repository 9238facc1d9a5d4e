---------------------------- MODULE MessageStream ----------------------------
(***************************************************************************)
(* What protocol::Stream promises to its caller: the server's messages in  *)
(* order, then one outcome.  The outcome is the server's own only behind   *)
(* all of its messages; a stream that breaks anywhere else fails.  The     *)
(* server may still be at work while the caller reads.                     *)
(* An outcome is a set: empty as long as there is none, then one code, 0   *)
(* for success.                                                            *)
(***************************************************************************)
EXTENDS Integers

VARIABLES
  offer,      \* what the server offers: a number of messages, and its outcome, if it got that far
  count,      \* messages the caller has
  outcome     \* how the stream ended for the caller

Internal == 13

msVars == <<offer, count, outcome>>

MSInit ==
  /\ offer \in [messages : Nat, outcome : SUBSET Int]
  /\ count = 0
  /\ outcome = {}

\* The server goes on: one more message, or its outcome.
Provide ==
  /\ offer.outcome = {}
  /\ offer' \in [messages : Nat, outcome : SUBSET Int]
  /\ \/ offer'.messages = offer.messages + 1 /\ offer'.outcome = {}
     \/ offer'.messages = offer.messages /\ offer'.outcome # {}
  /\ UNCHANGED <<count, outcome>>

Message ==
  /\ outcome = {}
  /\ count < offer.messages
  /\ count' = count + 1
  /\ UNCHANGED <<offer, outcome>>

Finish ==
  /\ outcome = {}
  /\ count = offer.messages
  /\ offer.outcome # {}
  /\ outcome' = offer.outcome
  /\ UNCHANGED <<offer, count>>

Break ==
  /\ outcome = {}
  /\ outcome' = {Internal}
  /\ UNCHANGED <<offer, count>>

MSNext == Provide \/ Message \/ Finish \/ Break

MSSpec == MSInit /\ [][MSNext]_msVars
=============================================================================
