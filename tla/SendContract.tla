---------------------------- MODULE SendContract ----------------------------
(***************************************************************************)
(* What a send promises its caller, the fetch or the digest process: it    *)
(* reports success only for a message Telegram confirmed, after which      *)
(* nothing more is posted; before that, and before a failure, it may have  *)
(* posted messages whose confirmation was lost.                            *)
(***************************************************************************)
EXTENDS Naturals

VARIABLES sending, verdict, posted, lost

contractVars == <<sending, verdict, posted, lost>>

ContractInit == ~sending /\ verdict = "none" /\ posted = 0 /\ lost = 0

Begin ==
  /\ ~sending
  /\ sending' = TRUE /\ verdict' = "none" /\ posted' = 0 /\ lost' = 0

PostUnconfirmed ==
  /\ sending
  /\ posted' = posted + 1 /\ lost' = lost + 1
  /\ \/ UNCHANGED <<sending, verdict>>
     \/ sending' = FALSE /\ verdict' = "failed"

Confirm ==
  /\ sending
  /\ sending' = FALSE /\ verdict' = "confirmed"
  /\ posted' = posted + 1 /\ lost' = lost

GiveUp ==
  /\ sending
  /\ sending' = FALSE /\ verdict' = "failed"
  /\ UNCHANGED <<posted, lost>>

ContractNext == Begin \/ PostUnconfirmed \/ Confirm \/ GiveUp

ContractSpec == ContractInit /\ [][ContractNext]_contractVars
=============================================================================
