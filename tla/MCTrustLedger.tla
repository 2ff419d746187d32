--------------------------- MODULE MCTrustLedger ---------------------------
(* A deposit on the first day and a withdrawal on the next.  A behaviour    *)
(* either follows the account, or one report that is drawn and signed while *)
(* somebody changes the log.                                                *)
EXTENDS TrustLedger

MCAmount == <<5, -2>>
MCBankDay == <<1, 2>>

VARIABLE part
mcVars == <<ledgerVars, part>>

MCInit == LedgerInit /\ part \in {"account", "chain"}

MCNext ==
  /\ LedgerNext
  /\ UNCHANGED part
  /\ part = "account" => tampers' = 0
  /\ part = "chain" => imports' = 0 /\ \A r \in reports' : r.from = 1 /\ r.to = 1

MCSpec == MCInit /\ [][MCNext]_mcVars

=============================================================================
