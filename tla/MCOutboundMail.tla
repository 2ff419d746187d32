--------------------------- MODULE MCOutboundMail ---------------------------
(* Outbound mail for at most two reviews of one matter.                     *)
EXTENDS OutboundMail

CONSTANTS r1, r2, m1

MCMatterOf == [r \in Review |-> m1]
MCKindOf == [r \in Review |-> IF r = r1 THEN "client_email" ELSE "research_memo"]

=============================================================================
