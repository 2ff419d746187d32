---------------------------- MODULE MCSmsChannel ----------------------------
(* Text messages to one client's line, written as Twilio writes it or not.  *)
EXTENDS SmsChannel

CONSTANTS national, international

MCE164 == [p \in Phone |-> international]

=============================================================================
