----------------------------- MODULE Signatures -----------------------------
(***************************************************************************)
(* The built-in electronic signatures (documents/esignature.ts): envelopes *)
(* with their signers, whom lawyers add and send from the dashboard and    *)
(* who sign or decline from a link in a mail, each whenever they like.     *)
(*                                                                         *)
(* Every statement commits on its own.  A handler that is cut off, by a    *)
(* crash or by a statement that throws, leaves a prefix of its writes:     *)
(* Upto(n) chooses how many of n of them are done.                         *)
(***************************************************************************)
EXTENDS Naturals

CONSTANTS
  Envelope,     \* ids of signature_envelopes rows
  Signer,       \* the people who may be asked to sign an envelope
  MaxMishaps    \* bound: handlers that are cut off

ASSUME SignatureAssumption == MaxMishaps \in Nat

VARIABLES
  envelope,     \* signature_envelopes.status; "none" before the INSERT
  signer,       \* signature_signers.status in each envelope; "none" likewise
  mishaps       \* how many handlers were cut off (bounded by MaxMishaps)

signatureVars == <<envelope, signer>>

EnvelopeStatus == {"none", "draft", "sent", "completed", "declined"}
SignerStatus == {"none", "pending", "signed", "declined"}

SignatureTypeOK ==
  /\ envelope \in [Envelope -> EnvelopeStatus]
  /\ signer \in [Envelope -> [Signer -> SignerStatus]]
  /\ mishaps \in 0..MaxMishaps

SignatureInit ==
  /\ envelope = [e \in Envelope |-> "none"]
  /\ signer = [e \in Envelope |-> [s \in Signer |-> "none"]]
  /\ mishaps = 0

-----------------------------------------------------------------------------

(* How many of a handler's n writes are done: all, or fewer by a mishap.   *)
Upto(n) == {n} \cup IF mishaps < MaxMishaps THEN 0..(n - 1) ELSE {}

Count(done, n) == mishaps' = IF done = n THEN mishaps ELSE mishaps + 1

SetEnvelope(e, st) == envelope' = [envelope EXCEPT ![e] = st]

SetSigner(e, s, st) == signer' = [signer EXCEPT ![e][s] = st]

(* addSigner: whatever the status of the envelope.                         *)
AddSigner(e, s) ==
  /\ envelope[e] # "none"
  /\ signer[e][s] = "none"
  /\ SetSigner(e, s, "pending")
  /\ UNCHANGED <<envelope, mishaps>>

(* sendEnvelope: one write, then the audit.                                *)
SendEnvelope(e) ==
  /\ envelope[e] = "draft"
  /\ SetEnvelope(e, "sent")
  /\ UNCHANGED <<signer, mishaps>>

(* Seeded fault: the last signature is taken for all of them.              *)
SignedByAny(sig) == \E s \in Signer : sig[s] = "signed"

(* The test of recordSignature: every signer there is has signed.          *)
SignedByAll(sig) == \A s \in Signer : sig[s] \in {"none", "signed"}

(* recordSignature looks at the signer, not at the envelope: drafts and    *)
(* declined envelopes can be signed.                                       *)
RecordSignature(e, s) ==
  /\ signer[e][s] = "pending"
  /\ SetSigner(e, s, "signed")
  /\ \E done \in Upto(2) \ {0} :
       /\ IF done = 2 /\ SignedByAll(signer'[e])
            THEN SetEnvelope(e, "completed")
            ELSE UNCHANGED envelope
       /\ Count(done, 2)

(* declineSignature looks at neither: who has signed may still decline.    *)
DeclineSignature(e, s) ==
  /\ signer[e][s] # "none"
  /\ SetSigner(e, s, "declined")
  /\ \E done \in Upto(2) \ {0} :
       /\ IF done = 2 THEN SetEnvelope(e, "declined") ELSE UNCHANGED envelope
       /\ Count(done, 2)

SignatureStep ==
  \E e \in Envelope :
    \/ SendEnvelope(e)
    \/ \E s \in Signer :
         AddSigner(e, s) \/ RecordSignature(e, s) \/ DeclineSignature(e, s)

-----------------------------------------------------------------------------

(* In whatever order people are added, sign and decline, before or after   *)
(* the envelope is sent, its status tells what they did: an envelope that  *)
(* all have signed is completed, one that somebody declined is declined,   *)
(* and neither is said without a cause.  Only a handler that was cut off   *)
(* may leave the two tables apart (esignature.ts:158-175, 185-192).        *)
EnvelopeTellsItsSigners ==
  mishaps = 0 => \A e \in Envelope :
    LET is(st) == \E s \in Signer : signer[e][s] = st IN
    /\ envelope[e] = "declined" <=> is("declined")
    /\ SignedByAll(signer[e]) /\ is("signed") => envelope[e] = "completed"
    /\ envelope[e] = "completed" => is("signed")

=============================================================================
