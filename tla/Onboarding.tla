----------------------------- MODULE Onboarding -----------------------------
(***************************************************************************)
(* How a client comes to the firm: the conflict check that every new       *)
(* matter of the inbox and of the onboarding page gets                     *)
(* (compliance/conflicts.ts), the onboarding (onboarding/                  *)
(* client-onboarding.ts) up to the signed engagement letter, and the       *)
(* acknowledgement the inbox mails.  The letter's envelopes are those of   *)
(* Signatures.                                                             *)
(*                                                                         *)
(* Each case is one matter and the person it is for, who comes by the      *)
(* onboarding page, by mail, or from a system that makes matters without a *)
(* check.  Handlers run without interruption; lawyers, clients and the     *)
(* poller take turns.                                                      *)
(***************************************************************************)
EXTENDS Signatures, FiniteSets

CONSTANTS
  Case,          \* matters, with the onboarding or mail that makes them
  Name, NoName,  \* names as normalise leaves them; the empty one
  Word,
  Tokens,        \* the words of a name that have three letters or more
  Within,        \* the pairs of names of which the second contains the first
  Client,        \* matters.client_name
  Opponent,      \* matters.opposing_party, NoName when there is none
  Domain,        \* the domain of matters.client_email
  NoDomain,      \* client_email IS NULL
  NoEnvelope     \* engagement_letter_signature_id IS NULL

ASSUME OnboardingAssumption ==
  /\ NoName \in Name
  /\ Tokens \in [Name -> SUBSET Word]
  /\ Tokens[NoName] = {}
  /\ Within \subseteq Name \X Name
  /\ \A n \in Name : <<n, n>> \in Within
  /\ Client \in [Case -> Name]
  /\ Opponent \in [Case -> Name]
  /\ NoEnvelope \notin Envelope

VARIABLES
  matter,        \* matters.status; "none" before the INSERT
  shelved,       \* the matters that were archived at some time
  check,         \* status of the matter's conflict_checks row
  matches,       \* its matches_json: the matters it found
  onboarding,    \* client_onboardings.status
  letter,        \* status of the engagement letter's review
  letterEnv,     \* client_onboardings.engagement_letter_signature_id
  active,        \* the clients with status 'active'
  mail           \* where the poller is with the mail of a case

firmVars == <<matter, shelved, check, matches>>
clientVars == <<onboarding, letter, letterEnv, active>>
onboardingVars == <<firmVars, clientVars, mail, signatureVars, mishaps>>

Stage == {"none", "started", "conflict_check", "engagement_letter",
          "awaiting_signature", "completed"}

OnboardingTypeOK ==
  /\ SignatureTypeOK
  /\ matter \in [Case -> {"none", "open", "archived"}]
  /\ shelved \subseteq Case
  /\ check \in [Case -> {"none", "pending", "cleared", "blocked"}]
  /\ matches \in [Case -> SUBSET Case]
  /\ onboarding \in [Case -> Stage]
  /\ letter \in [Case -> {"none", "pending", "approved", "rejected"}]
  /\ letterEnv \in [Case -> Envelope \cup {NoEnvelope}]
  /\ active \subseteq Case
  /\ mail \in [Case -> {"none", "notifying", "replying", "acknowledged", "unanswered"}]

OnboardingInit ==
  /\ SignatureInit
  /\ matter = [c \in Case |-> "none"]
  /\ shelved = {}
  /\ check = [c \in Case |-> "none"]
  /\ matches = [c \in Case |-> {}]
  /\ onboarding = [c \in Case |-> "none"]
  /\ letter = [c \in Case |-> "none"]
  /\ letterEnv = [c \in Case |-> NoEnvelope]
  /\ active = {}
  /\ mail = [c \in Case |-> "none"]

-----------------------------------------------------------------------------

(* compareParty: half the longer words in common, or the text of one name  *)
(* within that of the other, be it in the middle of a word; a new name of  *)
(* short words alone is like nothing, itself included.                     *)
Resembles(new, old) ==
  /\ Tokens[new] # {}
  /\ old # NoName
  /\ \/ 2 * Cardinality(Tokens[new] \cap Tokens[old])
           >= Cardinality(Tokens[new] \cup Tokens[old])
     \/ <<new, old>> \in Within \/ <<old, new>> \in Within

(* Either party of an existing matter, or its client's mail domain.        *)
Clash(new, old) ==
  \/ Resembles(Client[new], Client[old])
  \/ Resembles(Client[new], Opponent[old])
  \/ Domain[new] # NoDomain /\ Domain[new] = Domain[old]

(* Seeded fault: the matters of prospects are left out.                    *)
FindActive(c) ==
  {d \in Case \ {c} : matter[d] = "open" /\ d \in active /\ Clash(c, d)}

(* runConflictCheck: every other matter that is not archived.  No caller   *)
(* passes the new matter's opposing party.                                 *)
Find(c) == {d \in Case \ {c} : matter[d] = "open" /\ Clash(c, d)}

RunConflictCheck(c) ==
  /\ matches' = [matches EXCEPT ![c] = Find(c)]
  /\ check' = [check EXCEPT ![c] = IF Find(c) = {} THEN "cleared" ELSE "pending"]

(* resolveConflictCheck: any check, any number of times (an override opens *)
(* the matter as clearing it does).                                        *)
ResolveConflictCheck(c) ==
  /\ check[c] # "none"
  /\ \E d \in {"cleared", "blocked"} : check' = [check EXCEPT ![c] = d]
  /\ UNCHANGED <<matter, shelved, matches, clientVars, mail, signatureVars, mishaps>>

(* isMatterBlockedByConflict.                                              *)
Blocked(c) == check[c] \in {"pending", "blocked"}

Unknown(c) == matter[c] = "none" /\ onboarding[c] = "none"

(* createMatter from the import, the API or another system: no check.      *)
OtherMatter(c) ==
  /\ Unknown(c)
  /\ matter' = [matter EXCEPT ![c] = "open"]
  /\ UNCHANGED <<shelved, check, matches, clientVars, mail, signatureVars, mishaps>>

(* PATCH /matters/:id: archived, and back, without a new check.            *)
PatchStatus(c) ==
  /\ matter[c] # "none"
  /\ matter' = [matter EXCEPT ![c] = IF @ = "open" THEN "archived" ELSE "open"]
  /\ shelved' = shelved \cup {c}
  /\ UNCHANGED <<check, matches, clientVars, mail, signatureVars, mishaps>>

-----------------------------------------------------------------------------

(* startClientOnboarding: the row, the matter, its check, the stage, and   *)
(* when the check found nothing the letter and its review.  What a mishap  *)
(* left undone nobody takes up.                                            *)
StartOnboarding(c) ==
  /\ Unknown(c)
  /\ \E done \in Upto(5) \ {0} :
       /\ IF done >= 2 THEN matter' = [matter EXCEPT ![c] = "open"] ELSE UNCHANGED matter
       /\ IF done >= 3 THEN RunConflictCheck(c) ELSE UNCHANGED <<check, matches>>
       /\ onboarding' = [onboarding EXCEPT ![c] =
            IF done < 4 THEN "started"
            ELSE IF Find(c) = {} THEN "engagement_letter" ELSE "conflict_check"]
       /\ letter' = [letter EXCEPT ![c] =
            IF done = 5 /\ Find(c) = {} THEN "pending" ELSE @]
       /\ Count(done, 5)
  /\ UNCHANGED <<shelved, letterEnv, active, mail, signatureVars>>

(* The lawyer decides the letter in the review queue.                      *)
ReviewLetter(c) ==
  /\ letter[c] = "pending"
  /\ \E v \in {"approved", "rejected"} : letter' = [letter EXCEPT ![c] = v]
  /\ UNCHANGED <<firmVars, onboarding, letterEnv, active, mail,
                 signatureVars, mishaps>>

(* approveEngagementLetter asks for a letter, not for its approval nor for *)
(* the stage, and as often as it is called makes an envelope: the row, the *)
(* client as its signer when there is an address, the link.                *)
ApproveEngagementLetter(c, e, s) ==
  /\ letter[c] # "none"
  /\ envelope[e] = "none"
  /\ \E done \in Upto(3) \ {0} :
       /\ SetEnvelope(e, "draft")
       /\ IF done >= 2 /\ Domain[c] # NoDomain
            THEN SetSigner(e, s, "pending") ELSE UNCHANGED signer
       /\ letterEnv' = [letterEnv EXCEPT ![c] = IF done = 3 THEN e ELSE @]
       /\ onboarding' = [onboarding EXCEPT ![c] =
            IF done = 3 THEN "awaiting_signature" ELSE @]
       /\ Count(done, 3)
  /\ UNCHANGED <<firmVars, letter, active, mail>>

(* markIdentityVerified: the client, the stage, the client again.          *)
MarkIdentityVerified(c) ==
  /\ onboarding[c] # "none"
  /\ \E done \in Upto(3) \ {0} :
       /\ onboarding' = [onboarding EXCEPT ![c] = IF done >= 2 THEN "completed" ELSE @]
       /\ active' = IF done = 3 THEN active \cup {c} ELSE active
       /\ Count(done, 3)
  /\ UNCHANGED <<firmVars, letter, letterEnv, mail, signatureVars>>

-----------------------------------------------------------------------------

(* runLegacyMatterIntake from createMatter to the await of the lawyer's    *)
(* notification: the matter and its check; a check that throws is logged   *)
(* and passed over.                                                        *)
TakeMail(c) ==
  /\ Unknown(c)
  /\ \E done \in Upto(2) \ {0} :
       /\ matter' = [matter EXCEPT ![c] = "open"]
       /\ IF done = 2 THEN RunConflictCheck(c) ELSE UNCHANGED <<check, matches>>
       /\ Count(done, 2)
  /\ mail' = [mail EXCEPT ![c] = "notifying"]
  /\ UNCHANGED <<shelved, clientVars, signatureVars>>

(* After the notification isMatterBlockedByConflict words the summary and  *)
(* nothing else: routeEmail asks suppressAutoReply, which this pipeline    *)
(* leaves unset.                                                           *)
LawyerNotified(c) ==
  /\ mail[c] = "notifying"
  /\ mail' = [mail EXCEPT ![c] = "replying"]
  /\ UNCHANGED <<firmVars, clientVars, signatureVars, mishaps>>

SendAutoReply(c) ==
  /\ mail[c] = "replying"
  /\ \E sent \in {"acknowledged", "unanswered"} : mail' = [mail EXCEPT ![c] = sent]
  /\ UNCHANGED <<firmVars, clientVars, signatureVars, mishaps>>

CaseStep(c) ==
  \/ ResolveConflictCheck(c)
  \/ OtherMatter(c)
  \/ PatchStatus(c)
  \/ StartOnboarding(c)
  \/ ReviewLetter(c)
  \/ \E e \in Envelope, s \in Signer : ApproveEngagementLetter(c, e, s)
  \/ MarkIdentityVerified(c)
  \/ TakeMail(c)
  \/ LawyerNotified(c)
  \/ SendAutoReply(c)

OnboardingNext ==
  \/ \E c \in Case : CaseStep(c)
  \/ SignatureStep /\ UNCHANGED <<firmVars, clientVars, mail>>

OnboardingSpec == OnboardingInit /\ [][OnboardingNext]_onboardingVars

-----------------------------------------------------------------------------

(* Engaged: an engagement letter was drafted for the case.                 *)
Engaged(c) == letter[c] # "none"

(* The check of conflicts.ts:4-6 as a whole: of two matters whose clients  *)
(* resemble each other (each looked at from the other) the firm never      *)
(* drafts engagement letters for both, in whatever order they arrive,      *)
(* checks are resolved and handlers cut off, unless one of them was out of *)
(* sight in the archive at some time.                                      *)
OneSideIsEngaged ==
  \A c, d \in Case :
    c # d /\ Engaged(c) /\ Engaged(d) =>
      \/ ~Resembles(Client[c], Client[d]) \/ ~Resembles(Client[d], Client[c])
      \/ c \in shelved \/ d \in shelved

=============================================================================
