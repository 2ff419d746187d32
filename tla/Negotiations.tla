---------------------------- MODULE Negotiations ----------------------------
(***************************************************************************)
(* Drafts of a contract under negotiation (intelligence/                   *)
(* negotiation-tracker.ts).  addContractVersion counts the versions and    *)
(* reads the last one, awaits a model that compares the two texts, and     *)
(* then inserts a row under the number it counted; a unique index on       *)
(* (negotiation_id, version_number) refuses the second of two uploads that *)
(* counted the same.                                                       *)
(***************************************************************************)
EXTENDS Handlers

CONSTANTS
  Negotiation,   \* ids of contract_negotiations
  Upload,        \* calls of addContractVersion in flight
  Draft,         \* the documents uploaded
  NoDraft        \* a first version is compared with nothing

ASSUME NegotiationAssumption == NoDraft \notin Draft

VARIABLES
  deal,   \* versions, billed comparisons and summary of each negotiation
  calls   \* what the calls hold that await the model

dealVars == <<deal, calls>>

Version == [number : Nat \ {0}, draft : Draft, against : Draft \cup {NoDraft}]
DealState == [versions : Seq(Version), billed : SUBSET Nat, summary : Seq(Version)]
Call == [by : Upload, to : Negotiation, version : Version]

NegotiationInit ==
  /\ deal = [n \in Negotiation |-> [versions |-> << >>, billed |-> {}, summary |-> << >>]]
  /\ calls = {}

-----------------------------------------------------------------------------

(* The INSERT and what follows it: the run of the model is billed, and the *)
(* summary is rebuilt from all versions (rebuildNegotiationSummary).       *)
Insert(n, v) ==
  LET inserted == [deal[n] EXCEPT !.versions = Append(@, v)]
      billed == IF v.against = NoDraft THEN inserted
                ELSE [inserted EXCEPT !.billed = @ \cup {v.number}]
      steps == << inserted, billed, [billed EXCEPT !.summary = billed.versions] >> IN
  \E x \in {steps[i] : i \in DOMAIN steps} :
    Leaves(n, steps, x) /\ deal' = [deal EXCEPT ![n] = x]

(* The first version: nothing to compare it with, so nothing is awaited.   *)
AddFirstVersion(n, d) ==
  /\ deal[n].versions = << >>
  /\ Request
  /\ Insert(n, [number |-> 1, draft |-> d, against |-> NoDraft])
  /\ UNCHANGED calls

(* addContractVersion up to the await.                                     *)
AddContractVersion(u, n, d) ==
  LET versions == deal[n].versions IN
  /\ \A c \in calls : c.by # u
  /\ versions # << >>
  /\ Request
  /\ calls' = calls \cup
       {[by |-> u, to |-> n,
         version |-> [number |-> Len(versions) + 1, draft |-> d,
                      against |-> versions[Len(versions)].draft]]}
  /\ UNCHANGED <<deal, mishaps, hurt>>

(* The unique index.                                                       *)
NumberIsFree(n, k) == \A i \in DOMAIN deal[n].versions : deal[n].versions[i].number # k

(* Seeded fault: the number is counted again after the await.              *)
ComparedRecounted(c) ==
  /\ Insert(c.to, [c.version EXCEPT !.number = Len(deal[c.to].versions) + 1])
  /\ calls' = calls \ {c}
  /\ UNCHANGED edits

(* The model has answered, and the row is inserted.                        *)
Compared(c) ==
  /\ NumberIsFree(c.to, c.version.number)
  /\ Insert(c.to, c.version)
  /\ calls' = calls \ {c}
  /\ UNCHANGED edits

(* The number is taken, the model fails, or the process dies: the call     *)
(* ends and leaves nothing, not even a bill.                               *)
UploadFails(c) ==
  /\ calls' = calls \ {c}
  /\ UNCHANGED <<deal, handlerVars>>

NegotiationStep ==
  \/ \E n \in Negotiation, d \in Draft :
       \/ AddFirstVersion(n, d)
       \/ \E u \in Upload : AddContractVersion(u, n, d)
  \/ \E c \in calls : Compared(c) \/ UploadFails(c)

-----------------------------------------------------------------------------

(* However uploads overlap while their models are awaited, the history of  *)
(* a contract is a chain: the numbers have no gap, and each draft was      *)
(* compared with the one right before it (negotiation-tracker.ts:137-153). *)
DraftsFormAChain ==
  \A n \in Negotiation :
    LET versions == deal[n].versions IN
    \A i \in DOMAIN versions :
      /\ versions[i].number = i
      /\ versions[i].against = IF i = 1 THEN NoDraft ELSE versions[i - 1].draft

=============================================================================
