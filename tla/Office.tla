------------------------------- MODULE Office -------------------------------
(***************************************************************************)
(* The records the dashboard's handlers keep, in one process that is       *)
(* stopped, started and cut short while lawyers work: documents,           *)
(* knowledge, templates and drafts under negotiation, each with its        *)
(* versions; the precedents; the calendar of yearly duties; the chasing of *)
(* documents.                                                              *)
(* They share the process, its calls and its mishaps, and no table.        *)
(***************************************************************************)
EXTENDS Versions, Negotiations, RegulatoryCalendar,
        DocumentChasing, TrustScores, Backups, Precedents

records == <<doc, textVars, dealVars, calendarVars, chasingVars, trust, backupVars>>
vars == <<handlerVars, records, precedentVars>>

Kinds == << Document, Entry, Slug, Negotiation, User, Series, DocumentRequest, {SearchIndex} >>
Record == UNION {Kinds[i] : i \in DOMAIN Kinds}

(* Each kind has a table of its own: no record is of two kinds.            *)
ASSUME RecordsAssumption == \A i, j \in DOMAIN Kinds : i # j => Kinds[i] \cap Kinds[j] = {}

TypeOK ==
  /\ HandlersTypeOK(Record)
  /\ doc \in [Document -> DocumentState]
  /\ entry \in [Entry -> EntryState]
  /\ template \in [Slug -> TemplateState]
  /\ deal \in [Negotiation -> DealState]
  /\ calls \subseteq Call
  /\ events \in Seq(Event)
  /\ repeated \in [Series -> Nat]
  /\ day \in Nat
  /\ chase \in [DocumentRequest -> ChaseState]
  /\ DOMAIN trust \subseteq Scored /\ trust \in [DOMAIN trust -> TrustState]
  /\ BackupsTypeOK
  /\ PrecedentsTypeOK

Init ==
  /\ HandlersInit
  /\ DocumentInit
  /\ TextInit
  /\ NegotiationInit
  /\ CalendarInit
  /\ ChasingInit
  /\ TrustInit
  /\ BackupsInit
  /\ PrecedentsInit

Documents ==
  DocumentStep /\ UNCHANGED <<textVars, dealVars, calendarVars, chasingVars, trust, backupVars, precedentVars>>
Texts ==
  TextStep /\ UNCHANGED <<doc, dealVars, calendarVars, chasingVars, trust, backupVars, precedentVars>>
Deals ==
  NegotiationStep /\ UNCHANGED <<doc, textVars, calendarVars, chasingVars, trust, backupVars, precedentVars>>
Duties ==
  CalendarStep /\ UNCHANGED <<doc, textVars, dealVars, chasingVars, trust, backupVars, precedentVars>>
Chasing ==
  ChasingStep /\ UNCHANGED <<doc, textVars, dealVars, calendarVars, trust, backupVars, precedentVars>>
Scores ==
  TrustStep /\ UNCHANGED <<doc, textVars, dealVars, calendarVars, chasingVars, backupVars, precedentVars>>
Archives ==
  BackupsStep /\ UNCHANGED <<doc, textVars, dealVars, calendarVars, chasingVars, trust, precedentVars>>
Shelf == PrecedentStep /\ UNCHANGED records

Next == Documents \/ Texts \/ Deals \/ Duties \/ Chasing \/ Scores \/ Archives \/ Shelf

Spec == Init /\ [][Next]_vars

-----------------------------------------------------------------------------

Latest(versions) == versions[Len(versions)]

(* The latest version of a document, an entry or a template is the text    *)
(* in force, and the search finds an entry by that text, unless the last   *)
(* handler that wrote it was cut short: the next one that is not makes     *)
(* good whatever was left undone (version-control.ts:125-126,              *)
(* knowledge-base.ts:131-153, repo.ts:82-92).  Precedents are texts that   *)
(* were approved.                                                          *)
LatestIsInForce ==
  /\ \A d \in Document \ hurt :
       doc[d].versions # << >> => Latest(doc[d].versions) = doc[d].file
  /\ \A e \in Entry \ hurt :
       entry[e].versions # << >> =>
         Latest(entry[e].versions) = entry[e].body /\ entry[e].found = entry[e].body
  /\ \A s \in Slug \ hurt :
       template[s].versions # << >> => Latest(template[s].versions) = template[s].body
  /\ ShelfIsSound

=============================================================================
