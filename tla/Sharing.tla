------------------------------ MODULE Sharing ------------------------------
(***************************************************************************)
(* What the firm shows to people outside of it (client-portal,             *)
(* dashboard/server.ts): clients sign in to a portal and see the documents *)
(* a lawyer made visible in their matters, and upload their own; a link    *)
(* shows one document to whoever has it, for some days; a barrister reads  *)
(* a brief by a link of its own (collaboration/external-counsel.ts).       *)
(* Whether a client may is asked when a request arrives; the upload itself *)
(* comes later.                                                            *)
(***************************************************************************)
EXTENDS Naturals

CONSTANTS
  Matter,
  Paper,         \* documents
  Client,
  Brief,         \* briefs to external counsel
  PortalLife,    \* 4 hours
  LinkLife,      \* 7 days
  BriefLife,     \* 90 days
  LastMoment     \* bound: the clock

NoMatter == "no matter"

ASSUME SharingAssumption ==
  /\ {PortalLife, LinkLife, BriefLife, LastMoment} \subseteq Nat
  /\ NoMatter \notin Matter

VARIABLES
  moment,      \* the time
  home,        \* the matter in whose folder each document lies
  clients,     \* client_users
  granted,     \* client_user_matters
  visible,     \* client_visible_documents: the matter each is visible in
  links,       \* share_links
  portal,      \* client_sessions
  uploading,   \* the matter each client's request to upload was let in for
  shared,      \* (history) made visible in their own matters, not hidden since
  shown,       \* (history) what each client was shown since it was last hidden
  linked,      \* (history) linked to from their own matters
  opened,      \* (history) what was shown through links
  brought,     \* (history) what each client has uploaded
  briefs,      \* external_counsel_briefs
  accessLog,   \* external_counsel_access_log
  read         \* (history) when counsel was shown which brief

shareVars == <<moment, home, clients, granted, visible, links, portal, uploading,
               shared, shown, linked, opened, brought>>
counselVars == <<briefs, accessLog, read>>
sharingVars == <<shareVars, counselVars>>

PortalSession == [of : Client, until : Nat]
Link == [paper : Paper, matter : Matter, until : Nat]

BriefState == [status : {"none", "out", "revoked"}, until : Nat, revokedAt : Nat]

SharingTypeOK ==
  /\ moment \in Nat
  /\ home \in [Paper -> Matter \cup {NoMatter}]
  /\ clients \subseteq Client
  /\ granted \subseteq Client \X Matter
  /\ visible \in [Paper -> Matter \cup {NoMatter}]
  /\ links \subseteq Link
  /\ portal \subseteq PortalSession
  /\ uploading \in [Client -> Matter \cup {NoMatter}]
  /\ {shared, linked, opened} \subseteq SUBSET Paper
  /\ {shown, brought} \subseteq SUBSET (Client \X Paper)
  /\ briefs \in [Brief -> BriefState]
  /\ {accessLog, read} \subseteq SUBSET (Brief \X Nat)

SharingInit ==
  /\ moment = 0
  /\ home = [d \in Paper |-> NoMatter]
  /\ clients = {} /\ granted = {}
  /\ visible = [d \in Paper |-> NoMatter]
  /\ links = {}
  /\ portal = {}
  /\ uploading = [c \in Client |-> NoMatter]
  /\ shared = {} /\ shown = {} /\ linked = {} /\ opened = {} /\ brought = {}
  /\ briefs = [b \in Brief |-> [status |-> "none", until |-> 0, revokedAt |-> 0]]
  /\ accessLog = {} /\ read = {}

-----------------------------------------------------------------------------

NextMoment ==
  /\ moment < LastMoment /\ moment' = moment + 1
  /\ UNCHANGED <<home, clients, granted, visible, links, portal, uploading,
                 shared, shown, linked, opened, brought>>

(* A lawyer stores a document in a matter.                                 *)
StorePaper(d, m) ==
  /\ home[d] = NoMatter
  /\ home' = [home EXCEPT ![d] = m]
  /\ UNCHANGED <<moment, clients, granted, visible, links, portal, uploading,
                 shared, shown, linked, opened, brought>>

(* POST /clients/create, /clients/:id/grant-matter                         *)
CreateClient(c) ==
  /\ c \notin clients
  /\ clients' = clients \cup {c}
  /\ UNCHANGED <<moment, home, granted, visible, links, portal, uploading,
                 shared, shown, linked, opened, brought>>

GrantClientMatter(c, m) ==
  /\ c \in clients
  /\ granted' = granted \cup {<<c, m>>}
  /\ UNCHANGED <<moment, home, clients, visible, links, portal, uploading,
                 shared, shown, linked, opened, brought>>

(* POST /matter/:m/document/:d/share: the path names any matter and any    *)
(* document; a document has one row, and the last word replaces it.        *)
GrantDocumentVisibility(d, m) ==
  /\ home[d] # NoMatter
  /\ visible' = [visible EXCEPT ![d] = m]
  /\ shared' = IF m = home[d] THEN shared \cup {d} ELSE shared
  /\ UNCHANGED <<moment, home, clients, granted, links, portal, uploading,
                 shown, linked, opened, brought>>

RevokeDocumentVisibility(d) ==
  /\ visible[d] # NoMatter
  /\ visible' = [visible EXCEPT ![d] = NoMatter]
  /\ shared' = shared \ {d}
  /\ shown' = {s \in shown : s[2] # d}
  /\ UNCHANGED <<moment, home, clients, granted, links, portal, uploading,
                 linked, opened, brought>>

(* POST .../sharelink, /share-link/:token/revoke                           *)
CreateShareLink(d, m) ==
  /\ home[d] # NoMatter
  /\ links' = links \cup {[paper |-> d, matter |-> m, until |-> moment + LinkLife]}
  /\ linked' = IF m = home[d] THEN linked \cup {d} ELSE linked
  /\ UNCHANGED <<moment, home, clients, granted, visible, portal, uploading,
                 shared, shown, opened, brought>>

RevokeShareLink(l) ==
  /\ l \in links
  /\ links' = links \ {l}
  /\ UNCHANGED <<moment, home, clients, granted, visible, portal, uploading,
                 shared, shown, linked, opened, brought>>

-----------------------------------------------------------------------------

(* POST and GET /client-portal/login, /client-portal/logout                *)
SignIn(c) ==
  /\ c \in clients
  /\ portal' = portal \cup {[of |-> c, until |-> moment + PortalLife]}
  /\ UNCHANGED <<moment, home, clients, granted, visible, links, uploading,
                 shared, shown, linked, opened, brought>>

SignOut(c) ==
  /\ \E s \in portal : s.of = c /\ portal' = portal \ {s}
  /\ UNCHANGED <<moment, home, clients, granted, visible, links, uploading,
                 shared, shown, linked, opened, brought>>

(* loadClientSession                                                       *)
LoadClientSession(c) == \E s \in portal : s.of = c /\ s.until >= moment

(* isClientAllowedMatter                                                   *)
IsAllowed(c, m) == LoadClientSession(c) /\ <<c, m>> \in granted

(* Seeded fault: the rows alone say what is in the matter.                 *)
VisibleByRow(m) == {d \in Paper : visible[d] = m}

(* listMatterDocuments, less what is not visible.                          *)
VisibleIn(m) == {d \in Paper : home[d] = m /\ visible[d] = m}

(* GET /client-portal/matter/:id                                           *)
OpenMatterPage(c, m) ==
  /\ IsAllowed(c, m)
  /\ shown' = shown \cup ({c} \X VisibleIn(m))
  /\ UNCHANGED <<moment, home, clients, granted, visible, links, portal, uploading,
                 shared, linked, opened, brought>>

(* POST /client-portal/matter/:id/upload: let in, and when the file is     *)
(* there.                                                                  *)
BeginUpload(c, m) ==
  /\ IsAllowed(c, m) /\ uploading[c] = NoMatter
  /\ uploading' = [uploading EXCEPT ![c] = m]
  /\ UNCHANGED <<moment, home, clients, granted, visible, links, portal,
                 shared, shown, linked, opened, brought>>

EndUpload(c, d) ==
  /\ uploading[c] # NoMatter /\ home[d] = NoMatter
  /\ uploading' = [uploading EXCEPT ![c] = NoMatter]
  /\ home' = [home EXCEPT ![d] = uploading[c]]
  /\ brought' = brought \cup {<<c, d>>}
  /\ UNCHANGED <<moment, clients, granted, visible, links, portal,
                 shared, shown, linked, opened>>

(* isShareLinkLive, getDocument, GET /share/:token                         *)
OpenLink(l) ==
  /\ l \in links /\ l.until > moment
  /\ home[l.paper] = l.matter
  /\ opened' = opened \cup {l.paper}
  /\ UNCHANGED <<moment, home, clients, granted, visible, links, portal, uploading,
                 shared, shown, linked, brought>>

ShareStep ==
  /\ UNCHANGED counselVars
  /\ \/ NextMoment
     \/ \E l \in links : RevokeShareLink(l) \/ OpenLink(l)
     \/ \E d \in Paper : \/ RevokeDocumentVisibility(d)
                         \/ \E m \in Matter : \/ StorePaper(d, m) \/ CreateShareLink(d, m)
                                              \/ GrantDocumentVisibility(d, m)
     \/ \E c \in Client :
          \/ CreateClient(c) \/ SignIn(c) \/ SignOut(c)
          \/ \E m \in Matter : GrantClientMatter(c, m) \/ OpenMatterPage(c, m) \/ BeginUpload(c, m)
          \/ \E d \in Paper : EndUpload(c, d)

-----------------------------------------------------------------------------

(* createExternalBrief; the documents it names are looked at by nobody.    *)
CreateExternalBrief(b) ==
  /\ briefs[b].status = "none"
  /\ briefs' = [briefs EXCEPT ![b].status = "out", ![b].until = moment + BriefLife]
  /\ UNCHANGED <<accessLog, read>>

(* revokeBrief, of a revoked one too.                                      *)
RevokeBrief(b) ==
  /\ briefs[b].status # "none"
  /\ briefs' = [briefs EXCEPT ![b].status = "revoked", ![b].revokedAt = moment]
  /\ UNCHANGED <<accessLog, read>>

(* getBriefByToken                                                         *)
IsBriefFound(b) == briefs[b].status = "out" /\ briefs[b].until >= moment

(* GET /external-portal/:token: the access is logged, or that throws, and  *)
(* the page is sent.                                                       *)
ReadBrief(b) ==
  /\ IsBriefFound(b)
  /\ accessLog' = accessLog \cup {<<b, moment>>}
  /\ read' = read \cup {<<b, moment>>}
  /\ UNCHANGED briefs

CounselStep ==
  \/ NextMoment /\ UNCHANGED counselVars
  \/ /\ \E b \in Brief : CreateExternalBrief(b) \/ RevokeBrief(b) \/ ReadBrief(b)
     /\ UNCHANGED shareVars

-----------------------------------------------------------------------------

(* A client is shown the documents of its own matters only, those that a   *)
(* lawyer made visible there and did not hide again; a link shows one that *)
(* was linked to from its own matter; what a client brings lies in a       *)
(* matter it was granted - whatever matters the lawyers' requests name; a  *)
(* brief is read before it expires or is revoked, and not without a trace  *)
(* (client-portal/server.ts:127-175, dashboard/server.ts:235-262, 671-696, *)
(* external-counsel.ts:124-133).                                           *)
ShownWasShared ==
  /\ \A s \in shown : s[2] \in shared /\ <<s[1], home[s[2]]>> \in granted
  /\ opened \subseteq linked
  /\ \A b \in brought : <<b[1], home[b[2]]>> \in granted
  /\ read \subseteq accessLog
  /\ \A r \in read : LET brief == briefs[r[1]] IN
       r[2] <= brief.until /\ (brief.status = "revoked" => r[2] <= brief.revokedAt)

=============================================================================
