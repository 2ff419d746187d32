------------------------------ MODULE Versions ------------------------------
(***************************************************************************)
(* What the firm keeps older versions of.                                  *)
(*                                                                         *)
(* Stored documents (uploads/store.ts, documents/version-control.ts): a    *)
(* document is a file, a meta.json by which it is found, and rows of       *)
(* document_versions that each point to a copy of the bytes the file once  *)
(* had.                                                                    *)
(*                                                                         *)
(* The firm's texts: entries of the knowledge base                         *)
(* (knowledge/knowledge-base.ts), found through the search index           *)
(* (search/smart-search.ts), and document templates (templates/repo.ts),   *)
(* some of them shipped with the program and loaded at each start          *)
(* (templates/index.ts).  The two write in opposite orders: an entry       *)
(* changes before its version is recorded, a template after.               *)
(***************************************************************************)
EXTENDS Handlers

CONSTANTS
  Document,   \* ids
  Bytes,      \* contents
  Torn,       \* the contents of a file whose writing was cut short
  NoFile      \* the file is not there

ASSUME DocumentAssumption == Torn \notin Bytes /\ NoFile \notin Bytes \cup {Torn}

VARIABLE doc    \* the file, the meta file and the versions of each document

DocumentState == [file : Bytes \cup {Torn, NoFile},
                  meta : {"none", "torn", "whole"},
                  versions : Seq(Bytes \cup {Torn})]

DocumentInit ==
  doc = [d \in Document |-> [file |-> NoFile, meta |-> "none", versions |-> << >>]]

Become(d, steps) ==
  \E x \in {steps[i] : i \in DOMAIN steps} :
    Leaves(d, steps, x) /\ doc' = [doc EXCEPT ![d] = x]

(* storeDocument: the bytes, then the meta file.                           *)
StoreDocument(d, b) ==
  LET written == [doc[d] EXCEPT !.file = b] IN
  /\ doc[d].file = NoFile
  /\ Request
  /\ Become(d, << [doc[d] EXCEPT !.file = Torn], written,
                  [written EXCEPT !.meta = "torn"], [written EXCEPT !.meta = "whole"] >>)

(* snapshotCurrent: a copy of the file, then its row, numbered by the      *)
(* highest number so far; a copy without a row is never seen again.        *)
Snapshot(s) == [s EXCEPT !.versions = Append(@, s.file)]

(* Seeded fault: the bytes are preserved after they were overwritten.      *)
ReplaceThenSnapshot(d, b) ==
  LET written == [doc[d] EXCEPT !.file = b] IN
  /\ doc[d].meta = "whole"
  /\ Request
  /\ Become(d, << written, Snapshot(written) >>)

(* replaceDocumentBytes: the old bytes are preserved, the file and its     *)
(* meta file are overwritten, and the new bytes are a version too.         *)
ReplaceDocumentBytes(d, b) ==
  LET saved == Snapshot(doc[d])
      written == [saved EXCEPT !.file = b] IN
  /\ doc[d].meta = "whole"
  /\ Request
  /\ Become(d, << saved, [saved EXCEPT !.file = Torn], written,
                  [written EXCEPT !.meta = "torn"], written, Snapshot(written) >>)

(* rollbackToVersion: the current bytes are preserved first, and the       *)
(* rolled-back state is a version too.                                     *)
RollbackToVersion(d, n) ==
  LET saved == Snapshot(doc[d])
      written == [saved EXCEPT !.file = saved.versions[n]] IN
  /\ doc[d].meta = "whole"
  /\ Request
  /\ Become(d, << saved, [saved EXCEPT !.file = Torn], written, Snapshot(written) >>)

DocumentStep ==
  \E d \in Document :
    \/ \E b \in Bytes : StoreDocument(d, b) \/ ReplaceDocumentBytes(d, b)
    \/ \E n \in DOMAIN doc[d].versions : RollbackToVersion(d, n)

-----------------------------------------------------------------------------

(* "we never lose history", "even rollback is reversible"                  *)
(* (version-control.ts:106-107, 149-151): wherever a replacement or a      *)
(* rollback is cut short, the bytes the file had before, torn ones         *)
(* included, are a version that can be rolled back to, and no version      *)
(* that was there is gone.                                                 *)
OverwrittenIsPreserved ==
  [][\A d \in Document :
       doc[d].meta # "none" /\ doc'[d].file # doc[d].file =>
         \E n \in DOMAIN doc'[d].versions :
           /\ doc'[d].versions[n] = doc[d].file
           /\ SubSeq(doc'[d].versions, 1, Len(doc[d].versions)) = doc[d].versions
    ]_doc

-----------------------------------------------------------------------------

CONSTANTS
  Entry,         \* ids of knowledge_entries
  Slug,          \* document_templates.slug
  BuiltIn,       \* the slugs of BUILTIN_TEMPLATES
  Text,          \* bodies; of a template: body, title and category
  NoText,        \* there is no such row
  ShippedText    \* the text BUILTIN_TEMPLATES has for each of them

ASSUME TextAssumption ==
  /\ BuiltIn \subseteq Slug
  /\ ShippedText \in [BuiltIn -> Text]
  /\ NoText \notin Text

VARIABLES
  entry,      \* body, versions and the indexed text of each entry
  template    \* body and versions of each template

textVars == <<entry, template>>

EntryState == [body : Text \cup {NoText}, versions : Seq(Text), found : Text \cup {NoText}]
TemplateState == [body : Text \cup {NoText}, versions : Seq(Text)]

TextInit ==
  /\ entry = [e \in Entry |-> [body |-> NoText, versions |-> << >>, found |-> NoText]]
  /\ template = [s \in Slug |-> [body |-> NoText, versions |-> << >>]]

EntryBecomes(e, steps) ==
  /\ \E x \in {steps[i] : i \in DOMAIN steps} :
       Leaves(e, steps, x) /\ entry' = [entry EXCEPT ![e] = x]
  /\ UNCHANGED template

TemplateBecomes(s, steps) ==
  /\ \E x \in {steps[i] : i \in DOMAIN steps} :
       Leaves(s, steps, x) /\ template' = [template EXCEPT ![s] = x]
  /\ UNCHANGED entry

(* Seeded fault: only the first save of an entry reaches the index.        *)
IndexOnce(x, b) == << IF x.found = NoText THEN [x EXCEPT !.found = b] ELSE x >>

(* indexSnippet: the old snippet is deleted, the new one inserted.         *)
Index(x, b) == << [x EXCEPT !.found = NoText], [x EXCEPT !.found = b] >>

(* createKnowledgeEntry and updateKnowledgeEntry make the same writes: the *)
(* entry's body, a version numbered one above the highest, the index.      *)
SaveKnowledgeEntry(e, b) ==
  LET written == [entry[e] EXCEPT !.body = b]
      recorded == [written EXCEPT !.versions = Append(@, b)] IN
  /\ Request
  /\ EntryBecomes(e, << written, recorded >> \o Index(recorded, b))

(* upsertTemplate: a new one is inserted before its first version; one     *)
(* that differs gets its version first; one that does not is left alone.   *)
UpsertTemplate(s, b) ==
  LET old == template[s]
      written(x) == [x EXCEPT !.body = b]
      recorded(x) == [x EXCEPT !.versions = Append(@, b)] IN
  \/ /\ old.body = NoText
     /\ TemplateBecomes(s, << written(old), recorded(written(old)) >>)
  \/ /\ old.body \notin {NoText, b}
     /\ TemplateBecomes(s, << recorded(old), written(recorded(old)) >>)
  \/ /\ old.body = b
     /\ UNCHANGED <<textVars, mishaps, hurt>>

(* A lawyer adds a template or edits one, built-in ones too.               *)
EditTemplate(s, b) == Request /\ UpsertTemplate(s, b)

(* ensureBuiltInTemplatesLoaded, at each start of the program, for one of  *)
(* its templates; the loop may be cut short after any of them.             *)
LoadBuiltIn(s) == UpsertTemplate(s, ShippedText[s]) /\ UNCHANGED edits

TextStep ==
  \/ \E e \in Entry, b \in Text : SaveKnowledgeEntry(e, b)
  \/ \E s \in Slug, b \in Text : EditTemplate(s, b)
  \/ \E s \in BuiltIn : LoadBuiltIn(s)

=============================================================================
