----------------------------- MODULE AuditChain -----------------------------
(***************************************************************************)
(* The hash chain of the legal audit log (compliance/audit.ts).  A row     *)
(* carries the row_hash of the row that was last when it was written, and  *)
(* its own row_hash covers that and its content.                           *)
(*                                                                         *)
(* appendLegalAudit reads the last hash and then inserts: two statements,  *)
(* between which another process (the service, the overseer's tick, the    *)
(* mail daemon, a script, all on one database file) may do the same.       *)
(*                                                                         *)
(* sha256 is taken to have no collisions: a row_hash stands for what it    *)
(* was computed from, which hashed keeps.  It takes no key: whoever writes *)
(* to the file can compute hashes as well as the program does.             *)
(***************************************************************************)
EXTENDS Naturals, Sequences

CONSTANTS
  Writer,      \* the processes that append
  MaxRows,     \* bound: hashes ever computed
  MaxTampers   \* bound: changes made to the table by other means

ASSUME ChainAssumption == MaxRows \in Nat /\ MaxTampers \in Nat

NoHash == 0    \* prev_hash IS NULL

VARIABLES
  log,         \* legal_audit_log in the order of rowid
  hashed,      \* what each row_hash was computed from
  seen,        \* what each process has read of the log before its INSERT
  overlapped,  \* did two processes ever append at the same time?
  tampers      \* how often the table was changed by other means

chainVars == <<log, hashed, seen, overlapped, tampers>>

Idle == [hash |-> NoHash, before |-> << >>, reading |-> FALSE]

(* A row as it stands: altered, if its row_hash is no longer that of its   *)
(* content.                                                                *)
Row == [hash : 1..MaxRows, prev : 0..MaxRows, altered : BOOLEAN]

(* The prev_hash under a row_hash, and, for the properties only, whether   *)
(* the program computed it and what its writer had read of the log.        *)
Hashed == [prev : 0..MaxRows, before : Seq(Row), genuine : BOOLEAN]

ChainTypeOK ==
  /\ log \in Seq(Row)
  /\ hashed \in Seq(Hashed) /\ Len(hashed) <= MaxRows
  /\ seen \in [Writer -> [hash : 0..MaxRows, before : Seq(Row), reading : BOOLEAN]]
  /\ overlapped \in BOOLEAN
  /\ tampers \in 0..MaxTampers

ChainInit ==
  /\ log = << >>
  /\ hashed = << >>
  /\ seen = [w \in Writer |-> Idle]
  /\ overlapped = FALSE
  /\ tampers = 0

-----------------------------------------------------------------------------

(* Seeded fault: the first row of the log instead of the last.             *)
GetFirstHash(l) == IF l = << >> THEN NoHash ELSE l[1].hash

(* getLastHash: the row with the highest rowid.                            *)
GetLastHash(l) == IF l = << >> THEN NoHash ELSE l[Len(l)].hash

(* hashRow of a content that no row had before: it has an id of its own.   *)
HashRow(prev, before, genuine) ==
  /\ Len(hashed) < MaxRows
  /\ hashed' = Append(hashed, [prev |-> prev, before |-> before, genuine |-> genuine])

(* ... and the row that carries this hash.                                 *)
NewRow(prev) == [hash |-> Len(hashed) + 1, prev |-> prev, altered |-> FALSE]

(* appendLegalAudit up to its INSERT.                                      *)
ReadLastHash(w) ==
  /\ ~seen[w].reading
  /\ seen' = [seen EXCEPT ![w] =
       [hash |-> GetLastHash(log), before |-> log, reading |-> TRUE]]
  /\ overlapped' = (overlapped \/ \E v \in Writer : seen[v].reading)
  /\ UNCHANGED <<log, hashed, tampers>>

(* Its INSERT.                                                             *)
InsertRow(w) ==
  /\ seen[w].reading
  /\ HashRow(seen[w].hash, seen[w].before, TRUE)
  /\ log' = Append(log, NewRow(seen[w].hash))
  /\ seen' = [seen EXCEPT ![w] = Idle]
  /\ UNCHANGED <<overlapped, tampers>>

(* The process dies, or the INSERT throws, in between.                     *)
GiveUp(w) ==
  /\ seen[w].reading
  /\ seen' = [seen EXCEPT ![w] = Idle]
  /\ UNCHANGED <<log, hashed, overlapped, tampers>>

(* The log with the rows from i up to j replaced by others.                *)
Splice(i, others, j) == SubSeq(log, 1, i - 1) \o others \o SubSeq(log, j, Len(log))

(* Somebody with a hand on the file changes the row at i, removes it, puts *)
(* a row back there that once stood in the log, or writes a row of their   *)
(* own, hash and all, over it or in between, after any row they like.      *)
Tamper(i) ==
  /\ tampers < MaxTampers
  /\ tampers' = tampers + 1
  /\ \/ i \in DOMAIN log /\ log' = [log EXCEPT ![i].altered = TRUE] /\ UNCHANGED hashed
     \/ i \in DOMAIN log /\ log' = Splice(i, << >>, i + 1) /\ UNCHANGED hashed
     \/ \E h \in DOMAIN hashed :
          /\ \A k \in DOMAIN log : log[k].hash # h
          /\ log' = Splice(i, <<[hash |-> h, prev |-> hashed[h].prev, altered |-> FALSE]>>, i)
          /\ UNCHANGED hashed
     \/ \E prev \in 0 .. Len(hashed), j \in {i, i + 1} :
          /\ HashRow(prev, << >>, FALSE)
          /\ log' = Splice(i, <<NewRow(prev)>>, j)
  /\ UNCHANGED <<seen, overlapped>>

-----------------------------------------------------------------------------

(* Seeded fault: only the rows' own hashes are recomputed.                 *)
RowsAreSound(l) == \A i \in DOMAIN l : ~l[i].altered

(* verifyAuditChain: every row names the hash of the row before it, and    *)
(* its own hash is that of its content.                                    *)
VerifyAuditChain(l) ==
  \A i \in DOMAIN l :
    /\ l[i].prev = IF i = 1 THEN NoHash ELSE l[i - 1].hash
    /\ ~l[i].altered

(* The health check and the briefing cry wolf only when processes really   *)
(* appended at the same time or the table was changed: many processes,     *)
(* failures and restarts alone never break the chain (audit.ts:82-88).     *)
BreaksHaveACause == ~overlapped /\ tampers = 0 => VerifyAuditChain(log)

(* In a log that verifies, a row that the program wrote vouches for all    *)
(* before it (audit.ts:7-9): word for word they are the log as its writer  *)
(* read it, if that verified then.  Nothing vouches for the rows after the *)
(* last such row: since the hash takes no key, who removes or re-hashes    *)
(* everything from a row to the end is not found out.  Of rows appended at *)
(* the same time, the later ones vouch for one only.                       *)
EachRowVouches ==
  VerifyAuditChain(log) =>
    \A i \in DOMAIN log :
      LET source == hashed[log[i].hash] IN
      source.genuine /\ VerifyAuditChain(source.before) =>
        SubSeq(log, 1, i - 1) = source.before

=============================================================================
