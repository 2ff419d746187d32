---------------------------- MODULE TrustLedger ----------------------------
(***************************************************************************)
(* The trust account (compliance/trust-reconciliation.ts): bank statements *)
(* are pasted in as CSV, each row is recorded and audited, and             *)
(* reconciliations of periods are drawn from what is recorded.             *)
(*                                                                         *)
(* The service's handlers run one at a time, but each statement commits on *)
(* its own, and their audit entries go onto the chain of AuditChain, where *)
(* other processes append in between.                                      *)
(***************************************************************************)
EXTENDS AuditChain, Integers, FiniteSetsExt

CONSTANTS
  Service,       \* the process whose dashboard does all this
  NBank,         \* how many transactions the bank's statement has
  Amount,        \* what each puts into the account
  BankDay,       \* the day of each
  IsoDate,       \* the transactions whose date is written year first
  OneColumn,     \* does the CSV hold signed amounts in one column?
  LastBankDay,   \* bound: days are 1..LastBankDay
  MaxImports,    \* bound: CSVs imported
  MaxReports     \* bound: reconciliations drawn

Bank == 1..NBank

ASSUME LedgerAssumption ==
  /\ Service \in Writer
  /\ {NBank, LastBankDay, MaxImports, MaxReports} \subseteq Nat
  /\ Amount \in [Bank -> Int]
  /\ BankDay \in [Bank -> 1..LastBankDay]
  /\ IsoDate \subseteq Bank
  /\ OneColumn \in BOOLEAN

VARIABLES
  recorded,    \* how many rows of trust_transactions each transaction has
  csv,         \* the rows of the import that are still to be recorded
  due,         \* the audit entries the running handler has still to write
  imports,     \* how many imports there were
  reports      \* trust_reconciliations, with what was recorded at the time

trustVars == <<recorded, csv, due, imports, reports>>
ledgerVars == <<chainVars, trustVars>>

Days == 1..LastBankDay

LedgerTypeOK ==
  /\ ChainTypeOK
  /\ recorded \in [Bank -> 0..MaxImports]
  /\ csv \subseteq Bank
  /\ due \in 0..2
  /\ imports \in 0..MaxImports
  /\ reports \subseteq
       [from : Days, to : Days, opening : Int, closing : Int, held : [Bank -> 0..MaxImports]]

LedgerInit ==
  /\ ChainInit
  /\ recorded = [b \in Bank |-> 0]
  /\ csv = {}
  /\ due = 0
  /\ imports = 0
  /\ reports = {}

AtRest == csv = {} /\ due = 0

-----------------------------------------------------------------------------

(* parseCsv and inferKind: the signed amount as a deposit or withdrawal.   *)
(* Of separate debit and credit columns only the first is read (the debit, *)
(* as banks write them, without a sign): withdrawals become deposits and   *)
(* deposits transfers of nothing.                                          *)
Stored(b) ==
  IF OneColumn THEN Amount[b]
  ELSE IF Amount[b] < 0 THEN -Amount[b] ELSE 0

(* transaction_date is compared as text: a date written day first comes    *)
(* before every year.                                                      *)
Day(b) == IF b \in IsoDate THEN BankDay[b] ELSE 0

(* importBankCsv: some stretch of the statement, perhaps one that was      *)
(* imported before.                                                        *)
ImportBankCsv(i, j) ==
  /\ AtRest
  /\ imports < MaxImports
  /\ imports' = imports + 1
  /\ csv' = i..j
  /\ UNCHANGED <<recorded, due, reports, chainVars>>

(* recordTrustTransaction inserts the row and owes its audit entry; after  *)
(* the last one the import owes its own.                                   *)
RecordTrustTransaction(b) ==
  /\ due = 0
  /\ b \in csv /\ \A c \in csv : b <= c
  /\ recorded' = [recorded EXCEPT ![b] = @ + 1]
  /\ csv' = csv \ {b}
  /\ due' = IF csv = {b} THEN 2 ELSE 1
  /\ UNCHANGED <<imports, reports, chainVars>>

(* appendLegalAudit for the handler that runs.                             *)
AppendAudit ==
  /\ due > 0
  /\ \/ ReadLastHash(Service) /\ UNCHANGED due
     \/ InsertRow(Service) /\ due' = due - 1
  /\ UNCHANGED <<recorded, csv, imports, reports>>

(* A statement throws or the process dies: the rest is not done.           *)
HandlerIsCutOff ==
  /\ ~AtRest
  /\ csv' = {}
  /\ due' = 0
  /\ seen' = [seen EXCEPT ![Service] = Idle]
  /\ UNCHANGED <<recorded, imports, reports, log, hashed, overlapped, tampers>>

(* What each transaction adds, when so many rows of it are held, ...       *)
Worth(held) == [b \in Bank |-> held[b] * Stored(b)]

(* ... and what is recorded of a set of them.                              *)
Total(S) == MapThenSumSet(LAMBDA b : Worth(recorded)[b], S)

(* Seeded fault: the first day of the period counts twice.                 *)
OpeningInclusive(from) == Total({b \in Bank : Day(b) <= from})

Opening(from) == Total({b \in Bank : Day(b) < from})

(* generateReconciliation for any period that is asked for.                *)
GenerateReconciliation(from, to) ==
  /\ AtRest
  /\ Cardinality(reports) < MaxReports
  /\ reports' = reports \cup
       {[from |-> from, to |-> to, held |-> recorded, opening |-> Opening(from),
         closing |-> Opening(from) + Total({b \in Bank : from <= Day(b) /\ Day(b) <= to})]}
  /\ due' = 1
  /\ UNCHANGED <<recorded, csv, imports, chainVars>>

(* signOffReconciliation: any report, whatever was recorded since.         *)
SignOffReconciliation ==
  /\ AtRest
  /\ reports # {}
  /\ due' = 1
  /\ UNCHANGED <<recorded, csv, imports, reports, chainVars>>

(* The audit entries of the other processes.                               *)
OthersAppend ==
  /\ \/ \E w \in Writer \ {Service} : ReadLastHash(w) \/ InsertRow(w) \/ GiveUp(w)
     \/ \E i \in 1 .. Len(log) + 1 : Tamper(i)
  /\ UNCHANGED trustVars

LedgerNext ==
  \/ \E i, j \in Bank : i <= j /\ ImportBankCsv(i, j)
  \/ \E b \in Bank : RecordTrustTransaction(b)
  \/ AppendAudit
  \/ HandlerIsCutOff
  \/ \E f, t \in Days : GenerateReconciliation(f, t)
  \/ SignOffReconciliation
  \/ OthersAppend

LedgerSpec == LedgerInit /\ [][LedgerNext]_ledgerVars

-----------------------------------------------------------------------------

(* The bank's own balance at the end of a day.                             *)
Balance(day) == MapThenSumSet(LAMBDA b : Amount[b], {b \in Bank : BankDay[b] <= day})

(* A reconciliation whose statement was imported once to the end of its    *)
(* period ends with the bank's balance, and the next period opens with it: *)
(* days on a boundary count once, and a transaction imported late is in    *)
(* the one or the other (trust-reconciliation.ts:222-239).  A period that  *)
(* ends long before it begins is drawn all the same and says nothing.      *)
ReportsAddUp ==
  IsoDate = Bank /\ OneColumn => \A r \in reports : r.from <= r.to + 1 =>
    /\ (\A b \in Bank : BankDay[b] <= r.to => r.held[b] = 1) => r.closing = Balance(r.to)
    /\ \A s \in reports :
         /\ s.from = r.to + 1
         /\ \A b \in Bank : BankDay[b] <= r.to => s.held[b] = r.held[b]
         => s.opening = r.closing

=============================================================================
