------------------------------ MODULE Exchange ------------------------------
(***************************************************************************)
(* The exchange of matters with the firm's other practice systems          *)
(* (integrations/leap, integrations/clio).  A sync asks the partner for    *)
(* the records changed since the last sync, makes a matter of each that is *)
(* not here under the partner's prefix, sends it the matters it has not    *)
(* been sent, one after the other, and notes the time.  Two lawyers may    *)
(* sync at once; the partner's people go on working.                       *)
(*                                                                         *)
(* A number is the sequence of the prefixes it has collected and the       *)
(* number it was born with.  A partner keeps as many records under a       *)
(* number as it is sent, and answers with what had changed when asked.     *)
(***************************************************************************)
EXTENDS Handlers, FiniteSets, SequencesExt

CONSTANTS
  Partner,    \* LEAP, Clio
  Sync,       \* syncs that can be under way at once
  Own,        \* numbers of matters opened here
  Foreign     \* numbers of matters opened at a partner

(* Nothing compares a number of this firm's with a partner's own: that     *)
(* they differ only names the matters.                                     *)
ASSUME ExchangeAssumption ==
  /\ Partner # {}
  /\ IsFiniteSet(Sync)
  /\ Own \cap Foreign = {}

VARIABLES
  matters,    \* matters: their numbers, and whether they are open
  remote,     \* the partner's records: how many of each number
  changed,    \* those changed after SYNC_KEY
  pushed,     \* the matters key_value_store knows to be sent
  sync,       \* the syncs under way
  excused,    \* (history) records whose pull failed, or that changed under it
  repeats     \* (history) answers lost, posts that overtook each other, or whose look-up failed

exchangeVars == <<matters, remote, changed, pushed, sync, excused, repeats>>

Number == Seq(Partner \cup Own \cup Foreign)

SyncState == [at : {"idle", "pulling", "pushing", "sending"},
              with : Partner,
              got : SUBSET Number,         \* the partner's answer
              todo : Seq(Number)]          \* listMatters

ExchangeTypeOK ==
  /\ DOMAIN matters \subseteq Number /\ Range(matters) \subseteq {"open", "closed"}
  /\ \A p \in Partner : DOMAIN remote[p] \subseteq Number /\ Range(remote[p]) \subseteq Nat
  /\ \A p \in Partner, t \in {changed, pushed, excused} : t[p] \subseteq Number
  /\ sync \in [Sync -> SyncState]
  /\ \A p \in Partner : DOMAIN repeats[p] \subseteq Number /\ Range(repeats[p]) \subseteq Nat

Idle == [at |-> "idle", with |-> CHOOSE p \in Partner : TRUE, got |-> {}, todo |-> <<>>]

ExchangeInit ==
  /\ matters = << >>
  /\ remote = [p \in Partner |-> << >>]
  /\ changed = [p \in Partner |-> {}]
  /\ pushed = [p \in Partner |-> {}]
  /\ sync = [s \in Sync |-> Idle]
  /\ excused = [p \in Partner |-> {}]
  /\ repeats = [p \in Partner |-> << >>]

-----------------------------------------------------------------------------

Here(n) == n \in DOMAIN matters

(* `LEAP-${number}`, `CLIO-${number}`, and startsWith.                     *)
Local(p, n) == <<p>> \o n
CameFrom(p, n) == Head(n) = p

(* What is counted under n in a count c, and the count with one more.      *)
CountOf(c, n) == IF n \in DOMAIN c THEN c[n] ELSE 0
OneMore(c, n) == [k \in DOMAIN c \cup {n} |-> CountOf(c, k) + (IF k = n THEN 1 ELSE 0)]

With(numbers, status) ==
  [n \in DOMAIN matters \cup numbers |-> IF Here(n) THEN matters[n] ELSE status]

-----------------------------------------------------------------------------

(* The two firms at work.                                                  *)
OpenMatter(n) ==
  /\ ~Here(<<n>>)
  /\ Request
  /\ matters' = With({<<n>>}, "open")
  /\ UNCHANGED <<mishaps, hurt, remote, changed, pushed, sync, excused, repeats>>

CloseMatter(n) ==
  /\ Here(n) /\ matters[n] = "open"
  /\ Request
  /\ matters' = [matters EXCEPT ![n] = "closed"]
  /\ UNCHANGED <<mishaps, hurt, remote, changed, pushed, sync, excused, repeats>>

OpenRecord(p, n) ==
  /\ <<n>> \notin DOMAIN remote[p]
  /\ Request
  /\ remote' = [remote EXCEPT ![p] = OneMore(@, <<n>>)]
  /\ changed' = [changed EXCEPT ![p] = @ \cup {<<n>>}]
  /\ UNCHANGED <<mishaps, hurt, matters, pushed, sync, excused, repeats>>

ChangeRecord(p, n) ==
  /\ n \in DOMAIN remote[p] \ changed[p]
  /\ Request
  /\ changed' = [changed EXCEPT ![p] = @ \cup {n}]
  /\ UNCHANGED <<mishaps, hurt, matters, remote, pushed, sync, excused, repeats>>

-----------------------------------------------------------------------------

(* kvGet and kvSet swallow a statement that throws.                        *)
MayThrow(throws) ==
  IF throws THEN mishaps < MaxMishaps /\ mishaps' = mishaps + 1 ELSE UNCHANGED mishaps

(* syncLeap, syncClio: GET /matters?updatedSince=<SYNC_KEY>, which asks for*)
(* everything if SYNC_KEY cannot be read.                                  *)
StartSync(s, p) ==
  /\ sync[s].at = "idle"
  /\ Request
  /\ \E throws \in BOOLEAN :
       /\ MayThrow(throws)
       /\ sync' = [sync EXCEPT ![s] =
            [at |-> "pulling", with |-> p, got |-> IF throws THEN DOMAIN remote[p] ELSE changed[p],
             todo |-> <<>>]]
  /\ UNCHANGED <<hurt, matters, remote, changed, pushed, excused, repeats>>

(* Seeded fault: a matter that is here ends the loop.                      *)
ToInsertUntilKnown(p, got) == IF \E n \in got : Here(Local(p, n)) THEN {} ELSE got

(* What of an answer is made a matter here: what is not here yet.          *)
ToInsert(p, got) == {n \in got : ~Here(Local(p, n))}

(* pullMatters when the answer is there; an answer that is an error, or an *)
(* insert that throws, leaves the rest, and pushMatters begins regardless  *)
(* with the open matters that did not come from this partner.              *)
PullMatters(s, inserted) ==
  LET p == sync[s].with
      new == ToInsert(p, sync[s].got)
      now == With({Local(p, n) : n \in inserted}, "open") IN
  /\ sync[s].at = "pulling"
  /\ inserted \subseteq new
  /\ \/ inserted = new /\ UNCHANGED <<mishaps, excused>>
     \/ /\ inserted # new
        /\ mishaps < MaxMishaps /\ mishaps' = mishaps + 1
        /\ excused' = [excused EXCEPT ![p] = @ \cup (new \ inserted)]
  /\ matters' = now
  /\ \E todo \in SetToSeqs({n \in DOMAIN now : now[n] = "open" /\ ~CameFrom(p, n)}) :
       sync' = [sync EXCEPT ![s].at = "pushing", ![s].todo = todo]
  /\ UNCHANGED <<edits, hurt, remote, changed, pushed, repeats>>

(* Seeded fault: what was sent before is not looked up.                    *)
SendAlways(p, n) == TRUE

IsToSend(p, n) == n \notin pushed[p]

InFlight(p, n) == \E t \in Sync : sync[t].at = "sending" /\ sync[t].with = p /\ Head(sync[t].todo) = n

(* pushMatters, one matter: a look-up that throws finds nothing, and the   *)
(* matter is sent.  Up to the await ...                                    *)
Post(s) ==
  LET p == sync[s].with
      n == Head(sync[s].todo) IN
  /\ sync[s].at = "pushing" /\ sync[s].todo # <<>>
  /\ \E throws \in BOOLEAN :
       /\ MayThrow(throws)
       /\ \/ /\ throws \/ IsToSend(p, n)
             /\ sync' = [sync EXCEPT ![s].at = "sending"]
             /\ repeats' = IF InFlight(p, n) \/ ~IsToSend(p, n)
                            THEN [repeats EXCEPT ![p] = OneMore(@, n)] ELSE repeats
          \/ /\ ~throws /\ ~IsToSend(p, n)
             /\ sync' = [sync EXCEPT ![s].todo = Tail(@)]
             /\ UNCHANGED repeats
  /\ UNCHANGED <<edits, hurt, matters, remote, changed, pushed, excused>>

(* ... and after it.  The partner takes the matter or refuses it; its      *)
(* answer may be lost on the way, or the note of it fail to be written.    *)
Answer(s, taken, noted) ==
  LET p == sync[s].with
      n == Head(sync[s].todo) IN
  /\ sync[s].at = "sending"
  /\ noted => taken
  /\ \/ taken = noted /\ UNCHANGED <<mishaps, repeats>>
     \/ /\ taken # noted
        /\ mishaps < MaxMishaps /\ mishaps' = mishaps + 1
        /\ repeats' = [repeats EXCEPT ![p] = OneMore(@, n)]
  /\ remote' = IF taken THEN [remote EXCEPT ![p] = OneMore(@, n)] ELSE remote
  /\ changed' = IF taken THEN [changed EXCEPT ![p] = @ \cup {n}] ELSE changed
  /\ pushed' = IF noted THEN [pushed EXCEPT ![p] = @ \cup {n}] ELSE pushed
  /\ sync' = [sync EXCEPT ![s].at = "pushing", ![s].todo = Tail(@)]
  /\ UNCHANGED <<edits, hurt, matters, excused>>

(* SYNC_KEY becomes the time the sync ends, whatever came of it, unless it *)
(* cannot be written.                                                      *)
Finish(s) ==
  LET p == sync[s].with IN
  /\ sync[s].at = "pushing" /\ sync[s].todo = <<>>
  /\ \E throws \in BOOLEAN :
       /\ MayThrow(throws)
       /\ IF throws THEN UNCHANGED <<changed, excused>>
          ELSE /\ changed' = [changed EXCEPT ![p] = {}]
               /\ excused' = [excused EXCEPT ![p] = @ \cup (changed[p] \ sync[s].got)]
  /\ sync' = [sync EXCEPT ![s] = Idle]
  /\ UNCHANGED <<edits, hurt, matters, remote, pushed, repeats>>

(* The program stops, and the syncs with it; what was on its way may have  *)
(* arrived.                                                                *)
Stop ==
  LET sent(p) == {s \in Sync : sync[s].at = "sending" /\ sync[s].with = p} IN
  /\ mishaps < MaxMishaps /\ mishaps' = mishaps + 1
  /\ \E s \in Sync : sync[s].at # "idle"
  /\ \E arrived \in SUBSET {s \in Sync : sync[s].at = "sending"} :
       LET at(p, n) == Cardinality({s \in arrived \cap sent(p) : Head(sync[s].todo) = n})
           new(p) == {Head(sync[s].todo) : s \in arrived \cap sent(p)}
           plus(c, p) == [n \in DOMAIN c \cup new(p) |-> CountOf(c, n) + at(p, n)]
       IN /\ remote' = [p \in Partner |-> plus(remote[p], p)]
          /\ changed' = [p \in Partner |-> changed[p] \cup new(p)]
          /\ repeats' = [p \in Partner |-> plus(repeats[p], p)]
  /\ sync' = [s \in Sync |-> Idle]
  /\ UNCHANGED <<edits, hurt, matters, pushed, excused>>

ExchangeStep ==
  \/ Stop
  \/ \E n \in Own : OpenMatter(n)
  \/ \E n \in DOMAIN matters : CloseMatter(n)
  \/ \E p \in Partner :
       \/ \E n \in Foreign : OpenRecord(p, n)
       \/ \E n \in DOMAIN remote[p] : ChangeRecord(p, n)
       \/ \E s \in Sync : StartSync(s, p)
  \/ \E s \in Sync :
       \/ Post(s) \/ Finish(s)
       \/ \E taken, noted \in BOOLEAN : Answer(s, taken, noted)
       \/ \E inserted \in SUBSET ToInsert(sync[s].with, sync[s].got) : PullMatters(s, inserted)

-----------------------------------------------------------------------------

(* A partner holds a matter of this firm once, and once more for each      *)
(* answer that was lost or could not be noted, each post that overtook     *)
(* another and each look-up that threw: syncs repeated, overlapping and    *)
(* cut short send nothing twice for any other reason                       *)
(* (leap/index.ts:64-85, 144-182, clio/index.ts:67-84, 140-176).           *)
CopiesHaveACause ==
  \A p \in Partner : \A n \in DOMAIN remote[p] :
    CountOf(remote[p], n) <= 1 + CountOf(repeats[p], n)

(* A record that counts as exchanged, one that was sent from here too, is  *)
(* a matter here under the partner's prefix, unless its pull failed or it  *)
(* changed while a sync was under way: moving SYNC_KEY forward forgets no  *)
(* other (leap/index.ts:103-142, 190-221).                                 *)
NothingIsMissedSilently ==
  \A p \in Partner : \A n \in DOMAIN remote[p] \ changed[p] :
    Here(Local(p, n)) \/ n \in excused[p]

=============================================================================
