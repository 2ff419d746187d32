------------------------------ MODULE Handlers ------------------------------
(***************************************************************************)
(* What the handlers behind the dashboard have in common.  A handler makes *)
(* several writes, to files and to tables, each durable on its own; it     *)
(* reaches its end, or is cut short after any of them, because a statement *)
(* throws, the disk is full or the process dies.  Nothing is taken back    *)
(* and nothing is finished later.                                          *)
(***************************************************************************)
EXTENDS Naturals, Sequences

CONSTANTS
  MaxEdits,     \* bound: requests of the lawyers
  MaxMishaps    \* bound: handlers that are cut short

ASSUME HandlerAssumption == {MaxEdits, MaxMishaps} \subseteq Nat

VARIABLES
  edits,     \* requests made so far
  mishaps,   \* handlers cut short so far
  hurt       \* the records whose last writing handler was cut short

handlerVars == <<edits, mishaps, hurt>>

HandlersTypeOK(Record) ==
  /\ edits \in Nat
  /\ mishaps \in Nat
  /\ hurt \subseteq Record

HandlersInit == edits = 0 /\ mishaps = 0 /\ hurt = {}

(* A lawyer asks for something.                                            *)
Request == edits < MaxEdits /\ edits' = edits + 1

(* The handler of record k passes through the given states and leaves the  *)
(* record in state x: the last of them, or an earlier one.                 *)
Leaves(k, steps, x) ==
  \/ /\ x = steps[Len(steps)]
     /\ hurt' = hurt \ {k}
     /\ UNCHANGED mishaps
  \/ /\ mishaps < MaxMishaps
     /\ \E i \in 1..(Len(steps) - 1) : x = steps[i]
     /\ hurt' = hurt \cup {k}
     /\ mishaps' = mishaps + 1

=============================================================================
