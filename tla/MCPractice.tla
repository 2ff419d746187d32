----------------------------- MODULE MCPractice -----------------------------
(* Three people for a licence of two, two requests in flight; three things  *)
(* asked of the model at once; texts of up to four lines and the dates      *)
(* around the ends of months; two partners and two syncs; one client beside *)
(* two matters.                                                             *)
(*                                                                          *)
(* The parts share no variable but those of their handlers, and every       *)
(* property is about one part: it is enough to follow the behaviours of     *)
(* each part alone.                                                         *)
EXTENDS Practice

VARIABLE part    \* the part that is followed

MCTrigger == {<<2023, 8, 31>>, <<2024, 2, 29>>, <<2023, 11, 30>>, <<2023, 5, 15>>, <<2022, 12, 31>>}

MCOccasion == {<<2024, 2, 29>>, <<2023, 5, 15>>}

(* The days on which a warning or a period begins or ends, and their        *)
(* neighbours.                                                              *)
MCPassed ==
  {n - m - k : n \in {0, 21, 28, 182, 273, 365, 730, 1095, 2192}, m \in {0, 14, 30, 180, 365},
               k \in {-1, 0, 1}}

(* Estimates and amounts around 75, 90 and 99.5 hundredths, and a credit.   *)
MCSum == {-20, 0, 1, 30, 99, 200, 201}

MCInit == Init /\ part \in {"access", "advice", "sums", "interviews", "reviews", "screenings", "budgets",
                            "partners", "outsiders", "counsel"}

MCNext ==
  /\ UNCHANGED part
  /\ \/ part = "access" /\ Access
     \/ part = "advice" /\ Advice
     \/ part = "sums" /\ Sums
     \/ part = "interviews" /\ Interviews
     \/ part = "reviews" /\ FileReviews
     \/ part = "screenings" /\ Screenings
     \/ part = "budgets" /\ Budgets
     \/ part = "partners" /\ Partners
     \/ part = "outsiders" /\ Outsiders
     \/ part = "counsel" /\ Counsel

MCSpec == MCInit /\ [][MCNext]_<<vars, part>>

=============================================================================
