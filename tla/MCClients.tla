------------------------------- MODULE MCClients -------------------------------
(***************************************************************************)
(* What a browser shares with the server, for TLC: the session it is       *)
(* signed in with, the role its token carries, the pages that follow a     *)
(* document and what they say of a shop's hours.  These parts have no      *)
(* field in common and their steps commute, so each behaviour is one of    *)
(* one part, and the others stay as they began.                            *)
(***************************************************************************)
EXTENDS Sessions, LivePage, RiderAccounts, OpeningHours, TLC

CONSTANTS tab1, tab2, laptop, phone

TwoTabs == tab1 :> laptop @@ tab2 :> phone

VARIABLE part

(* A part at rest is one that stays as it begins; of the parts that may     *)
(* begin in many ways only the one that moves is given the choice.          *)
Init ==
  /\ SessionsInit /\ LivePageInit /\ RiderAccountsInit /\ OpeningHoursInit
  /\ part \in {"sessions", "page", "accounts", "hours"}
  /\ part # "accounts" => \A u \in People : role[u] = "customer"
  /\ part # "hours" => \A day \in Days : ~ Usable(day)

Next ==
  /\ UNCHANGED part
  /\ \/ /\ part = "sessions" /\ SessionsNext
        /\ UNCHANGED <<pageVars, accountVars, hoursVars>>
     \/ /\ part = "page" /\ LivePageNext
        /\ UNCHANGED <<sessionVars, accountVars, hoursVars>>
     \/ /\ part = "accounts" /\ RiderAccountsNext
        /\ UNCHANGED <<sessionVars, pageVars, hoursVars>>
     \/ /\ part = "hours" /\ OpeningHoursNext
        /\ UNCHANGED <<sessionVars, pageVars, accountVars>>

Spec == Init /\ [][Next]_<<part, sessionVars, pageVars, accountVars, hoursVars>>

(* The parts share their model values (see the configuration), so that one  *)
(* small group of permutations serves them all.                             *)
Symmetry == Permutations(Tokens) \cup Permutations(Calls)
=============================================================================
