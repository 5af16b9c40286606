------------------------------- MODULE Pairing -------------------------------
(***************************************************************************)
(* What a deployment promises about tokens and trackers, whichever tasks   *)
(* are run, killed and run again: a token gets one tracker, once, that no  *)
(* other token has, and it goes live once, after that.                     *)
(***************************************************************************)
VARIABLES pairs,    \* which tracker a token reports to
          live      \* the tokens whose supply has been handed out

vars == << pairs, live >>

Init == pairs = {} /\ live = {}

\* A new pair of a token and a tracker that are in no pair yet.
Pair ==
    /\ \E new \in pairs' :
          /\ \A p \in pairs : p[1] # new[1] /\ p[2] # new[2]
          /\ pairs' = pairs \cup {new}
    /\ UNCHANGED live

\* A token of a pair goes live.
GoLive ==
    /\ \E p \in pairs :
          /\ p[1] \notin live
          /\ live' = live \cup {p[1]}
    /\ UNCHANGED pairs

Next == Pair \/ GoLive

Spec == Init /\ [][Next]_vars
=============================================================================
