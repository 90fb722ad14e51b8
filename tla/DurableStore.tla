---------------------------- MODULE DurableStore ----------------------------
(***************************************************************************)
(* What a store that is kept across restarts promises, without files: the  *)
(* content readers see, the content a restart gives back, and nothing in   *)
(* between.  A restart never invents a content, never mixes two and never  *)
(* falls behind a save.                                                    *)
(***************************************************************************)
CONSTANTS Contents,  \* the contents a store can have
          Empty,     \* the one it has when there is nothing to read
          Changes    \* the pairs <<before, after>> one operation may make

VARIABLES live,   \* what readers see
          saved   \* what a restart gives back

durableVars == <<live, saved>>

DurableInit == live = Empty /\ saved = Empty

Change ==
  /\ live' \in Contents
  /\ <<live, live'>> \in Changes
  /\ saved' = saved

Save == saved' = live /\ live' = live

Restart == live' = saved /\ saved' = saved

DurableNext == Change \/ Save \/ Restart

DurableSpec == DurableInit /\ [][DurableNext]_durableVars

=============================================================================
