------------------------------- MODULE Clock -------------------------------
(***************************************************************************)
(* What the token store, the event cache and the sync worker share: the    *)
(* users and the time (time.Now, in seconds as far as they matter).        *)
(***************************************************************************)
EXTENDS Integers, FiniteSetsExt

CONSTANTS
    Profiles,       \* Spond profiles; a user row and its id belong to one
    Unreliable,     \* the profiles whose calls to Spond and store may fail
    Nothing,        \* no row, no user, no event
    MaxTime         \* bound: the time at which the clock stops

ASSUME ProfilesAssumption ==
    /\ Unreliable \subseteq Profiles
    /\ Nothing \notin Profiles

ASSUME TimeAssumption == MaxTime \in Nat

VARIABLE now

Times == 0..MaxTime

Tick == now < MaxTime /\ now' = now + 1
=============================================================================
