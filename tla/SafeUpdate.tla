----------------------------- MODULE SafeUpdate -----------------------------
(***************************************************************************)
(* What the software A/B update promises, with no flag, no copy and no     *)
(* power failure in sight: two application slots, each holding an intact   *)
(* image or nothing one may start, and at most one application running.    *)
(* A slot is given up only while nothing runs and the other slot could be  *)
(* started; an image is installed whole; only an intact slot is started.   *)
(***************************************************************************)
EXTENDS Integers

CONSTANTS Image,    \* the application images
          None      \* "no intact image", "nothing runs"

Slot == {0, 1}

VARIABLES have,     \* the intact image of each slot, or None
          running   \* the slot whose application runs, or None

vars == <<have, running>>

Init == /\ have \in [Slot -> Image \cup {None}]
        /\ \E s \in Slot : have[s] # None
        /\ running = None

GiveUp(s) ==
  /\ running = None
  /\ have[1 - s] # None
  /\ have' = [have EXCEPT ![s] = None]
  /\ UNCHANGED running

Install(s, i) ==
  /\ running = None
  /\ have[s] = None
  /\ have' = [have EXCEPT ![s] = i]
  /\ UNCHANGED running

Start(s) ==
  /\ running = None
  /\ have[s] # None
  /\ running' = s
  /\ UNCHANGED have

Stop == /\ running # None
        /\ running' = None
        /\ UNCHANGED have

Next == \/ \E s \in Slot : GiveUp(s) \/ Start(s)
        \/ \E s \in Slot, i \in Image : Install(s, i)
        \/ Stop

Spec == Init /\ [][Next]_vars
=============================================================================
