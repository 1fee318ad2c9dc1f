---------------------------- MODULE IntentMarket ----------------------------
(***************************************************************************)
(* What the intent registry promises, without auctions or bonds.  An       *)
(* intent is open or engaged to one solver until it is fulfilled,          *)
(* cancelled or expired, for good.  An engagement ends in exactly one way: *)
(* the solver keeps it, misses it, or is released by a challenge or by the *)
(* owner's cancelling; its public record grows by one in the first two     *)
(* cases and is untouched in the others.  Nobody is engaged or keeps an    *)
(* engagement after the deadline, and nothing expires before it.           *)
(***************************************************************************)
EXTENDS Integers

CONSTANTS Intent, Solver, Nil

VARIABLES
    phase,      \* of each intent
    engaged,    \* the solver an intent is engaged to, or Nil
    due,        \* the deadline of each intent
    clock,
    kept, missed    \* each solver's record

marketVars == <<phase, engaged, due, clock, kept, missed>>

Init ==
    /\ phase   = [i \in Intent |-> "NONE"]
    /\ engaged = [i \in Intent |-> Nil]
    /\ due     = [i \in Intent |-> 0]
    /\ clock   = 0
    /\ kept    = [s \in Solver |-> 0]
    /\ missed  = [s \in Solver |-> 0]

Announce(i) ==
    /\ phase[i] = "NONE"
    /\ phase' = [phase EXCEPT ![i] = "OPEN"]
    /\ due'[i] > clock
    /\ due' = [due EXCEPT ![i] = due'[i]]
    /\ UNCHANGED <<engaged, clock, kept, missed>>

Engage(i, s) ==
    /\ phase[i] = "OPEN"
    /\ clock <= due[i]
    /\ phase'   = [phase EXCEPT ![i] = "SELECTED"]
    /\ engaged' = [engaged EXCEPT ![i] = s]
    /\ UNCHANGED <<due, clock, kept, missed>>

\* The end of an engagement: the intent moves on to phase p.
Release(i, p) ==
    /\ phase[i] = "SELECTED"
    /\ phase'   = [phase EXCEPT ![i] = p]
    /\ engaged' = [engaged EXCEPT ![i] = Nil]
    /\ UNCHANGED <<due, clock>>

Keep(i) ==
    /\ Release(i, "FULFILLED")
    /\ clock <= due[i]
    /\ kept' = [kept EXCEPT ![engaged[i]] = @ + 1]
    /\ UNCHANGED missed

Miss(i) ==
    /\ \/ Release(i, "OPEN")
       \/ Release(i, "EXPIRED") /\ clock > due[i]
    /\ missed' = [missed EXCEPT ![engaged[i]] = @ + 1]
    /\ UNCHANGED kept

Excuse(i) ==
    /\ Release(i, "OPEN") \/ Release(i, "CANCELLED")
    /\ UNCHANGED <<kept, missed>>

Drop(i) ==
    /\ phase[i] = "OPEN"
    /\ \/ phase' = [phase EXCEPT ![i] = "CANCELLED"]
       \/ clock > due[i] /\ phase' = [phase EXCEPT ![i] = "EXPIRED"]
    /\ UNCHANGED <<engaged, due, clock, kept, missed>>

Pass ==
    /\ clock' = clock + 1
    /\ UNCHANGED <<phase, engaged, due, kept, missed>>

Next ==
    \/ \E i \in Intent :
          \/ Announce(i) \/ Keep(i) \/ Miss(i) \/ Excuse(i) \/ Drop(i)
          \/ \E s \in Solver : Engage(i, s)
    \/ Pass

Spec == Init /\ [][Next]_marketVars
=============================================================================
