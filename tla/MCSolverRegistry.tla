-------------------------- MODULE MCSolverRegistry --------------------------
(***************************************************************************)
(* The solver registry on its own, under any reporter, with the tick of    *)
(* each solver's last withdrawal kept as a history variable.               *)
(***************************************************************************)
EXTENDS SolverRegistry

VARIABLE lastOut

Never == -1

MCInit == SRInit /\ lastOut = [s \in Solver |-> Never]

Withdraws(s) == \E v \in Amount : Unbond(s, v)

MCNext ==
    /\ SRNext
    /\ lastOut' = [s \in Solver |-> IF Withdraws(s) THEN now ELSE lastOut[s]]

MCSpec == MCInit /\ [][MCNext]_<<srVars, lastOut>>

\* One request buys one withdrawal: whatever happens in between (a slash, being
\* struck off, registering again, a change of the delay), two withdrawals of a
\* solver are at least the shortest cool-down apart.
CooldownPerWithdrawal ==
    [][\A s \in Solver :
          Withdraws(s) /\ lastOut[s] /= Never =>
              \E d \in {UnbondDelay} \cup Delays : now >= lastOut[s] + d]_<<srVars, lastOut>>
=============================================================================
