-------------------------------- MODULE Loops --------------------------------
(***************************************************************************)
(* A counted loop of the program, as an operator on its state.             *)
(***************************************************************************)
EXTENDS Naturals

\* n turns of a loop on a state.  The state is bound by the set, so that TLC
\* evaluates each turn once.
Iterate(Turn(_), start, n) ==
  LET after[i \in 0 .. n] ==
        IF i = 0 THEN start ELSE CHOOSE u \in {Turn(r) : r \in {after[i - 1]}} : TRUE
  IN  after[n]

\* LET v == value IN Use(v), with the value bound by a set for the same reason.
With(value, Use(_)) == CHOOSE u \in {Use(v) : v \in {value}} : TRUE
=============================================================================
