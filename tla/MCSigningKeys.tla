--------------------------- MODULE MCSigningKeys ---------------------------
(* Instances of SigningKeys for TLC.                                       *)
EXTENDS SigningKeys, TLC

CONSTANTS s1, c1, c2,       \* processes
          g1, m1, m2        \* their goroutines

HomeDef == [t \in Thread |-> CASE t = g1 -> s1 [] t = m1 -> c1 [] t = m2 -> c2]

OneKekDef == [p \in Server \cup Cli |-> "kek1"]

\* Keys are interchangeable (CHOOSE only ever picks from a singleton of them), and so
\* are the two commands, each with its goroutine.
SwapCommands == c1 :> c2 @@ c2 :> c1 @@ m1 :> m2 @@ m2 :> m1
Symmetry == Permutations(Kid) \cup {SwapCommands}

NoOffset == [p \in Server \cup Cli |-> 0]
============================================================================
