------------------------------ MODULE MCSignIn ------------------------------
(* A small instance of SignIn for TLC. *)
EXTENDS SignIn, TLC

Symmetry == Permutations(Handlers) \cup Permutations(States)

\* Two codes and one return from Discord, or one code and two returns.
SmallInstance ==
    Cardinality({n \in 1..CodeBound : code[n].status # "none"})
    + Cardinality({x \in States : oauth[x].status # "none"}) <= 3

SmallNext == SignInNext /\ SmallInstance'

SmallSpec == SignInInit /\ [][SmallNext]_signInVars
=============================================================================
