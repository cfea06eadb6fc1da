------------------------------ MODULE MCLaunch ------------------------------
(* Launch for TLC: no, one or two arguments for the user program. *)
EXTENDS Launch, TLC

CONSTANTS x, y

MCExtras == {<< >>, <<x>>, <<x, y>>}

Symmetry == Permutations(Host)

=============================================================================
