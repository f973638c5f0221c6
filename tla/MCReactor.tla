----------------------------- MODULE MCReactor ------------------------------
(* Reactor with bounds for TLC. *)
EXTENDS Reactor, TLC

(* Every client sends once. *)
AllTalk == [c \in Conns |-> 1]

(* One client sends once; the others connect and stay silent. *)
OneTalks ==
    LET talker == CHOOSE c \in Conns : TRUE
    IN  [c \in Conns |-> IF c = talker THEN 1 ELSE 0]

(* Where each client may do the same, descriptors, connections and workers *)
(* are only compared for equality, and each set may be permuted.           *)
Symmetry ==
    Permutations(Fds) \cup Permutations(Conns) \cup Permutations(Workers)
=============================================================================
