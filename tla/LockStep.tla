------------------------------ MODULE LockStep ------------------------------
(***************************************************************************)
(* What the production of an interface's tables promises a template whose  *)
(* tables draw values from each other: the n-th file of a table is made    *)
(* from the rows of the n-th file of every table it depends on, never from *)
(* rows of an older or a newer one.                                        *)
(***************************************************************************)
EXTENDS Naturals

CONSTANT Tables

VARIABLES
    deps,       \* deps[t]: the tables t draws values from
    made        \* made[t]: how many files of t have been made

LockStepInit ==
    /\ deps \in [Tables -> SUBSET Tables]
    /\ made = [t \in Tables |-> 0]

\* The next file of t, once every dependency has made its file of the same number.
Make(t) ==
    /\ \A d \in deps[t] : made[d] = made[t] + 1
    /\ made' = [made EXCEPT ![t] = @ + 1]
    /\ UNCHANGED deps

LockStepSpec == LockStepInit /\ [][\E t \in Tables : Make(t)]_<<deps, made>>
=============================================================================
