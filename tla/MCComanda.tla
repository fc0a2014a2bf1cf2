----------------------------- MODULE MCComanda -----------------------------
EXTENDS Comanda, TLC

\* Nothing tells tickets, items, professionals, registers, keys or requests apart but
\* what happens to them.
MCSymmetry ==
    Permutations(ItemIds) \cup Permutations(Requests) \cup Permutations(Registers)
    \cup Permutations(Pros)
=============================================================================
