------------------------------ MODULE MCBilling ------------------------------
EXTENDS Billing, TLC

\* Nothing tells attempts, workers or plans apart but what happens to them.
MCSymmetry == Permutations(Attempts) \cup Permutations(Workers) \cup Permutations(Plans)
=============================================================================
