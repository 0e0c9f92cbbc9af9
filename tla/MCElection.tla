---------------------------- MODULE MCElection ----------------------------
EXTENDS Election, TLC

CONSTANTS n1, n2, n3

MCNodes == {n1, n2, n3}
MCTwoNodes == {n1, n2}
=============================================================================
