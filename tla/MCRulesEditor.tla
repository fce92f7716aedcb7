---- MODULE MCRulesEditor ----
\* A small instance of RulesEditor for TLC.
EXTENDS RulesEditor, TLC
MCIds == 1..4
Symmetries == Permutations(Names) \cup Permutations(Categories)
====
