---------------------------- MODULE MCArtifacts ----------------------------
EXTENDS Artifacts, TLC

\* Ids are drawn at random and carry no order, and creators and contents are
\* only compared; the runs check safety properties that treat them alike.
Interchangeable ==
  Permutations(Artifacts) \cup Permutations(Creators) \cup Permutations(Contents)
=============================================================================
