-------------------------- MODULE MCStagingInbox --------------------------
EXTENDS StagingInbox, TLC

Symmetric ==
  Permutations(Source) \cup Permutations(Persona) \cup Permutations(Classifier)
=============================================================================
