--------------------------- MODULE MCD2DExchange ---------------------------
(* The exchange of one query, answered twice by the bridge and once by the *)
(* respond route, and one note.                                            *)
EXTENDS D2DExchange, TLC

Symmetric == Permutations(Answer) \cup Permutations(Refusal) \cup Permutations(Pass)
=============================================================================
