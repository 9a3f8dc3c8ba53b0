------------------------------ MODULE MCTurns ------------------------------
(* Two messages in one conversation and one in another.                    *)
EXTENDS Turns, TLC

CONSTANTS m1, m2, m3, c1, c2, u1, u2

MCConversationOf == (m1 :> c1) @@ (m2 :> c1) @@ (m3 :> c2)

MCAuthorOf == (m1 :> u1) @@ (m2 :> u1) @@ (m3 :> u2)

Symmetry == Permutations(Handler) \union Permutations({m1, m2})

=============================================================================
