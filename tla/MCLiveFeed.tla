----------------------------- MODULE MCLiveFeed -----------------------------
(* Small instances of LiveFeed for TLC.                                    *)
EXTENDS LiveFeed, TLC

OneTime == {0}
CompleteOnly == {"Complete"}

Symmetry == Permutations(Guid) \cup Permutations(Conn)
=============================================================================
