----------------------------- MODULE MCStoreFile -----------------------------
(* Two writers, so that migrations, failures and uses of the file interleave, *)
(* one reader that runs any number of commands, and two conversations, so     *)
(* that an orphan of one can be told from rows of the other.  The writers are *)
(* interchangeable, and so are the conversations.                             *)
EXTENDS StoreFile, TLC

CONSTANTS w1, w2, r1, k1, k2

MCWriter == {w1, w2}
MCReader == {r1}
MCConversation == {k1, k2}
Symmetry == Permutations(MCWriter) \cup Permutations(MCConversation)
=============================================================================
