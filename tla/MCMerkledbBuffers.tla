------------------------- MODULE MCMerkledbBuffers -------------------------
(* The two threads of the process, and reads enough for one thread to begin *)
(* again among what an overlap left behind.                                 *)
EXTENDS MerkledbBuffers
=============================================================================
