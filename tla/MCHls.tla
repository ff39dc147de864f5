------------------------------- MODULE MCHls -------------------------------
(* Small trees and numbers for HlsScheduler.                               *)
EXTENDS HlsScheduler

\* root 1 - (inner 2 - leaves 3, 4), leaf 5: shares that do not divide evenly.
TrioParent  == <<0, 1, 2, 2, 1>>
TrioWeight  == <<0, 2, 1, 2, 1>>
TrioLeafMtu == [c \in {3, 4, 5} |-> 3]
============================================================================
