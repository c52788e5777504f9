--------------------------- MODULE MCAttachments ---------------------------
(* Instances of Attachments for TLC.                                       *)
EXTENDS Attachments, TLC

CONSTANTS alice, bob, f1, f2, f3, p1, p2

\* Files are interchangeable: no definition tells one id from another.
FileSymmetry == Permutations(Files)

\* So are the requests in flight.
Symmetry == Permutations(Files) \cup Permutations(Uploads)
=============================================================================
