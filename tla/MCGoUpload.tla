------------------------------ MODULE MCGoUpload ------------------------------
(* A small instance of GoUpload: the modules a and a/b share version v, and  *)
(* version b/v of module a leads to the key of version v of module a/b.      *)
EXTENDS GoUpload, TLC

CONSTANTS a, b, v, c1, c2, u1, u2, u3

PathSegments == {a, b, v}
Modules == {<<a>>, <<a, b>>}
Versions == {<<v>>, <<b, v>>}
MeetingPaths == {<<<<a>>, <<v>>>>, <<<<a, b>>, <<v>>>>, <<<<a>>, <<b, v>>>>}
TwoContents == {c1, c2}
ThreeUploads == {u1, u2, u3}
AllFaults == FaultKinds \ {"upstream"}

Interchangeable == Permutations(Uploads) \cup Permutations(Contents)

===============================================================================
