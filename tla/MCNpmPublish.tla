----------------------------- MODULE MCNpmPublish -----------------------------
(* A small instance of NpmPublish: two packages, one shared file name.       *)
EXTENDS NpmPublish, TLC

CONSTANTS p1, p2, f1, f2, c1, c2, u1, u2

TwoPackages == {p1, p2}
TwoFiles == {f1, f2}
OwnAndShared == {<<p1, f1>>, <<p2, f1>>, <<p2, f2>>}
TwoContents == {c1, c2}
TwoUploads == {u1, u2}
PublishFaults == FaultKinds \ {"get", "delete", "upstream"}

Interchangeable == Permutations(Uploads) \cup Permutations(Contents)

===============================================================================
