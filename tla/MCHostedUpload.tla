---------------------------- MODULE MCHostedUpload ----------------------------
(* Small instances of HostedUpload for TLC.                                  *)
EXTENDS HostedUpload, TLC

CONSTANTS p1, p2, f1, f2, c1, c2, u1, u2, u3, d1

OnePackage == {p1}
TwoPackages == {p1, p2}
RootFile == {<<p1, f1>>}
OwnAndShared == {<<p1, f1>>, <<p2, f1>>, <<p2, f2>>}
OneFile == {f1}
TwoFiles == {f1, f2}
TwoContents == {c1, c2}
TwoUploads == {u1, u2}
ThreeUploads == {u1, u2, u3}
OneDownload == {d1}

NoFaults == {}
AllFaults == FaultKinds \ {"upstream"}

(* Uploads are interchangeable, and so are contents.                         *)
Interchangeable == Permutations(Uploads) \cup Permutations(Contents)

===============================================================================
