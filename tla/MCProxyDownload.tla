---------------------------- MODULE MCProxyDownload ----------------------------
(* Small instances of ProxyDownload for TLC.                                 *)
EXTENDS ProxyDownload, TLC

CONSTANTS p1, p2, f1, a, b, v, c1, c2, d1, d2, d3

(* PyPI: one file name under two packages.                                   *)
TwoPackages == {p1, p2}
OneFile == {f1}
SharedName == {<<p1, f1>>, <<p2, f1>>}

(* Go: b/v of module a and v of module a/b, which lead to one key.           *)
Modules == {<<a>>, <<a, b>>}
Versions == {<<v>>, <<b, v>>}
MeetingPaths == {<<<<a, b>>, <<v>>>>, <<<<a>>, <<b, v>>>>}

TwoContents == {c1, c2}
ThreeClients == {d1, d2, d3}

UpstreamOnly == {"upstream"}

Interchangeable == Permutations(Clients) \cup Permutations(Contents)

===============================================================================
