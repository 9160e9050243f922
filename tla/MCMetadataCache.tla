---------------------------- MODULE MCMetadataCache ----------------------------
(* Small instances of MetadataCache for TLC.                                 *)
EXTENDS MetadataCache

CONSTANTS r1, r2, r3

TwoRequests == {r1, r2}
ThreeRequests == {r1, r2, r3}
NoFaults == {}
CacheFaults == {"get", "put", "close", "upstream", "crash"}

===============================================================================
