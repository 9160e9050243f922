----------------------------- MODULE MCVirtualRepo -----------------------------
(* Small instances of VirtualRepo for TLC.                                   *)
EXTENDS VirtualRepo

CONSTANTS local, other, proxy, f1, f2, r1

(* A local member and a proxy of one priority, then a second proxy.          *)
ThreeMembers == {local, proxy, other}
ThreeKinds == [m \in ThreeMembers |-> IF m = local THEN "local" ELSE "proxy"]
ThreePriorities == [m \in ThreeMembers |-> IF m = other THEN 1 ELSE 2]

(* The members of pypi-virtual as cmd/seed creates them.                     *)
SeedMembers == {local, proxy}
SeedKinds == [m \in SeedMembers |-> IF m = local THEN "local" ELSE "proxy"]
SeedPriorities == [m \in SeedMembers |-> IF m = local THEN 1 ELSE 2]

TwoFiles == {f1, f2}
OneModFile == {f1}
TwoTags == {"latest", "next"}

(* The upstreams have held one file each, or have no past.                   *)
OnePast == {{<<proxy, f1>>, <<other, f2>>}}
NoPast == {{}}

OneRequest == {r1}
NoFaults == {}
MemberFaults == {"db", "get", "upstream", "save"}

===============================================================================
