------------------------------ MODULE MCCliLogin ------------------------------
(* A small instance of CliLogin: two logins and two proxies.                 *)
EXTENDS CliLogin

CONSTANTS l1, l2, x1, x2, q1

TwoLogins == {l1, l2}
TwoProxies == {x1, x2}
OneRequest == {q1}

===============================================================================
