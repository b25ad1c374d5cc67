------------------------------- MODULE MCLink -------------------------------
(* Few seconds instead of minutes, and fewer handles than lwIP has.         *)
EXTENDS LinkSafe

CONSTANTS a, b

OthersAndTC == [l \in {a, b} |-> IF l = a THEN {"TS", "UC", "US"} ELSE {"TC"}]
Servers     == [l \in {a, b} |-> IF l = a THEN {"TS"} ELSE {"TS", "UC"}]
=============================================================================
