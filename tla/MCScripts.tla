----------------------------- MODULE MCScripts -----------------------------
(* Scripts that end, loop, wait, and fail; one client makes every kind of  *)
(* call, the other stops scripts.                                          *)
EXTENDS Scripts

CONSTANTS c1, c2

MCOneSlot == 1..1
MCClients == {c1, c2}
MCPrograms == {<<"op">>, <<"op", "jump">>, <<"wait", "jump">>, <<"pop", "op">>, <<"event">>, <<"halt">>}
MCCalls == [c \in MCClients |-> IF c = c1 THEN {"store", "run", "stop", "delete"} ELSE {"stop"}]
MCMaxCalls == [c \in MCClients |-> IF c = c1 THEN 6 ELSE 1]
=============================================================================
