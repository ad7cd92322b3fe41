------------------------------- MODULE MCDex -------------------------------
(* Small instances of Dex for TLC. *)
EXTENDS Dex, TLC

CONSTANTS s0, s1

\* One account in each shard; a transfer between them; a single account.
MCAddr == {"alice", "carol"}
MCAddr2Shard == [a \in MCAddr |-> IF a = "carol" THEN s1 ELSE s0]
ToCarol == {<<"alice", "carol">>}
OneAddr == {"alice"}
OneShard == [a \in Addr |-> s0]
NoTransfer == {}

BothWays == {<<"BKC", "Badge">>, <<"Badge", "BKC">>}
=============================================================================
