------------------------------ MODULE MCBroker ------------------------------
(* Small instances of Broker for TLC. *)
EXTENDS Broker

CONSTANTS b1, b2

Transfer(id, sender, recipient, from, to, value, fee, type) ==
    [id |-> id, sender |-> sender, recipient |-> recipient, from |-> from,
     to |-> to, value |-> value, fee |-> fee, type |-> type]

MCTypes == <<"BKC", "Badge">>
MCFirstBrokers == <<b1>>

\* Two transfers; the first needs more than a broker has in one shard.
MCRaw == {Transfer(1, "u", "v", 1, 2, 3, 10, "BKC"),
          Transfer(2, "v", "u", 2, 1, 1, 5, "BKC")}

\* Two transfers of one sender that differ in the recipient only.
MCSameValue == {Transfer(1, "u", "v", 1, 2, 1, 10, "BKC"),
                Transfer(2, "u", "w", 1, 2, 1, 10, "BKC")}
=============================================================================
