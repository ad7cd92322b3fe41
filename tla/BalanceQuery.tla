---------------------------- MODULE BalanceQuery ----------------------------
(***************************************************************************)
(* Queries about one account through the supervisor: the HTTP query        *)
(* (server.go, queryForAccBalance), eth_getBalance and eth_getCode         *)
(* (supervisor.go, handleRpcRequest).  The handler of a request sends a    *)
(* query to the leader of the account's shard and polls a slot that all    *)
(* requests about the account share, until a reply has filled it; there is *)
(* no timeout.  The account is the number of times it has changed.         *)
(*                                                                         *)
(* Queries and replies travel in goroutines of their own, so in any order. *)
(***************************************************************************)
EXTENDS Integers

CONSTANTS Client,       \* concurrent requests
          Kind,         \* which kinds of query they make
          MaxQueries,   \* bound on the queries of a run
          MaxVersion    \* bound on the changes of the account

ASSUME QueryAssumption ==
    /\ Kind \subseteq {"http", "balance", "code"}
    /\ MaxQueries \in Nat
    /\ MaxVersion \in Nat

VARIABLES version,      \* the account, at the leader
          request,      \* what each client's handler is doing
          wire,         \* queries and replies on their way
          accountBalanceMap, \* the slot of the HTTP query
          AccBalanceMap,     \* the slot of eth_getBalance
          AccCodeMap,        \* the slot of eth_getCode
          halfHandled,  \* replies whose balance is stored and whose code is not
          queries,      \* queries made so far
          codeAsked     \* history: whether one of them asked for code

vars == <<version, request, wire, accountBalanceMap, AccBalanceMap, AccCodeMap,
          halfHandled, queries, codeAsked>>

Missing == [found |-> FALSE]
Holding(v) == [found |-> TRUE, value |-> v]

Idle == [pc |-> "idle"]

Init ==
    /\ version = 0
    /\ request = [c \in Client |-> Idle]
    /\ wire = {}
    /\ accountBalanceMap = Missing
    /\ AccBalanceMap = Missing
    /\ AccCodeMap = Missing
    /\ halfHandled = {}
    /\ queries = 0
    /\ codeAsked = FALSE

\* A block changes the account.
Change ==
    /\ version < MaxVersion
    /\ version' = version + 1
    /\ UNCHANGED <<request, wire, accountBalanceMap, AccBalanceMap, AccCodeMap,
                   halfHandled, queries, codeAsked>>

----------------------------------------------------------------------------
(* The handler of a request. *)

Send(c, kind) ==
    /\ queries < MaxQueries
    /\ request[c].pc # "poll"
    /\ queries' = queries + 1
    /\ wire' = wire \cup {[type |-> "query", kind |-> kind, id |-> queries']}
    /\ request' = [request EXCEPT ![c] = [pc |-> "poll", kind |-> kind, since |-> version]]
    /\ UNCHANGED <<version, halfHandled>>

\* queryForAccBalance does not touch the slot before it polls.
AskHttp(c) ==
    /\ Send(c, "http")
    /\ UNCHANGED <<accountBalanceMap, AccBalanceMap, AccCodeMap, codeAsked>>

\* eth_getBalance and eth_getCode delete the old entry first.
AskBalance(c) ==
    /\ Send(c, "balance")
    /\ AccBalanceMap' = Missing
    /\ UNCHANGED <<accountBalanceMap, AccCodeMap, codeAsked>>

AskCode(c) ==
    /\ Send(c, "code")
    /\ AccCodeMap' = Missing
    /\ codeAsked' = TRUE
    /\ UNCHANGED <<accountBalanceMap, AccBalanceMap>>

Answer(c, v) ==
    /\ request' = [request EXCEPT ![c] =
         [pc |-> "done", kind |-> @.kind, since |-> @.since, got |-> v]]
    /\ UNCHANGED <<version, wire, halfHandled, queries, codeAsked>>


PollHttp(c) ==
    /\ request[c].pc = "poll" /\ request[c].kind = "http"
    /\ accountBalanceMap.found /\ accountBalanceMap.isLatest
    /\ Answer(c, accountBalanceMap.value)
    /\ accountBalanceMap' = [accountBalanceMap EXCEPT !.isLatest = FALSE]
    /\ UNCHANGED <<AccBalanceMap, AccCodeMap>>

PollBalance(c) ==
    /\ request[c].pc = "poll" /\ request[c].kind = "balance"
    /\ AccBalanceMap.found
    /\ Answer(c, AccBalanceMap.value)
    /\ AccBalanceMap' = Missing
    /\ UNCHANGED <<accountBalanceMap, AccCodeMap>>

PollCode(c) ==
    /\ request[c].pc = "poll" /\ request[c].kind = "code"
    /\ AccCodeMap.found
    /\ Answer(c, AccCodeMap.value)
    /\ AccCodeMap' = Missing
    /\ UNCHANGED <<accountBalanceMap, AccBalanceMap>>

----------------------------------------------------------------------------
(* The leader and the supervisor's message handlers. *)

\* Mutant: the leader answers from a block that has not been executed.
ReplyAhead(m, type) ==
    /\ wire' = (wire \ {m}) \cup {[type |-> type, value |-> version + 1, id |-> m.id]}
    /\ UNCHANGED <<version, request, accountBalanceMap, AccBalanceMap, AccCodeMap,
                   halfHandled, queries, codeAsked>>

Reply(m, type) ==
    /\ wire' = (wire \ {m}) \cup {[type |-> type, value |-> version, id |-> m.id]}
    /\ UNCHANGED <<version, request, accountBalanceMap, AccBalanceMap, AccCodeMap,
                   halfHandled, queries, codeAsked>>

handleAccQuery(m) ==
    m.type = "query" /\ m.kind = "http" /\ Reply(m, "AccountBalanceReply")

handleQueryAcc(m) ==
    m.type = "query" /\ m.kind \in {"balance", "code"} /\ Reply(m, "AccountRes")

handleAccountBalReply(m) ==
    /\ m.type = "AccountBalanceReply"
    /\ wire' = wire \ {m}
    /\ accountBalanceMap' = [found |-> TRUE, value |-> m.value, isLatest |-> TRUE]
    /\ UNCHANGED <<version, request, AccBalanceMap, AccCodeMap, halfHandled, queries, codeAsked>>


\* handleResponseAcc fills the balance slot and, under another lock, the
\* code slot, whichever of the two was asked for.
handleResponseAcc(m) ==
    /\ m.type = "AccountRes"
    /\ wire' = wire \ {m}
    /\ AccBalanceMap' = Holding(m.value)
    /\ halfHandled' = halfHandled \cup {m}
    /\ UNCHANGED <<version, request, accountBalanceMap, AccCodeMap, queries, codeAsked>>

handleResponseAccCode(m) ==
    /\ AccCodeMap' = Holding(m.value)
    /\ halfHandled' = halfHandled \ {m}
    /\ UNCHANGED <<version, request, wire, accountBalanceMap, AccBalanceMap, queries, codeAsked>>

Ask(c) ==
    \/ "http" \in Kind /\ AskHttp(c)
    \/ "balance" \in Kind /\ AskBalance(c)
    \/ "code" \in Kind /\ AskCode(c)

Poll(c) == PollHttp(c) \/ PollBalance(c) \/ PollCode(c)

Deliver ==
    \/ \E m \in wire :
          \/ handleAccQuery(m)
          \/ handleQueryAcc(m)
          \/ handleAccountBalReply(m)
          \/ handleResponseAcc(m)
    \/ \E m \in halfHandled : handleResponseAccCode(m)

Next ==
    \/ Change
    \/ \E c \in Client : Ask(c) \/ Poll(c)
    \/ Deliver

\* Messages are handled and a handler that finds its slot filled goes on: the
\* goroutines keep running and the poll loops never give up.
Fairness ==
    /\ WF_vars(Deliver)
    /\ \A c \in Client : WF_vars(Poll(c))

Spec == Init /\ [][Next]_vars /\ Fairness

----------------------------------------------------------------------------
(* Properties. *)

\* Type invariant; no slot and no answer holds a state of the account that the
\* leader has not reached.
TypeOK ==
    /\ version \in 0 .. MaxVersion
    /\ queries \in 0 .. MaxQueries
    /\ \A c \in Client :
         /\ request[c].pc \in {"idle", "poll", "done"}
         /\ request[c].pc = "done" => request[c].got \in 0 .. version
    /\ \A s \in {accountBalanceMap, AccBalanceMap, AccCodeMap} :
         s.found => s.value \in 0 .. version
    /\ \A m \in wire \cup halfHandled : m.id \in 1 .. queries


=============================================================================
