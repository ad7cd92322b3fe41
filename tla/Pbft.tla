-------------------------------- MODULE Pbft --------------------------------
(***************************************************************************)
(* PBFT consensus of one shard: consensus_shard/pbft_all/messageHandle.go. *)
(* The leader is one node for ever (view is set to 0 and never changed).   *)
(*                                                                         *)
(* Every message handler runs in a goroutine of its own, so messages are   *)
(* handled in any order; a message that stays in an inbox for ever is one  *)
(* that was lost (networks.TcpDial drops a message it cannot write).       *)
(* handlePrePrepare, handlePrepare and handleCommit hold pbftLock from     *)
(* their first to their last line, so each is one step.  Their waiting on  *)
(* the condition variable is a guard here: a handler that waits is one     *)
(* that has not happened yet.  (PbftWakeup models the waiting itself.)     *)
(*                                                                         *)
(* getDigest is injective on requests (SHA-256 of an encoding that holds   *)
(* the proposal time), so a request stands for its own digest.             *)
(***************************************************************************)
EXTENDS Integers, Sequences, FiniteSets

CONSTANTS Node,          \* the nodes of the shard
          view,          \* the leader
          MaxProposals   \* bound on the blocks the leader proposes

ASSUME NodeAssumption == IsFiniteSet(Node) /\ view \in Node

VARIABLES
    sequenceID,        \* next height, per node
    pbftStage,         \* 1 pre-prepare, 2 prepare, 3 commit; per node
    requestPool,       \* requests a node holds, per node
    height2Digest,     \* entries [seq, req], at most one per seq, per node
    cntPrepareConfirm, \* prepare messages counted, per node
    cntCommitConfirm,  \* commit messages counted, per node
    isCommitBordcast,  \* requests whose commit the node has broadcast
    isReply,           \* requests the node has answered
    chain,             \* blocks in the order AddBlock stored them, per node
    sequenceLock,      \* the leader's sequenceLock is held
    storing,           \* the leader is between Broadcast and Store(2)
    askForLock,        \* askForLock is held, per node
    asking,            \* commit handlers at askForLock.Lock(), per node
    panicked,          \* nodes whose process has died of a run-time panic
    proposed,          \* number of requests the leader has generated
    inbox              \* messages sent to a node and not handled yet

maps == <<requestPool, height2Digest, cntPrepareConfirm, cntCommitConfirm,
          isCommitBordcast, isReply>>
locks == <<sequenceLock, storing, askForLock, asking>>
vars == <<sequenceID, pbftStage, maps, chain, locks, panicked, proposed, inbox>>

malicious_nums == (Cardinality(Node) - 1) \div 3

\* A request is a block: "number" is its header's height, "id" the rest.
Request == [id : Nat \ {0}, number : Nat \ {0}]
Entry == [seq : Nat, req : Request]

PrePrepareMsg == [type : {"PrePrepare"}, req : Request, seq : Nat]
PrepareMsg == [type : {"Prepare"}, req : Request, seq : Nat, sender : Node,
               again : BOOLEAN]
CommitMsg == [type : {"Commit"}, req : Request, seq : Nat, sender : Node]
RequestOldMsg == [type : {"RequestOld"}, start : Nat, end : Nat, sender : Node]
SendOldMsg == [type : {"SendOld"}, start : Nat, end : Nat, old : Seq(Request)]
Message == PrePrepareMsg \cup PrepareMsg \cup CommitMsg
             \cup RequestOldMsg \cup SendOldMsg

-----------------------------------------------------------------------------
(* Helpers.                                                                *)

\* Mutant: a node is its own neighbour (getNeighborNodes does not skip itself).
BroadcastToAll(n, handled, m) ==
    [k \in Node |-> (IF k = n THEN inbox[k] \ handled ELSE inbox[k]) \cup {m}]

\* networks.Broadcast: m to every node but n; m leaves n's own inbox.
Broadcast(n, handled, m) ==
    [k \in Node |-> IF k = n THEN inbox[k] \ handled ELSE inbox[k] \cup {m}]

\* Handling the messages in "handled" without sending any.
Consume(n, handled) == [inbox EXCEPT ![n] = @ \ handled]

\* m to node k only, while n handles the messages in "handled".
SendTo(n, handled, k, m) ==
    [j \in Node |-> (IF j = n THEN inbox[j] \ handled ELSE inbox[j])
                      \cup (IF j = k THEN {m} ELSE {})]

PutHeight(entries, seq, req) ==
    {e \in entries : e.seq # seq} \cup {[seq |-> seq, req |-> req]}

\* The counters are keyed by the pointer of the decoded message, so they
\* count messages.
Count(confirms, req) == Cardinality({m \in confirms : m.req = req})

\* Mutant: the genesis block is counted as height -1.
HeightBelowGenesis(n) ==
    IF chain[n] = << >> THEN -1 ELSE chain[n][Len(chain[n])].number

\* The height of CurrentBlock; the genesis block has height 0.
Height(n) == IF chain[n] = << >> THEN 0 ELSE chain[n][Len(chain[n])].number

Running(n) == n \notin panicked

\* pbftLock can be taken: no commit handler sits on it at askForLock.Lock().
PbftLockFree(n) == asking[n] = {}

-----------------------------------------------------------------------------
Init ==
    /\ sequenceID = [n \in Node |-> 1]
    /\ pbftStage = [n \in Node |-> 1]
    /\ requestPool = [n \in Node |-> {}]
    /\ height2Digest = [n \in Node |-> {}]
    /\ cntPrepareConfirm = [n \in Node |-> {}]
    /\ cntCommitConfirm = [n \in Node |-> {}]
    /\ isCommitBordcast = [n \in Node |-> {}]
    /\ isReply = [n \in Node |-> {}]
    /\ chain = [n \in Node |-> << >>]
    /\ sequenceLock = FALSE
    /\ storing = FALSE
    /\ askForLock = [n \in Node |-> FALSE]
    /\ asking = [n \in Node |-> {}]
    /\ panicked = {}
    /\ proposed = 0
    /\ inbox = [n \in Node |-> {}]

\* Mutant: a proposal does not wait for sequenceLock.
ProposeUnlocked ==
    /\ Running(view)
    /\ ~storing
    /\ proposed < MaxProposals
    /\ LET r == [id |-> proposed + 1, number |-> Height(view) + 1]
           seq == sequenceID[view]
       IN /\ requestPool' = [requestPool EXCEPT ![view] = @ \cup {r}]
          /\ height2Digest' = [height2Digest EXCEPT
                                 ![view] = PutHeight(@, seq, r)]
          /\ inbox' = Broadcast(view, {},
                        [type |-> "PrePrepare", req |-> r, seq |-> seq])
    /\ proposed' = proposed + 1
    /\ sequenceLock' = TRUE
    /\ storing' = TRUE
    /\ UNCHANGED <<sequenceID, pbftStage, cntPrepareConfirm, cntCommitConfirm,
                   isCommitBordcast, isReply, chain, askForLock, asking,
                   panicked>>

\* One turn of the leader's loop: generate a block on top of CurrentBlock,
\* keep it and broadcast the pre-prepare.
Propose ==
    /\ Running(view)
    /\ ~sequenceLock
    /\ ~storing
    /\ proposed < MaxProposals
    /\ LET r == [id |-> proposed + 1, number |-> Height(view) + 1]
           seq == sequenceID[view]
       IN /\ requestPool' = [requestPool EXCEPT ![view] = @ \cup {r}]
          /\ height2Digest' = [height2Digest EXCEPT
                                 ![view] = PutHeight(@, seq, r)]
          /\ inbox' = Broadcast(view, {},
                        [type |-> "PrePrepare", req |-> r, seq |-> seq])
    /\ proposed' = proposed + 1
    /\ sequenceLock' = TRUE
    /\ storing' = TRUE
    /\ UNCHANGED <<sequenceID, pbftStage, cntPrepareConfirm, cntCommitConfirm,
                   isCommitBordcast, isReply, chain, askForLock, asking,
                   panicked>>

\* The last line of the loop body, after the broadcast and under no lock.
StoreStage ==
    /\ Running(view)
    /\ storing
    /\ storing' = FALSE
    /\ pbftStage' = [pbftStage EXCEPT ![view] = 2]
    /\ UNCHANGED <<sequenceID, maps, chain, sequenceLock, askForLock, asking,
                   panicked, proposed, inbox>>

\* A node keeps the request and broadcasts a prepare whatever its sequenceID.
handlePrePrepare(n, m) ==
    /\ Running(n) /\ PbftLockFree(n)
    /\ m.type = "PrePrepare"
    /\ pbftStage[n] >= 1 \/ m.seq < sequenceID[n]
    /\ requestPool' = [requestPool EXCEPT ![n] = @ \cup {m.req}]
    /\ height2Digest' = [height2Digest EXCEPT
                           ![n] = PutHeight(@, m.seq, m.req)]
    /\ pbftStage' = [pbftStage EXCEPT ![n] = @ + 1]
    /\ inbox' = Broadcast(n, {m}, [type |-> "Prepare", req |-> m.req,
                            seq |-> m.seq, sender |-> n, again |-> FALSE])
    /\ UNCHANGED <<sequenceID, cntPrepareConfirm, cntCommitConfirm,
                   isCommitBordcast, isReply, chain, locks, panicked, proposed>>

PrepareQuorum(n) == IF n = view THEN 2 * malicious_nums
                    ELSE 2 * malicious_nums - 1

\* Out of date, unknown or early prepares are dropped; the others are counted.
handlePrepare(n, m) ==
    /\ Running(n) /\ PbftLockFree(n)
    /\ m.type = "Prepare"
    /\ pbftStage[n] >= 2 \/ m.seq < sequenceID[n]
    /\ IF m.seq # sequenceID[n] \/ m.req \notin requestPool[n]
       THEN /\ inbox' = Consume(n, {m})
            /\ UNCHANGED <<cntPrepareConfirm, isCommitBordcast, pbftStage>>
       ELSE /\ cntPrepareConfirm' = [cntPrepareConfirm EXCEPT
                                       ![n] = @ \cup {m}]
            /\ IF /\ Count(cntPrepareConfirm'[n], m.req) >= PrepareQuorum(n)
                  /\ m.req \notin isCommitBordcast[n]
               THEN /\ inbox' = Broadcast(n, {m},
                                  [type |-> "Commit", req |-> m.req,
                                   seq |-> m.seq, sender |-> n])
                    /\ isCommitBordcast' = [isCommitBordcast EXCEPT
                                              ![n] = @ \cup {m.req}]
                    /\ pbftStage' = [pbftStage EXCEPT ![n] = @ + 1]
               ELSE /\ inbox' = Consume(n, {m})
                    /\ UNCHANGED <<isCommitBordcast, pbftStage>>
    /\ UNCHANGED <<sequenceID, requestPool, height2Digest, cntCommitConfirm,
                   isReply, chain, locks, panicked, proposed>>

\* Mutant: the leader does not unlock sequenceLock.
EndRoundLocked(n) ==
    /\ pbftStage' = [pbftStage EXCEPT ![n] = 1]
    /\ UNCHANGED <<sequenceLock, panicked>>

\* The end of a round in handleCommit: stage 1, and the leader's unlock.
\* Unlocking a mutex that is not locked is a fatal run-time error.
EndRound(n) ==
    /\ pbftStage' = [pbftStage EXCEPT ![n] = 1]
    /\ sequenceLock' = IF n = view THEN FALSE ELSE sequenceLock
    /\ panicked' = IF n = view /\ ~sequenceLock THEN panicked \cup {n}
                   ELSE panicked

\* Mutants: a request is answered again; one commit too few is enough.
CommitQuorumAgain(n, m) ==
    Count(cntCommitConfirm'[n], m.req) >= 2 * malicious_nums
CommitQuorumTooSmall(n, m) ==
    /\ Count(cntCommitConfirm'[n], m.req) >= 2 * malicious_nums - 1
    /\ m.req \notin isReply[n]

CommitQuorum(n, m) ==
    /\ Count(cntCommitConfirm'[n], m.req) >= 2 * malicious_nums
    /\ m.req \notin isReply[n]

\* Counts the commit; with a quorum it adds the block, or, when the node does
\* not hold the request, goes to askForLock.Lock() with pbftLock held.
handleCommit(n, m) ==
    /\ Running(n) /\ PbftLockFree(n)
    /\ m.type = "Commit"
    /\ pbftStage[n] >= 3 \/ m.seq < sequenceID[n]
    /\ inbox' = Consume(n, {m})
    /\ cntCommitConfirm' = [cntCommitConfirm EXCEPT ![n] = @ \cup {m}]
    /\ isReply' = [isReply EXCEPT
                     ![n] = IF CommitQuorum(n, m) THEN @ \cup {m.req} ELSE @]
    /\ \/ /\ ~CommitQuorum(n, m)
          /\ UNCHANGED <<sequenceID, pbftStage, requestPool, chain,
                         sequenceLock, asking, panicked>>
       \/ /\ CommitQuorum(n, m) /\ m.req \notin requestPool[n]
          /\ asking' = [asking EXCEPT ![n] = {m}]
          /\ UNCHANGED <<sequenceID, pbftStage, requestPool, chain,
                         sequenceLock, panicked>>
       \/ /\ CommitQuorum(n, m) /\ m.req \in requestPool[n]
          /\ chain' = [chain EXCEPT ![n] = Append(@, m.req)]
          /\ sequenceID' = [sequenceID EXCEPT ![n] = @ + 1]
          /\ requestPool' = [requestPool EXCEPT ![n] = @ \ {m.req}]
          /\ EndRound(n)
          /\ UNCHANGED asking
    /\ UNCHANGED <<height2Digest, cntPrepareConfirm, isCommitBordcast, storing,
                   askForLock, proposed>>

\* The rest of handleCommit for a node that is left behind: it takes
\* askForLock and asks the leader for the requests above its sequenceID.
AskForBlocks(n, m) ==
    /\ Running(n)
    /\ ~askForLock[n]
    /\ askForLock' = [askForLock EXCEPT ![n] = TRUE]
    /\ asking' = [asking EXCEPT ![n] = {}]
    /\ inbox' = SendTo(n, {}, view, [type |-> "RequestOld", sender |-> n,
                          start |-> sequenceID[n] + 1, end |-> m.seq])
    /\ EndRound(n)
    /\ UNCHANGED <<sequenceID, maps, chain, storing, proposed>>

-----------------------------------------------------------------------------
(* Catching up.  These two handlers do not take pbftLock.                  *)

\* The loop over the heights start..end stops behind k requests, at the first
\* height whose digest is unknown or whose request is no longer in the pool.
Found(seq) == \E e \in height2Digest[view] :
                 e.seq = seq /\ e.req \in requestPool[view]
RequestAt(seq) == (CHOOSE e \in height2Digest[view] : e.seq = seq).req
LoopStopsAt(start, end, k) ==
    /\ \A i \in start .. start + k - 1 : i <= end /\ Found(i)
    /\ start + k > end \/ ~Found(start + k)
OldRequests(start, k) == [i \in 1 .. k |-> RequestAt(start + i - 1)]

\* Only the leader answers; it may have deleted requests it has committed.
handleRequestOldSeq(n, m) ==
    /\ Running(n)
    /\ m.type = "RequestOld"
    /\ IF n # view
       THEN inbox' = Consume(n, {m})
       ELSE \E k \in 0 .. m.end :
              /\ LoopStopsAt(m.start, m.end, k)
              /\ inbox' = SendTo(n, {m}, m.sender,
                            [type |-> "SendOld", start |-> m.start,
                             end |-> m.end, old |-> OldRequests(m.start, k)])
    /\ UNCHANGED <<sequenceID, pbftStage, maps, chain, locks, panicked,
                   proposed>>

\* HandleforSequentialRequest compares start - end with the number of
\* requests.  When they are equal and the range is not empty, start = end and
\* there is no request: indexing the first one panics.
SequentialRequestPanics(m) == m.start - m.end = Len(m.old) /\ m.start <= m.end

\* Whatever was sent, sequenceID jumps behind the range that was asked for.
handleSendOldSeq(n, m) ==
    /\ Running(n)
    /\ m.type = "SendOld"
    /\ IF SequentialRequestPanics(m)
       THEN /\ panicked' = panicked \cup {n}
            /\ inbox' = Consume(n, {m})
            /\ UNCHANGED <<sequenceID, requestPool, height2Digest, isReply,
                           askForLock>>
       ELSE /\ LET got == {m.old[i] : i \in DOMAIN m.old}
                   seq == m.end + 1
                   heights == m.start .. m.start + Len(m.old) - 1
                   old == {[seq |-> h, req |-> m.old[h - m.start + 1]] :
                             h \in heights}
                   known == {e \in height2Digest'[n] :
                               e.seq = seq /\ e.req \in requestPool'[n]}
               IN /\ requestPool' = [requestPool EXCEPT ![n] = @ \cup got]
                  /\ isReply' = [isReply EXCEPT ![n] = @ \cup got]
                  /\ height2Digest' = [height2Digest EXCEPT
                       ![n] = {e \in @ : e.seq \notin heights} \cup old]
                  /\ sequenceID' = [sequenceID EXCEPT ![n] = seq]
                  /\ inbox' = IF known = {} THEN Consume(n, {m})
                              ELSE Broadcast(n, {m}, [type |-> "Prepare",
                                     req |-> (CHOOSE e \in known : TRUE).req,
                                     seq |-> seq, sender |-> n,
                                     again |-> TRUE])
            /\ askForLock' = [askForLock EXCEPT ![n] = FALSE]
            /\ UNCHANGED panicked
    /\ UNCHANGED <<pbftStage, cntPrepareConfirm, cntCommitConfirm,
                   isCommitBordcast, chain, sequenceLock, storing, asking,
                   proposed>>

Next ==
    \/ Propose
    \/ StoreStage
    \/ \E n \in Node : \E m \in inbox[n] : handlePrePrepare(n, m)
    \/ \E n \in Node : \E m \in inbox[n] : handlePrepare(n, m)
    \/ \E n \in Node : \E m \in inbox[n] : handleCommit(n, m)
    \/ \E n \in Node : \E m \in asking[n] : AskForBlocks(n, m)
    \/ \E n \in Node : \E m \in inbox[n] : handleRequestOldSeq(n, m)
    \/ \E n \in Node : \E m \in inbox[n] : handleSendOldSeq(n, m)

Spec == Init /\ [][Next]_vars

-----------------------------------------------------------------------------
(* Properties.                                                             *)

\* Type invariant.
TypeOK ==
    /\ sequenceID \in [Node -> Nat]
    /\ pbftStage \in [Node -> Nat]
    /\ requestPool \in [Node -> SUBSET Request]
    /\ height2Digest \in [Node -> SUBSET Entry]
    /\ cntPrepareConfirm \in [Node -> SUBSET PrepareMsg]
    /\ cntCommitConfirm \in [Node -> SUBSET CommitMsg]
    /\ isCommitBordcast \in [Node -> SUBSET Request]
    /\ isReply \in [Node -> SUBSET Request]
    /\ chain \in [Node -> Seq(Request)]
    /\ sequenceLock \in BOOLEAN
    /\ storing \in BOOLEAN
    /\ askForLock \in [Node -> BOOLEAN]
    /\ asking \in [Node -> SUBSET CommitMsg]
    /\ panicked \subseteq Node
    /\ proposed \in Nat
    /\ inbox \in [Node -> SUBSET Message]

\* The leader adds its blocks in the order of their heights without a gap, and
\* holds sequenceLock exactly while its last proposal is not on its chain: the
\* lock really admits one proposal at a time (Propose, handleCommit).
LeaderInOrder ==
    /\ \A i \in 1 .. Len(chain[view]) : chain[view][i].number = i
    /\ sequenceID[view] = Len(chain[view]) + 1
    /\ proposed = Len(chain[view]) + (IF sequenceLock THEN 1 ELSE 0)

\* The leader never unlocks a sequenceLock it does not hold, however late and
\* in whatever order the commits of earlier rounds arrive, and never has to
\* ask itself for a block (handleCommit).
LeaderSurvives == view \notin panicked /\ asking[view] = {}

\* Two blocks of one height are the same block, on whatever nodes they were
\* added and by whatever path (handleCommit).
Agreement ==
    \A n, k \in Node :
      \A i \in 1 .. Len(chain[n]), j \in 1 .. Len(chain[k]) :
        chain[n][i].number = chain[k][j].number => chain[n][i] = chain[k][j]

\* A node has a block on its chain only after 2f other nodes broadcast a commit
\* for it, although the counters count messages and not senders (set2DMap).
CommitBacked ==
    \A n \in Node : \A i \in 1 .. Len(chain[n]) :
      Cardinality({k \in Node \ {n} : chain[n][i] \in isCommitBordcast[k]})
        >= 2 * malicious_nums

\* Parts of the inductive invariant.  A request is known under its height
\* when the leader has proposed it there.
Block(k) == [id |-> k, number |-> k]
Proposed == {Block(k) : k \in 1 .. proposed}
Known(e) == e.req \in Proposed /\ e.seq = e.req.number

CommitOK(n, m) ==
    Known(m) /\ m.sender # n /\ m.req \in isCommitBordcast[m.sender]

MessageOK(n, m) ==
    /\ m.type \in {"PrePrepare", "Prepare"} => Known(m)
    /\ m.type = "Commit" => CommitOK(n, m)
    /\ m.type \in {"PrePrepare", "SendOld"} => n # view
    /\ m.type = "RequestOld" => m.sender # view
    /\ m.type = "SendOld" =>
         \A i \in DOMAIN m.old :
           Known([seq |-> m.start + i - 1, req |-> m.old[i]])

LeaderInv ==
    /\ \A i \in 1 .. Len(chain[view]) : chain[view][i] = Block(i)
    /\ sequenceID[view] = Len(chain[view]) + 1
    /\ proposed = Len(chain[view]) + (IF sequenceLock THEN 1 ELSE 0)
    /\ requestPool[view] = IF sequenceLock THEN {Block(proposed)} ELSE {}
    /\ isReply[view] = {Block(k) : k \in 1 .. Len(chain[view])}
    /\ LeaderSurvives

NetworkInv == \A n \in Node : \A m \in inbox[n] : MessageOK(n, m)

HeldInv ==
    \A n \in Node :
      /\ requestPool[n] \subseteq Proposed
      /\ \A e \in height2Digest[n] : Known(e)
      /\ \A m \in cntCommitConfirm[n] : CommitOK(n, m)

ChainInv ==
    \A n \in Node : \A i \in 1 .. Len(chain[n]) :
      chain[n][i] \in Proposed \cap isReply[n]

\* What every message, map and chain holds, from which the properties above
\* follow: each request in the shard, also one that was sent again to a node
\* that was left behind, is a block the leader proposed, under the height it
\* proposed it for; each counted commit was broadcast by another node.
Inv == TypeOK /\ LeaderInv /\ NetworkInv /\ HeldInv /\ ChainInv /\ CommitBacked


\* "node requst blocks and receive blocks from the main node": once a node has
\* handled an answer that holds every block it asked for, those blocks are on
\* its chain (handleSendOldSeq, HandleforSequentialRequest).
CatchUpAddsBlocks ==
    [][\A n \in Node : \A m \in inbox[n] \ inbox'[n] :
         m.type = "SendOld" /\ Len(m.old) = m.end - m.start + 1
           => \A i \in DOMAIN m.old :
                \E j \in DOMAIN chain'[n] : chain'[n][j] = m.old[i]]_vars

-----------------------------------------------------------------------------
\* The abstract log of the shard, implemented by the chains of the nodes.
Log == INSTANCE ShardLog
         WITH leader <- view, proposals <- proposed, delivered <- chain

\* Every step of the protocol is a step of the abstract log or changes no
\* chain: one proposal at a time, each block delivered at most once per node,
\* in order at the leader (Propose, handleCommit, handleSendOldSeq).
ImplementsLog == Log!LogSpec
=============================================================================
