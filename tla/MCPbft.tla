------------------------------- MODULE MCPbft -------------------------------
(* Small instances of Pbft for TLC. *)
EXTENDS Pbft, TLC

\* The followers are interchangeable.
Followers == Permutations(Node \ {view})

\* A reachable state of the first round: every node has handled its
\* pre-prepare and its prepares and has broadcast its commit.
FirstBlock == [id |-> 1, number |-> 1]
PrepareOf(n) == [type |-> "Prepare", req |-> FirstBlock, seq |-> 1,
                 sender |-> n, again |-> FALSE]
CommitOf(n) == [type |-> "Commit", req |-> FirstBlock, seq |-> 1, sender |-> n]
PreparedInit ==
    /\ sequenceID = [n \in Node |-> 1]
    /\ pbftStage = [n \in Node |-> 3]
    /\ requestPool = [n \in Node |-> {FirstBlock}]
    /\ height2Digest = [n \in Node |-> {[seq |-> 1, req |-> FirstBlock]}]
    /\ cntPrepareConfirm = [n \in Node |-> {PrepareOf(k) : k \in Node \ {n, view}}]
    /\ cntCommitConfirm = [n \in Node |-> {}]
    /\ isCommitBordcast = [n \in Node |-> {FirstBlock}]
    /\ isReply = [n \in Node |-> {}]
    /\ chain = [n \in Node |-> << >>]
    /\ sequenceLock = TRUE
    /\ storing = FALSE
    /\ askForLock = [n \in Node |-> FALSE]
    /\ asking = [n \in Node |-> {}]
    /\ panicked = {}
    /\ proposed = 1
    /\ inbox = [n \in Node |-> {CommitOf(k) : k \in Node \ {n}}]
PreparedSpec == PreparedInit /\ [][Next]_vars

\* A reachable state of the second round: from PreparedInit every node but the
\* follower k has handled its commits and added the first block, and the
\* leader has proposed the second.
SecondBlock == [id |-> 2, number |-> 2]
SecondRoundInit(k) ==
    LET at1 == [seq |-> 1, req |-> FirstBlock]
        at2 == [seq |-> 2, req |-> SecondBlock]
        commits == [n \in Node |-> {CommitOf(j) : j \in Node \ {n}}]
        Done(done, todo) == [n \in Node |-> IF n = k THEN todo[n] ELSE done[n]]
        All(v) == [n \in Node |-> v]
    IN
    /\ sequenceID = Done(All(2), All(1))
    /\ pbftStage = [Done(All(1), All(3)) EXCEPT ![view] = 2]
    /\ requestPool = [Done(All({}), All({FirstBlock})) EXCEPT ![view] = {SecondBlock}]
    /\ height2Digest = [All({at1}) EXCEPT ![view] = {at1, at2}]
    /\ cntPrepareConfirm = [n \in Node |-> {PrepareOf(j) : j \in Node \ {n, view}}]
    /\ cntCommitConfirm = Done(commits, All({}))
    /\ isCommitBordcast = All({FirstBlock})
    /\ isReply = Done(All({FirstBlock}), All({}))
    /\ chain = Done(All(<<FirstBlock>>), All(<< >>))
    /\ sequenceLock = TRUE
    /\ storing = FALSE
    /\ askForLock = All(FALSE)
    /\ asking = All({})
    /\ panicked = {}
    /\ proposed = 2
    /\ inbox = [n \in Node |-> (IF n = k THEN commits[n] ELSE {})
                  \cup (IF n = view THEN {} ELSE
                         {[type |-> "PrePrepare", req |-> SecondBlock, seq |-> 2]})]
SecondRoundSpec == (\E k \in Node \ {view} : SecondRoundInit(k)) /\ [][Next]_vars
=============================================================================
