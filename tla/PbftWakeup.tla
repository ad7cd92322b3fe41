----------------------------- MODULE PbftWakeup -----------------------------
(***************************************************************************)
(* The leader's handler goroutines at the condition variable of pbftLock   *)
(* (messageHandle.go).  handlePrepare and handleCommit wait until the      *)
(* leader has reached their stage, and wake the other waiters by           *)
(* conditionalVarpbftLock.Broadcast when they return.  Propose moves the   *)
(* leader to stage 2 by pbftStage.Store(2), without pbftLock and without a *)
(* Broadcast.                                                              *)
(*                                                                         *)
(* The other nodes are the environment here: a follower sends its prepare  *)
(* once the pre-prepare is out, and its commit once it also has the        *)
(* prepares of enough other followers.  (Pbft models the nodes in full.)   *)
(***************************************************************************)
EXTENDS Integers, FiniteSets

CONSTANTS Follower,    \* the nodes of the shard but the leader
          MaxRounds    \* bound on the rounds

ASSUME FollowerAssumption == IsFiniteSet(Follower) /\ MaxRounds \in Nat

VARIABLES
    proposed,      \* rounds proposed so far
    storing,       \* the leader is between networks.Broadcast and Store(2)
    sequenceLock,  \* held from Propose to the end of the round
    pbftStage,
    sequenceID,    \* the round the leader is in
    counted,       \* messages in cntPrepareConfirm and cntCommitConfirm
    isCommitBordcast,  \* rounds whose commit the leader has broadcast
    isReply,           \* rounds the leader has answered
    sent,          \* messages the followers have sent to the leader
    ready,         \* handlers that are to take pbftLock next
    asleep         \* handlers in conditionalVarpbftLock.Wait()

node == <<proposed, storing, sequenceLock, pbftStage, sequenceID, counted,
          isCommitBordcast, isReply>>
vars == <<node, sent, ready, asleep>>

malicious_nums == Cardinality(Follower) \div 3

\* A message is named by its kind, its round and its sender; the goroutine
\* that handles it has the same name.
Prepare(r, k) == [kind |-> "Prepare", seq |-> r, sender |-> k]
Commit(r, k) == [kind |-> "Commit", seq |-> r, sender |-> k]
Handler == [kind : {"Prepare", "Commit"}, seq : 1 .. MaxRounds,
            sender : Follower]

Init ==
    /\ proposed = 0 /\ storing = FALSE /\ sequenceLock = FALSE
    /\ pbftStage = 1 /\ sequenceID = 1
    /\ counted = {} /\ isCommitBordcast = {} /\ isReply = {}
    /\ sent = {} /\ ready = {} /\ asleep = {}

-----------------------------------------------------------------------------
(* The leader's loop, and the followers' answers.                          *)

Propose ==
    /\ ~sequenceLock /\ ~storing
    /\ proposed < MaxRounds
    /\ proposed' = proposed + 1
    /\ sequenceLock' = TRUE
    /\ storing' = TRUE
    /\ UNCHANGED <<pbftStage, sequenceID, counted, isCommitBordcast, isReply,
                   sent, ready, asleep>>

\* The leader's stage changes, its waiters stay where they are.
StoreStage ==
    /\ storing
    /\ storing' = FALSE
    /\ pbftStage' = 2
    /\ UNCHANGED <<proposed, sequenceLock, sequenceID, counted,
                   isCommitBordcast, isReply, sent, ready, asleep>>

\* A message reaches the leader: handleMessage starts its goroutine.
Arrive(m) ==
    /\ m \notin sent
    /\ sent' = sent \cup {m}
    /\ ready' = ready \cup {m}
    /\ UNCHANGED <<node, asleep>>

FollowerPrepare(r, k) == r <= proposed /\ Arrive(Prepare(r, k))

FollowerCommit(r, k) ==
    /\ Prepare(r, k) \in sent
    /\ Cardinality({j \in Follower \ {k} : Prepare(r, j) \in sent})
         >= 2 * malicious_nums - 1
    /\ Arrive(Commit(r, k))

-----------------------------------------------------------------------------
(* The handlers.                                                           *)

\* The condition of the loop around Wait().
Waits(m) == /\ pbftStage < (IF m.kind = "Prepare" THEN 2 ELSE 3)
            /\ m.seq >= sequenceID

\* Mutant: a handler that waits keeps running.
WaitStaysReady(m) ==
    /\ Waits(m)
    /\ asleep' = asleep \cup {m}
    /\ UNCHANGED <<node, sent, ready>>

Wait(m) ==
    /\ Waits(m)
    /\ ready' = ready \ {m}
    /\ asleep' = asleep \cup {m}
    /\ UNCHANGED <<node, sent>>

\* Mutant: a handler that returns without waking the waiters.
ReturnQuietly(m) ==
    /\ ready' = ready \ {m}
    /\ UNCHANGED <<asleep, sent>>


\* The deferred Broadcast.
Return(m) ==
    /\ ready' = (ready \ {m}) \cup asleep
    /\ asleep' = {}
    /\ UNCHANGED sent

Count(kind, r) == Cardinality({m \in counted' : m.kind = kind /\ m.seq = r})

\* The leader holds the request of its own round, and no other.
handlePrepare(m) ==
    /\ m.kind = "Prepare" /\ ~Waits(m)
    /\ Return(m)
    /\ IF m.seq # sequenceID
       THEN UNCHANGED <<counted, isCommitBordcast, pbftStage>>
       ELSE /\ counted' = counted \cup {m}
            /\ IF /\ Count("Prepare", m.seq) >= 2 * malicious_nums
                  /\ m.seq \notin isCommitBordcast
               THEN /\ isCommitBordcast' = isCommitBordcast \cup {m.seq}
                    /\ pbftStage' = pbftStage + 1
               ELSE UNCHANGED <<isCommitBordcast, pbftStage>>
    /\ UNCHANGED <<proposed, storing, sequenceLock, sequenceID, isReply>>

handleCommit(m) ==
    /\ m.kind = "Commit" /\ ~Waits(m)
    /\ Return(m)
    /\ counted' = counted \cup {m}
    /\ IF Count("Commit", m.seq) >= 2 * malicious_nums /\ m.seq \notin isReply
       THEN /\ isReply' = isReply \cup {m.seq}
            /\ sequenceID' = sequenceID + 1
            /\ pbftStage' = 1
            /\ sequenceLock' = FALSE
       ELSE UNCHANGED <<isReply, sequenceID, pbftStage, sequenceLock>>
    /\ UNCHANGED <<proposed, storing, isCommitBordcast>>

Handle(m) == m \in ready /\ (Wait(m) \/ handlePrepare(m) \/ handleCommit(m))

Next ==
    \/ Propose
    \/ StoreStage
    \/ \E r \in 1 .. MaxRounds, k \in Follower :
         FollowerPrepare(r, k) \/ FollowerCommit(r, k)
    \/ \E m \in ready : Wait(m) \/ handlePrepare(m) \/ handleCommit(m)

\* The Go scheduler runs every runnable goroutine, and the network delivers.
Fairness ==
    /\ WF_vars(Propose) /\ WF_vars(StoreStage)
    /\ \A r \in 1 .. MaxRounds, k \in Follower :
         WF_vars(FollowerPrepare(r, k)) /\ WF_vars(FollowerCommit(r, k))
    /\ \A m \in Handler : WF_vars(Handle(m))

Spec == Init /\ [][Next]_vars /\ Fairness

-----------------------------------------------------------------------------
(* Properties.                                                             *)

\* Type invariant.
TypeOK ==
    /\ proposed \in 0 .. MaxRounds /\ storing \in BOOLEAN
    /\ sequenceLock \in BOOLEAN
    /\ pbftStage \in 1 .. 3 /\ sequenceID \in 1 .. MaxRounds + 1
    /\ counted \subseteq Handler /\ sent \subseteq Handler
    /\ isCommitBordcast \subseteq 1 .. MaxRounds
    /\ isReply \subseteq 1 .. MaxRounds
    /\ ready \subseteq sent /\ asleep \subseteq sent \ ready

\* The only wake-up that can be lost is the one Propose does not send: a
\* handler sleeps although its condition has come true only in a round in which
\* the leader stands at stage 2 and has counted no prepare.
OnlyStoreLosesWakeups ==
    \A m \in asleep :
      \/ Waits(m)
      \/ /\ m.kind = "Prepare" /\ m.seq = sequenceID /\ pbftStage = 2
         /\ \A c \in counted : c.kind = "Prepare" => c.seq # sequenceID


\* "if the node has received 2f messages (itself included), and it haven't
\* committed, then it commit": a proposed round, whose prepares and commits
\* all reach the leader, is committed in the end.
RoundEnds == \A r \in 1 .. MaxRounds : (proposed >= r) ~> (sequenceID > r)
=============================================================================
