----------------------------- MODULE ChainState -----------------------------
(***************************************************************************)
(* The chain of a shard and the state under it: global2.Root, the StateDB  *)
(* that all goroutines of the leader share (global3.GlobalStateDB), the    *)
(* trie database, the block store, crashes and restarts.                   *)
(*                                                                         *)
(* A state root is the set of executions it contains: the writes of one    *)
(* execution (the transactions of a block, or a request of another shard)  *)
(* are abstracted to its number.  The journal of a StateDB is the sequence *)
(* of these numbers.  A crash loses what is in memory and nothing that was *)
(* written; what the consensus does between GenerateBlock and AddBlock is  *)
(* the subject of Pbft.                                                    *)
(***************************************************************************)
EXTENDS Integers, Sequences

CONSTANTS Node, leader, proposer,
          Handler,   \* goroutines of the leader that serve other shards
          Kind,      \* the requests they serve, out of AllKinds
          None,
          MaxExec, MaxCrash   \* bounds

AllKinds == {"call", "create", "static", "log", "read"}

ASSUME NodeAssumption == leader \in Node /\ None \notin Node
ASSUME KindAssumption == Kind \subseteq AllKinds
ASSUME ProcAssumption == proposer \notin Handler

VARIABLES root,     \* global2.Root of every node
          shared,   \* global3.GlobalStateDB: a position in objects, 0 for nil
          objects,  \* the StateDBs opened since the leader started
          proc,     \* what every goroutine of the leader does
          proposal, \* the block of the open round, or None
          sent,     \* blocks that were proposed
          tries,    \* roots whose tries are in memory and on disk, per node
          store,    \* the buckets of the block store, per node
          cur,      \* CurrentBlock of every node, None before it has started
          adding,   \* the block a node is storing and the next step, or None
          up, panicked, crashes,
          executions, finished,  \* history: the number of executions, those done that
                                 \* wrote
          disturbed              \* history: executions overlapped, or one did not look
                                 \* at whether its StateDB is new, or the leader stopped

leaderVars == <<shared, objects, proc, proposal>>
vars == <<root, leaderVars, sent, tries, store, cur, adding, up, panicked, crashes,
          executions, finished, disturbed>>

Proc == Handler \cup {proposer}
Genesis == [number |-> 0, root |-> {}, exec |-> 0, parent |-> None]

\* A goroutine that does nothing.
Idle == [pc |-> "idle", kind |-> None, root |-> {}, obj |-> 0, new |-> FALSE,
         snapshot |-> 0, exec |-> 0, ok |-> FALSE]

Opened(r) == [base |-> r, journal |-> << >>, revisions |-> << >>, nextRevisionId |-> 0]
RangeOf(s) == {s[i] : i \in DOMAIN s}
Content(o) == o.base \cup RangeOf(o.journal)

Init ==
    /\ root = [n \in Node |-> {}]
    /\ shared = 0 /\ objects = << >>
    /\ proc = [p \in Proc |-> Idle]
    /\ proposal = None /\ sent = {}
    /\ tries = [n \in Node |-> [mem |-> {}, disk |-> {}]]
    /\ store = [n \in Node |-> [blocks |-> {}, headers |-> {}, newest |-> None]]
    /\ cur = [n \in Node |-> None]
    /\ adding = [n \in Node |-> None]
    /\ up = [n \in Node |-> FALSE]
    /\ panicked = FALSE /\ crashes = 0
    /\ executions = 0 /\ finished = {} /\ disturbed = FALSE
-----------------------------------------------------------------------------
(* Executions of the leader *)

Obj(p) == objects[proc[p].obj]
At(p, pc) == proc[p].pc = pc
Goto(p, pc) == proc' = [proc EXCEPT ![p].pc = pc]
chainVars == <<proposal, sent, store, cur, adding, up, panicked, crashes>>
history == <<executions, disturbed>>

\* A goroutine starts and reads global2.Root, the argument of state.New, before
\* state.New takes its lock.  A block is proposed with a transaction or "empty".
Begin(p, k) ==
    /\ cur[leader] # None /\ At(p, "idle")
    /\ IF p = proposer THEN k \in {"block", "empty"} /\ proposal = None ELSE k \in Kind
    /\ executions < MaxExec
    /\ executions' = executions + 1
    /\ disturbed' = (disturbed \/ k \in {"read", "create"} \/ \E q \in Proc : ~At(q, "idle"))
    /\ proc' = [proc EXCEPT ![p] = [Idle EXCEPT !.pc = "open", !.kind = k, !.root = root[leader],
                                               !.exec = executions + 1]]
    /\ UNCHANGED <<root, shared, objects, tries, finished, chainVars>>

\* Mutant: the StateDB is shared before it is opened.
NewUnopened(p) ==
    /\ At(p, "open")
    /\ shared' = IF shared = 0 THEN Len(objects) + 1 ELSE shared
    /\ proc' = [proc EXCEPT ![p].pc = "run"]
    /\ UNCHANGED <<root, objects, tries, history, finished, chainVars>>

\* state.New: the shared StateDB if there is one, else a new one at the root.
\* Requests for code and balances ("read") and creations at a taken address end
\* here, without a look at whether the StateDB is new.
New(p) ==
    /\ At(p, "open")
    /\ LET new == shared = 0
           o == IF new THEN Len(objects) + 1 ELSE shared
           k == proc[p].kind
       IN  /\ objects' = IF new THEN Append(objects, Opened(proc[p].root)) ELSE objects
           /\ shared' = o
           /\ \/ /\ k # "read"
                 /\ proc' = [proc EXCEPT ![p].obj = o, ![p].new = new, ![p].root = {},
                                         ![p].pc = IF k = "empty" THEN "commit" ELSE "run"]
              \/ k \in {"read", "create"} /\ proc' = [proc EXCEPT ![p] = Idle]
    /\ UNCHANGED <<root, tries, history, finished, chainVars>>

\* The snapshot and the writes of the execution.  A log of another node takes no
\* snapshot, a static call writes nothing.
Run(p) ==
    /\ At(p, "run")
    /\ LET o == Obj(p)
           k == proc[p].kind
           revision == [id |-> o.nextRevisionId, index |-> Len(o.journal)]
           s == IF k = "log" THEN o
                ELSE [o EXCEPT !.revisions = Append(@, revision), !.nextRevisionId = @ + 1]
       IN  /\ objects' = [objects EXCEPT ![proc[p].obj] =
                  IF k = "static" THEN s ELSE [s EXCEPT !.journal = Append(@, proc[p].exec)]]
           /\ proc' = [proc EXCEPT ![p].pc = "ran", ![p].snapshot = o.nextRevisionId]
    /\ UNCHANGED <<root, shared, tries, history, finished, chainVars>>

\* What the process loses when it ends.
Stop(n) ==
    /\ root' = [root EXCEPT ![n] = {}]
    /\ tries' = [tries EXCEPT ![n].mem = {}]
    /\ cur' = [cur EXCEPT ![n] = None]
    /\ adding' = [adding EXCEPT ![n] = None]
    /\ up' = [up EXCEPT ![n] = FALSE]
    /\ IF n = leader
       THEN /\ shared' = 0 /\ objects' = << >> /\ proposal' = None
            /\ proc' = [p \in Proc |-> Idle]
       ELSE UNCHANGED leaderVars
    /\ disturbed' = (disturbed \/ n = leader)
    /\ UNCHANGED <<sent, store, executions, finished>>

Panic == Stop(leader) /\ panicked' = TRUE /\ UNCHANGED crashes

\* The entries since the snapshot are copied for the other nodes.
FindsEntries(p) ==
    \/ proc[p].kind \in {"static", "log"}
    \/ proc[p].kind = "block" /\ Obj(p).journal = << >>
    \/ \E i \in DOMAIN Obj(p).revisions : Obj(p).revisions[i].id >= proc[p].snapshot

Succeed(p) ==
    /\ At(p, "ran")
    /\ FindsEntries(p)
    /\ proc' = [proc EXCEPT ![p].pc = "commit", ![p].ok = proc[p].kind # "static"]
    /\ UNCHANGED <<root, shared, objects, tries, history, finished, chainVars>>

\* RevertToSnapshot.  A creation that failed leaves the StateDB as it is.
Fail(p) ==
    /\ At(p, "ran") /\ proc[p].kind # "log"
    /\ \E i \in DOMAIN Obj(p).revisions :
          /\ Obj(p).revisions[i].id = proc[p].snapshot
          /\ objects' = [objects EXCEPT ![proc[p].obj].journal =
                            SubSeq(@, 1, Obj(p).revisions[i].index),
                         ![proc[p].obj].revisions = SubSeq(@, 1, i - 1)]
    /\ IF proc[p].kind = "create" THEN proc' = [proc EXCEPT ![p] = Idle] ELSE Goto(p, "commit")
    /\ UNCHANGED <<root, shared, tries, history, finished, chainVars>>

\* The journal was cleared since the snapshot: an index out of range, or
\* "revision id cannot be reverted".
Lost(p) ==
    /\ At(p, "ran") /\ proc[p].kind # "log"
    /\ \/ ~FindsEntries(p)
       \/ \A i \in DOMAIN Obj(p).revisions : Obj(p).revisions[i].id # proc[p].snapshot
    /\ Panic

\* A handler is done, the proposer goes on to the header.
End(p) ==
    /\ proc' = [proc EXCEPT ![p] = IF p = proposer THEN [@ EXCEPT !.pc = "header"] ELSE Idle]
    /\ finished' = IF proc[p].ok THEN finished \cup {proc[p].exec} ELSE finished

\* Only the goroutine that opened the StateDB commits it.
Commit(p) ==
    /\ At(p, "commit")
    /\ IF proc[p].new
       THEN /\ root' = [root EXCEPT ![leader] = Content(Obj(p))]
            /\ tries' = [tries EXCEPT ![leader].mem = @ \cup {Content(Obj(p))}]
            /\ objects' = [objects EXCEPT ![proc[p].obj] = Opened(Content(@))]
            /\ Goto(p, "flush")
            /\ UNCHANGED finished
       ELSE End(p) /\ UNCHANGED <<root, tries, objects>>
    /\ UNCHANGED <<shared, history, chainVars>>


\* Triedb.Commit of a root: nothing to do for one that is not in memory.
Flushed(n, r) == [tries EXCEPT ![n].disk = @ \cup ({r} \cap tries[n].mem)]

\* Triedb.Commit(global2.Root): the root as it is now.
Flush(p) ==
    /\ At(p, "flush")
    /\ tries' = Flushed(leader, root[leader])
    /\ Goto(p, "release")
    /\ UNCHANGED <<root, shared, objects, history, finished, chainVars>>

\* Mutant: the StateDB stays the shared one after its commit.
ReleaseKeeps(p) ==
    /\ At(p, "release")
    /\ End(p)
    /\ UNCHANGED <<root, shared, objects, tries, history, chainVars>>

Release(p) ==
    /\ At(p, "release")
    /\ shared' = 0
    /\ End(p)
    /\ UNCHANGED <<root, objects, tries, history, chainVars>>
-----------------------------------------------------------------------------
(* Blocks *)

restVars == <<root, objects, history, finished, store, cur, adding, up, panicked, crashes>>

\* GenerateBlock after GetUpdateStatusTrie: the header takes the root as it is now,
\* the trie of that root is written, and the shared StateDB is dropped, whoever
\* opened it.
Header ==
    /\ At(proposer, "header")
    /\ proposal' = [number |-> cur[leader].number + 1, root |-> root[leader],
                    exec |-> proc[proposer].exec, parent |-> cur[leader].exec]
    /\ Goto(proposer, "write")
    /\ UNCHANGED <<shared, sent, tries, restVars>>

WriteHeaderRoot ==
    /\ At(proposer, "write")
    /\ tries' = Flushed(leader, proposal.root)
    /\ Goto(proposer, "drop")
    /\ UNCHANGED <<shared, proposal, sent, restVars>>

Drop ==
    /\ At(proposer, "drop")
    /\ shared' = 0
    /\ sent' = sent \cup {proposal}
    /\ proc' = [proc EXCEPT ![proposer] = Idle]
    /\ UNCHANGED <<proposal, tries, restVars>>

storing == <<root, shared, objects, proc, sent, up, panicked, crashes, history, finished>>

\* AddBlock, in its order: CurrentBlock, the three transactions of Storage.AddBlock,
\* Triedb.Commit.  The trie of global2.Root always opens, so no node executes the
\* block here.  The leader adds the block of its round, a follower the block that
\* follows its last one.
AddBlock(n, b) ==
    /\ cur[n] # None /\ adding[n] = None
    /\ IF n = leader THEN b = proposal /\ At(proposer, "idle")
       ELSE b.number = cur[n].number + 1
    /\ cur' = [cur EXCEPT ![n] = b]
    /\ adding' = [adding EXCEPT ![n] = [block |-> b, step |-> "block"]]
    /\ UNCHANGED <<proposal, tries, store, storing>>

Storing(n, step) == adding[n] # None /\ adding[n].step = step

\* Mutant: the newest hash is updated before the block is put.
PutBlockLate(n) ==
    /\ Storing(n, "block")
    /\ store' = [store EXCEPT ![n].newest = adding[n].block]
    /\ adding' = [adding EXCEPT ![n].step = "header"]
    /\ UNCHANGED <<proposal, tries, cur, storing>>

PutBlock(n) ==
    /\ Storing(n, "block")
    /\ store' = [store EXCEPT ![n].blocks = @ \cup {adding[n].block}]
    /\ adding' = [adding EXCEPT ![n].step = "header"]
    /\ UNCHANGED <<proposal, tries, cur, storing>>

AddBlockHeader(n) ==
    /\ Storing(n, "header")
    /\ store' = [store EXCEPT ![n].headers = @ \cup {adding[n].block}]
    /\ adding' = [adding EXCEPT ![n].step = "newest"]
    /\ UNCHANGED <<proposal, tries, cur, storing>>

\* The genesis block becomes the current one here, any other block already is.
UpdateNewestBlock(n) ==
    /\ Storing(n, "newest")
    /\ store' = [store EXCEPT ![n].newest = adding[n].block]
    /\ cur' = [cur EXCEPT ![n] = adding[n].block]
    /\ adding' = [adding EXCEPT ![n] = IF cur[n] = None THEN None ELSE [@ EXCEPT !.step = "trie"]]
    /\ UNCHANGED <<proposal, tries, storing>>

CommitTrie(n) ==
    /\ Storing(n, "trie")
    /\ tries' = Flushed(n, root[n])
    /\ adding' = [adding EXCEPT ![n] = None]
    /\ proposal' = IF n = leader THEN None ELSE proposal
    /\ UNCHANGED <<cur, store, storing>>
-----------------------------------------------------------------------------
(* Crash and restart *)

Crash(n) ==
    /\ up[n] /\ crashes < MaxCrash
    /\ crashes' = crashes + 1
    /\ Stop(n)
    /\ UNCHANGED panicked

\* NewBlockChain reads the newest block and opens the trie of its root; it panics
\* when one of them is missing.
CanStart(n) ==
    LET b == store[n].newest
    IN  b # None => b \in store[n].blocks /\ (b.root = {} \/ b.root \in tries[n].disk)

\* Mutant: NewBlockChain always builds the chain from height 0.
StartAtGenesis(n) ==
    /\ ~up[n] /\ CanStart(n)
    /\ up' = [up EXCEPT ![n] = TRUE]
    /\ adding' = [adding EXCEPT ![n] = [block |-> Genesis, step |-> "block"]]
    /\ UNCHANGED <<root, leaderVars, sent, tries, store, cur, panicked, crashes,
                   history, finished>>

\* Without a newest block the chain is built at height 0.  global2.Root is left as
\* it is in a new process, the empty trie.
Start(n) ==
    /\ ~up[n] /\ CanStart(n)
    /\ up' = [up EXCEPT ![n] = TRUE]
    /\ IF store[n].newest = None
       THEN /\ adding' = [adding EXCEPT ![n] = [block |-> Genesis, step |-> "block"]]
            /\ UNCHANGED cur
       ELSE /\ cur' = [cur EXCEPT ![n] = store[n].newest]
            /\ UNCHANGED adding
    /\ UNCHANGED <<root, leaderVars, sent, tries, store, panicked, crashes,
                   history, finished>>

Execution(p) ==
    \/ \E k \in AllKinds \cup {"block", "empty"} : Begin(p, k)
    \/ New(p) \/ Run(p) \/ Succeed(p) \/ Fail(p) \/ Lost(p)
    \/ Commit(p) \/ Flush(p) \/ Release(p)

Next ==
    \/ \E p \in Proc : Execution(p)
    \/ Header \/ WriteHeaderRoot \/ Drop
    \/ \E n \in Node :
          \/ \E b \in sent : AddBlock(n, b)
          \/ PutBlock(n) \/ AddBlockHeader(n) \/ UpdateNewestBlock(n) \/ CommitTrie(n)
          \/ Crash(n) \/ Start(n)

Spec == Init /\ [][Next]_vars
-----------------------------------------------------------------------------
(* Properties *)

Root == SUBSET (1 .. MaxExec)
Block == [number : Nat, root : Root, exec : 0 .. MaxExec, parent : (0 .. MaxExec) \cup {None}]
StateObject == [base : Root, journal : Seq(1 .. MaxExec),
                revisions : Seq([id : Nat, index : Nat]), nextRevisionId : Nat]

\* The type invariant of the variables that model global2.Root, GlobalStateDB, the
\* goroutines, the trie database and the buckets of the block store.
TypeOK ==
    /\ root \in [Node -> Root]
    /\ objects \in Seq(StateObject) /\ shared \in 0 .. Len(objects)
    /\ \A p \in Proc :
          /\ proc[p].pc \in {"idle", "open", "run", "ran", "commit", "flush", "release",
                             "header", "write", "drop"}
          /\ proc[p].kind \in AllKinds \cup {"block", "empty", None}
          /\ proc[p].obj \in 0 .. Len(objects) /\ proc[p].root \in Root
          /\ proc[p].exec \in 0 .. executions
    /\ proposal \in Block \cup {None} /\ sent \subseteq Block
    /\ \A n \in Node :
          /\ tries[n].mem \cup tries[n].disk \subseteq Root
          /\ store[n].blocks \cup store[n].headers \subseteq Block
          /\ {store[n].newest, cur[n]} \subseteq Block \cup {None}
          /\ adding[n] # None => /\ adding[n].block \in Block
                                 /\ adding[n].step \in {"block", "header", "newest", "trie"}
    /\ up \in [Node -> BOOLEAN] /\ panicked \in BOOLEAN /\ crashes \in 0 .. MaxCrash
    /\ finished \subseteq 1 .. executions /\ disturbed \in BOOLEAN

\* The newest hash of the store never names a block or a header that is missing, in
\* whatever step of Storage.AddBlock or of the genesis block a node stops.
NewestStored ==
    \A n \in Node : store[n].newest # None =>
        store[n].newest \in store[n].blocks \cap store[n].headers


\* The chain of the leader grows by one block at a time, each on its stored
\* predecessor, across crashes: AddBlock never stores a block on another one and
\* NewBlockChain never goes back.
ChainLinked ==
    [][LET old == store[leader].newest
           new == store'[leader].newest
       IN  new # old => IF old = None THEN new = Genesis
                        ELSE new.number = old.number + 1 /\ new.parent = old.exec]_vars

\* What GetUpdateStatusTrie and the handlers of the requests of other shards executed
\* without an error is in the state under global2.Root once they are done.
StateUpdated == up[leader] => finished \subseteq root[leader]

\* That is so as long as executions come one after the other, whichever of them fail,
\* and none leaves a new StateDB open.
StateUpdatedAlone == disturbed \/ StateUpdated

\* No goroutine of the leader looks for a snapshot that is not in the journal (the
\* panic of revertToSnapshot, an index out of range in ExeTx and the handlers).
NoPanic == ~panicked

\* A follower can be restarted too.
FollowersCanStart == \A n \in Node \ {leader} : CanStart(n)

\* A leader that has a current block works on a state that contains the state of that
\* block.
ChainStateLoaded == cur[leader] # None => cur[leader].root \subseteq root[leader]
=============================================================================
