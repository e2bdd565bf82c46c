-------------------------- MODULE CryptoNoteProtocol --------------------------
(* Nodes that exchange blocks and transactions: CryptoNoteProtocolHandler, and the
   parts of NodeServer that run its connections.  Every node runs the same code.  A
   connection has a context at either end and a queue of messages in either
   direction; its handler reads one message at a time, and gives the dispatcher to
   other connections only where the code does (a ping, a yield between two blocks).

   What the core does with a block is the behaviour the module Blockchain describes in
   detail: here all blocks and transactions are valid, and blocks carry none. *)
EXTENDS Integers, FiniteSetsExt, SequencesExt

CONSTANTS
    Node, Tx,
    Block, Genesis,
    Path,          \* Path[b]: the blocks from Genesis to b
    Work,          \* Work[b]: the cumulative difficulty of b
    Network,       \* the networks to start from: see Assumptions
    IdsCount,      \* BLOCKS_IDS_SYNCHRONIZING_DEFAULT_COUNT
    BatchCount     \* BLOCKS_SYNCHRONIZING_DEFAULT_COUNT

\* A network: who opens connections to whom, where the nodes' chains end, and the bounds:
\* which blocks may be found, which transactions may come in, and how many disturbances
\* there are (connections that break, timed syncs that cross other messages).
ASSUME Assumptions ==
    /\ Network \subseteq [link: SUBSET (Node \X Node), top: [Node -> Block],
                          blocks: SUBSET Block, txs: SUBSET Tx, disturbances: Nat]
    /\ IdsCount \in Nat \ {0, 1}
    /\ BatchCount \in Nat \ {0}

VARIABLES
    net,     \* the network; only the number of disturbances left changes
    node,    \* node[n]: what n keeps beside its connections
    ctx,     \* ctx[n][p]: n's context of its connection with p
    chan     \* chan[n][p]: what n has sent to p and p has not read

vars == <<net, node, ctx, chan>>

-----------------------------------------------------------------------------
(* State *)

\* A chain's height is its number of blocks; an index is one less.
Height(b) == Len(Path[b])

Parent(b) == Path[b][Height(b) - 1]

\* The members of the protocol handler and of the core behind it.  relays: what another
\* thread has handed to the dispatcher to send to all (externalRelayNotifyToAll).
FreshNode(b) ==
    [known |-> Range(Path[b]), top |-> b, pool |-> {}, observed |-> 0,
     synchronized |-> FALSE, relays |-> <<>>]

\* CryptoNoteConnectionContext.  doing: whether the handler waits for a message, for its
\* ping or in processObjects, with the blocks left in batch.  stalled: a ghost, true
\* once request_missing_objects has returned false.
NewContext ==
    [state |-> "befor_handshake", remote |-> 0, last |-> 0, needed |-> <<>>,
     requested |-> {}, doing |-> "reading", batch |-> <<>>, stalled |-> FALSE]

NoContext == [NewContext EXCEPT !.state = "closed"]

Open(n, p) == ctx[n][p].state # "closed"

Message(command, arg) == [command |-> command, arg |-> arg]

\* Where the messages of these commands are in a queue.
On(queue, commands) == {i \in DOMAIN queue : queue[i].command \in commands}

EndOfStream == Message("EOF", <<>>)

Init ==
    /\ net \in Network
    /\ node = [n \in Node |-> FreshNode(net.top[n])]
    /\ ctx = [n \in Node |-> [p \in Node |-> NoContext]]
    /\ chan = [n \in Node |-> [p \in Node |-> <<>>]]

-----------------------------------------------------------------------------
(* The core, as the handler uses it: N is a node's record *)

\* get_payload_sync_data
SyncData(N) == [height |-> Height(N.top), top |-> N.top]

\* handle_incoming_block_blob, for a block that is not known yet: it extends the main
\* chain, replaces it, or waits beside it.
AddBlock(N, b) ==
    [N EXCEPT !.known = @ \cup {b},
              !.top = IF Parent(b) = @ \/ Work[b] > Work[@] THEN b ELSE @]

Orphaned(N, b) == b \notin N.known /\ Parent(b) \notin N.known

\* buildSparseChain: 1, 2, 4, ... blocks back from the tail, and Genesis.
SparseChain(N) ==
    LET path == Path[N.top]
        end  == Len(path)
    IN {Genesis} \cup {path[end - back + 1] : back \in {2 ^ k : k \in 0..end} \cap 1..end}

\* findBlockchainSupplement: from the last block both chains have, at most IdsCount.
Supplement(N, ids) ==
    LET path  == Path[N.top]
        start == Max({i \in DOMAIN path : path[i] \in ids})
    IN [start |-> start - 1, total |-> Len(path),
        ids |-> SubSeq(path, start, Min({start + IdsCount - 1, Len(path)}))]

\* handleGetObjects: the blocks asked for that are on the main chain.
GetObjects(N, ids) ==
    [height |-> Height(N.top),
     blocks |-> SelectSeq(ids, LAMBDA b : b \in Range(Path[N.top]))]

-----------------------------------------------------------------------------
(* The handler's helpers *)

RequestChain(N) == Message("REQUEST_CHAIN", SparseChain(N))

\* requestMissingPoolTransactions
RequestTxPool(N) == Message("REQUEST_TX_POOL", N.pool)

\* recalculateMaxObservedHeight, over the connections of n other than the one with p.
Recalculated(n, p, N) ==
    Max({Height(N.top)} \cup {ctx[n][q].remote : q \in Node \ {p}})

\* updateObservedHeight: N with the height that p reports on the connection c.
UpdateObservedHeight(n, p, N, c, height) ==
    [N EXCEPT !.observed =
        IF height > c.remote THEN Max({@, height})
        ELSE IF height # c.remote /\ c.remote = @ THEN Recalculated(n, p, N)
        ELSE @]

\* What a handler leaves behind: the node, the context, and the messages it posts.
Result(N, c, out) == [node |-> N, ctx |-> c, out |-> out]

\* Mutant: a connection that synchronises starts again.
StateAfter_Restarts(N, c, data, initial) ==
    IF data.top \in N.known THEN IF initial THEN "pool_sync_required" ELSE "normal"
    ELSE "sync_required"

\* Mutant: heights are compared, not blocks.
StateAfter_Higher(N, c, data, initial) ==
    IF c.state = "synchronizing" THEN c.state
    ELSE IF data.height <= Height(N.top)
    THEN IF initial THEN "pool_sync_required" ELSE "normal"
    ELSE "sync_required"

\* The state after process_payload_sync_data.
StateAfter(N, c, data, initial) ==
    IF c.state = "synchronizing" THEN c.state
    ELSE IF data.top \in N.known THEN IF initial THEN "pool_sync_required" ELSE "normal"
    ELSE "sync_required"

\* process_payload_sync_data
ProcessPayload(n, p, data, initial) ==
    LET N     == node[n]
        c     == ctx[n][p]
        state == StateAfter(N, c, data, initial)
    IN IF c.state = "befor_handshake" /\ ~initial THEN Result(N, c, <<>>)
       ELSE Result([UpdateObservedHeight(n, p, N, c, data.height) EXCEPT
                      !.synchronized = @ \/ state = "pool_sync_required"],
                   [c EXCEPT !.state = state, !.remote = data.height], <<>>)

\* Mutant: the highest block first.
Taken_Highest(N, needed, check) ==
    [upto |-> Len(needed),
     blocks |-> Reverse(SelectSeq(needed, LAMBDA b : ~ (check /\ b \in N.known)))]

\* The blocks at the head of needed that one request takes, had ones skipped if check.
Taken(N, needed, check) ==
    LET Wanted(i) == ~ (check /\ needed[i] \in N.known)
        Count(k)  == Cardinality({i \in 1..k : Wanted(i)})
        full      == {k \in DOMAIN needed : Count(k) = BatchCount}
        upto      == IF full = {} THEN Len(needed) ELSE Min(full)
    IN [upto |-> upto,
        blocks |-> SelectSeq(SubSeq(needed, 1, upto),
                             LAMBDA b : ~ (check /\ b \in N.known))]

\* Mutant: the pool's transactions are not asked for.
Synchronized_NoPool(N, c) ==
    Result([N EXCEPT !.synchronized = TRUE], [c EXCEPT !.state = "normal"], <<>>)

\* The end of a synchronisation, and on_connection_synchronized.
Synchronized(N, c) ==
    Result([N EXCEPT !.synchronized = TRUE], [c EXCEPT !.state = "normal"],
           <<RequestTxPool(N)>>)

\* request_missing_objects
RequestMissingObjects(N, c, check) ==
    IF c.needed # <<>>
    THEN LET taken == Taken(N, c.needed, check)
         IN Result(N,
                   [c EXCEPT !.needed = SubSeq(@, taken.upto + 1, Len(@)),
                             !.requested = @ \cup Range(taken.blocks)],
                   <<Message("REQUEST_GET_OBJECTS", taken.blocks)>>)
    ELSE IF c.last < c.remote - 1 THEN Result(N, c, <<RequestChain(N)>>)
    ELSE IF c.last = c.remote - 1 /\ c.requested = {} THEN Synchronized(N, c)
    ELSE Result(N, [c EXCEPT !.stalled = TRUE], <<>>)

Shutdown(c) == [c EXCEPT !.state = "shutdown"]

\* Mutant: what was requested is kept.
Idled_KeepsRequested(c) ==
    [c EXCEPT !.state = "idle", !.needed = <<>>, !.doing = "reading", !.batch = <<>>]

\* A connection that delivers blocks another one has delivered waits for a timed sync.
Idled(c) ==
    [c EXCEPT !.state = "idle", !.needed = <<>>, !.requested = {},
              !.doing = "reading", !.batch = <<>>]

\* processObjects up to its next yield, and from the last one to the end of
\* handle_response_get_objects.
ProcessObjects(N, c) ==
    LET b == Head(c.batch)
    IN IF c.batch = <<>>
       THEN RequestMissingObjects(N, [c EXCEPT !.doing = "reading"], TRUE)
       ELSE IF Orphaned(N, b) THEN Result(N, Shutdown(c), <<>>)
       ELSE IF b \in N.known THEN Result(N, Idled(c), <<>>)
       ELSE Result(AddBlock(N, b),
                   [c EXCEPT !.doing = "processing", !.batch = Tail(@)], <<>>)

-----------------------------------------------------------------------------
(* connectionHandler *)

\* The top of its loop: what a context that must synchronise does before it reads on.
LoopTop(r) ==
    CASE r.ctx.state = "sync_required" ->
             Result(r.node, [r.ctx EXCEPT !.state = "synchronizing"],
                    Append(r.out, RequestChain(r.node)))
      [] r.ctx.state = "pool_sync_required" ->
             Result(r.node, [r.ctx EXCEPT !.state = "normal"],
                    Append(r.out, RequestTxPool(r.node)))
      [] OTHER -> r

\* relay_notify_to_all, over the queues ch: to all but p.
RelayToAll(ch, n, p, out) ==
    [ch EXCEPT ![n] = [q \in Node |->
        IF q # p /\ ctx[n][q].state \in {"normal", "synchronizing"}
        THEN @[q] \o out ELSE @[q]]]

\* The end of the connection: what its writer had not sent yet is lost, the other end
\* reads the rest and then the end of the stream.  onConnectionClosed recalculates the
\* observed height; an outgoing connection that is still shaking hands has no handler.
Close(n, p, N, c, ch) ==
    \E sent \in 0..Len(ch[n][p]) :
        /\ node' = [node EXCEPT ![n] =
             IF <<n, p>> \in net.link /\ c.state = "befor_handshake" THEN N
             ELSE [N EXCEPT !.observed = Recalculated(n, p, N)]]
        /\ ctx' = [ctx EXCEPT ![n][p] = NoContext]
        /\ chan' = [ch EXCEPT ![p][n] = <<>>,
                              ![n][p] = IF Open(p, n)
                                        THEN Append(SubSeq(@, 1, sent), EndOfStream)
                                        ELSE <<>>]

\* A handler ends with r; ch are the queues without what it posts to p.
Finish(n, p, r, ch) ==
    LET t     == LoopTop(r)
        after == [ch EXCEPT ![n][p] = @ \o t.out]
    IN \/ /\ r.ctx.state = "shutdown"
          /\ Close(n, p, r.node, r.ctx, after)
       \/ /\ r.ctx.state # "shutdown"
          /\ node' = [node EXCEPT ![n] = r.node]
          /\ ctx' = [ctx EXCEPT ![n][p] = t.ctx]
          /\ chan' = after

\* n's handler of the connection with p has read a message of the given command.
Reads(n, p, command) ==
    /\ Open(n, p)
    /\ ctx[n][p].doing = "reading"
    /\ chan[p][n] # <<>>
    /\ Head(chan[p][n]).command = command
    /\ UNCHANGED net

Arg(n, p) == Head(chan[p][n]).arg

Rest(n, p) == [chan EXCEPT ![p][n] = Tail(@)]

-----------------------------------------------------------------------------
(* Opening connections *)

Disturb ==
    /\ net.disturbances > 0
    /\ net' = [net EXCEPT !.disturbances = @ - 1]

\* try_to_connect_and_handshake_with_new_peer and acceptLoop.
Connect(n, p) ==
    /\ <<n, p>> \in net.link
    /\ ~ Open(n, p) /\ ~ Open(p, n)
    /\ ctx' = [ctx EXCEPT ![n][p] = NewContext, ![p][n] = NewContext]
    /\ chan' = [chan EXCEPT ![n][p] = <<Message("HANDSHAKE", SyncData(node[n]))>>]
    /\ UNCHANGED <<node, net>>

\* handle_handshake, up to try_ping.
HandleHandshake(n, p) ==
    /\ Reads(n, p, "HANDSHAKE")
    /\ LET r == ProcessPayload(n, p, Arg(n, p), TRUE)
       IN /\ node' = [node EXCEPT ![n] = r.node]
          /\ ctx' = [ctx EXCEPT ![n][p] = [r.ctx EXCEPT !.doing = "ping"]]
          /\ chan' = Rest(n, p)

\* handle_handshake, from the end of try_ping.
AnswerHandshake(n, p) ==
    /\ ctx[n][p].doing = "ping"
    /\ Finish(n, p,
              Result(node[n], [ctx[n][p] EXCEPT !.doing = "reading"],
                     <<Message("HANDSHAKE_RSP", SyncData(node[n]))>>),
              chan)
    /\ UNCHANGED net

\* handshake, from the answer on, and the start of the connection's handler.
HandshakeAnswered(n, p) ==
    /\ Reads(n, p, "HANDSHAKE_RSP")
    /\ Finish(n, p, ProcessPayload(n, p, Arg(n, p), TRUE), Rest(n, p))

\* readCommand finds the stream at its end.
HandleEndOfStream(n, p) ==
    /\ Reads(n, p, "EOF")
    /\ Close(n, p, node[n], ctx[n][p], chan)

\* The network loses the connection, and what is on its way.
Break(n, p) ==
    /\ Disturb
    /\ <<n, p>> \in net.link
    /\ Open(n, p) /\ Open(p, n)
    /\ chan' = [chan EXCEPT ![n][p] = <<EndOfStream>>, ![p][n] = <<EndOfStream>>]
    /\ UNCHANGED <<node, ctx>>

-----------------------------------------------------------------------------
(* Timed synchronisation *)

Resting(n) == {p \in Node : ctx[n][p].state \in {"normal", "idle"}}

\* n's last timed sync on the connection with p is not answered yet.
Unanswered(n, p) ==
    On(chan[n][p], {"TIMED_SYNC"}) \cup On(chan[p][n], {"TIMED_SYNC_RSP"}) # {}

\* Nothing is on its way on the connections that timedSync writes to.
Quiet(n) == \A p \in Resting(n) : chan[n][p] = <<>> /\ chan[p][n] = <<>>

\* timedSync.  Bounds: answers take less than the loop's period, and only a few timed
\* syncs cross other messages.
TimedSync(n) ==
    /\ Resting(n) # {}
    /\ \A p \in Resting(n) : ~ Unanswered(n, p)
    /\ \/ Quiet(n) /\ UNCHANGED net
       \/ /\ ~ Quiet(n)
          /\ Disturb
    /\ chan' = [chan EXCEPT ![n] = [p \in Node |->
         IF p \in Resting(n)
         THEN Append(@[p], Message("TIMED_SYNC", SyncData(node[n]))) ELSE @[p]]]
    /\ UNCHANGED <<node, ctx>>

\* handle_timed_sync: the answer goes out before anything the loop's top sends.
HandleTimedSync(n, p) ==
    /\ Reads(n, p, "TIMED_SYNC")
    /\ LET r == ProcessPayload(n, p, Arg(n, p), FALSE)
       IN Finish(n, p,
                 [r EXCEPT !.out = <<Message("TIMED_SYNC_RSP", SyncData(node[n]))>>],
                 Rest(n, p))

\* handleTimedSyncResponse
HandleTimedSyncResponse(n, p) ==
    /\ Reads(n, p, "TIMED_SYNC_RSP")
    /\ Finish(n, p, ProcessPayload(n, p, Arg(n, p), FALSE), Rest(n, p))

-----------------------------------------------------------------------------
(* Serving blocks and transactions *)

\* handle_request_chain
HandleRequestChain(n, p) ==
    /\ Reads(n, p, "REQUEST_CHAIN")
    /\ Finish(n, p,
              Result(node[n], ctx[n][p],
                     <<Message("CHAIN_ENTRY", Supplement(node[n], Arg(n, p)))>>),
              Rest(n, p))

\* handle_request_get_objects
HandleRequestGetObjects(n, p) ==
    /\ Reads(n, p, "REQUEST_GET_OBJECTS")
    /\ Finish(n, p,
              Result(node[n], ctx[n][p],
                     <<Message("OBJECTS", GetObjects(node[n], Arg(n, p)))>>),
              Rest(n, p))

\* handleRequestTxPool
HandleRequestTxPool(n, p) ==
    /\ Reads(n, p, "REQUEST_TX_POOL")
    /\ LET added == node[n].pool \ Arg(n, p)
       IN Finish(n, p,
                 Result(node[n], ctx[n][p],
                        IF added = {} THEN <<>> ELSE <<Message("NEW_TRANSACTIONS", added)>>),
                 Rest(n, p))

-----------------------------------------------------------------------------
(* Synchronisation *)

\* handle_response_chain_entry
HandleResponseChainEntry(n, p) ==
    /\ Reads(n, p, "CHAIN_ENTRY")
    /\ LET N == node[n]
           c == ctx[n][p]
           arg == Arg(n, p)
           c1 == [c EXCEPT !.remote = arg.total,
                           !.last = arg.start + Len(arg.ids) - 1,
                           !.needed = @ \o SelectSeq(arg.ids, LAMBDA b : b \notin N.known)]
       IN Finish(n, p,
                 IF arg.ids = <<>> \/ arg.ids[1] \notin N.known
                 THEN Result(N, Shutdown(c), <<>>)
                 ELSE RequestMissingObjects(
                        N, IF c1.last > c1.remote THEN Shutdown(c1) ELSE c1, FALSE),
                 Rest(n, p))

\* handle_response_get_objects, up to the first yield of processObjects.
HandleResponseGetObjects(n, p) ==
    /\ Reads(n, p, "OBJECTS")
    /\ LET arg == Arg(n, p)
           c == ctx[n][p]
           N == UpdateObservedHeight(n, p, node[n], c, arg.height)
           c1 == [c EXCEPT !.remote = arg.height]
           blocks == Range(arg.blocks)
       IN Finish(n, p,
                 IF c.last > arg.height THEN Result(node[n], Shutdown(c), <<>>)
                 ELSE IF /\ Len(arg.blocks) > 1
                         /\ arg.blocks[1] \in c.requested
                         /\ arg.blocks[2] \in N.known
                 THEN Result(N, Idled(c1), <<>>)
                 ELSE IF blocks # c.requested THEN Result(N, Shutdown(c1), <<>>)
                 ELSE ProcessObjects(N, [c1 EXCEPT !.requested = {}, !.batch = arg.blocks]),
                 Rest(n, p))

\* processObjects, after a yield.
ContinueProcessing(n, p) ==
    /\ ctx[n][p].doing = "processing"
    /\ Finish(n, p, ProcessObjects(node[n], ctx[n][p]), chan)
    /\ UNCHANGED net

-----------------------------------------------------------------------------
(* New blocks and transactions *)

\* handle_notify_new_block
HandleNotifyNewBlock(n, p) ==
    /\ Reads(n, p, "NEW_BLOCK")
    /\ LET arg == Arg(n, p)
           c == [ctx[n][p] EXCEPT !.remote = arg.height]
           N == UpdateObservedHeight(n, p, node[n], ctx[n][p], arg.height)
           N1 == AddBlock(N, arg.block)
           switched == Parent(arg.block) # N.top
       IN IF c.state # "normal" \/ arg.block \in N.known
          THEN Finish(n, p, Result(N, c, <<>>), Rest(n, p))
          ELSE IF Orphaned(N, arg.block)
          THEN Finish(n, p,
                      Result(N, [c EXCEPT !.state = "synchronizing"], <<RequestChain(N)>>),
                      Rest(n, p))
          ELSE IF N1.top = arg.block
          THEN Finish(n, p,
                      Result(N1, c, IF switched THEN <<RequestTxPool(N1)>> ELSE <<>>),
                      RelayToAll(Rest(n, p), n, p, <<Head(chan[p][n])>>))
          ELSE Finish(n, p, Result(N1, c, <<>>), Rest(n, p))

\* handle_notify_new_transactions: the ones that are new to the pool are passed on.
HandleNotifyNewTransactions(n, p) ==
    /\ Reads(n, p, "NEW_TRANSACTIONS")
    /\ LET N == node[n]
           new == IF ctx[n][p].state = "normal" THEN Arg(n, p) \ N.pool ELSE {}
       IN Finish(n, p, Result([N EXCEPT !.pool = @ \cup new], ctx[n][p], <<>>),
                 IF new = {} THEN Rest(n, p)
                 ELSE RelayToAll(Rest(n, p), n, p, <<Message("NEW_TRANSACTIONS", new)>>))

\* handle_block_found, in a thread of the miner.
FindBlock(n) ==
    \E b \in net.blocks \ UNION {node[m].known : m \in Node} :
        /\ b # Genesis /\ Parent(b) = node[n].top
        /\ node' = [node EXCEPT ![n] =
             [AddBlock(@, b) EXCEPT !.relays =
                Append(@, Message("NEW_BLOCK", [block |-> b, height |-> Height(b)]))]]
        /\ UNCHANGED <<ctx, chan, net>>

\* A transaction comes in by RPC, in a thread of the RPC server.
SendTransaction(n) ==
    \E t \in net.txs \ UNION {node[m].pool : m \in Node} :
        /\ node' = [node EXCEPT ![n] =
             [@ EXCEPT !.pool = @ \cup {t},
                       !.relays = Append(@, Message("NEW_TRANSACTIONS", {t}))]]
        /\ UNCHANGED <<ctx, chan, net>>

\* The dispatcher runs what externalRelayNotifyToAll has spawned.
Relay(n) ==
    /\ node[n].relays # <<>>
    /\ chan' = RelayToAll(chan, n, n, <<Head(node[n].relays)>>)
    /\ node' = [node EXCEPT ![n].relays = Tail(@)]
    /\ UNCHANGED <<ctx, net>>

-----------------------------------------------------------------------------
\* A step of n's handler of its connection with p.
Handle(n, p) ==
    \/ HandleHandshake(n, p)
    \/ AnswerHandshake(n, p)
    \/ HandshakeAnswered(n, p)
    \/ HandleEndOfStream(n, p)
    \/ HandleTimedSync(n, p)
    \/ HandleTimedSyncResponse(n, p)
    \/ HandleRequestChain(n, p)
    \/ HandleRequestGetObjects(n, p)
    \/ HandleRequestTxPool(n, p)
    \/ HandleResponseChainEntry(n, p)
    \/ HandleResponseGetObjects(n, p)
    \/ ContinueProcessing(n, p)
    \/ HandleNotifyNewBlock(n, p)
    \/ HandleNotifyNewTransactions(n, p)

Next ==
    \/ \E n, p \in Node : Handle(n, p) \/ Connect(n, p) \/ Break(n, p)
    \/ \E n \in Node : TimedSync(n) \/ Relay(n) \/ FindBlock(n) \/ SendTransaction(n)

\* Handlers run while there is something to read, the dispatcher runs what it was given,
\* timedSyncLoop and connections_maker go round for ever.  Nobody need find a block.
Fairness ==
    /\ \A n \in Node : \A p \in Node \ {n} : WF_vars(Handle(n, p))
    /\ WF_vars(\E n, p \in Node : Connect(n, p))
    /\ \A n \in Node : WF_vars(TimedSync(n)) /\ WF_vars(Relay(n))

Spec == Init /\ [][Next]_vars /\ Fairness

-----------------------------------------------------------------------------
(* Properties *)

\* The assertions of start_sync (CryptoNoteProtocolHandler.cpp:135-137): whenever a
\* connection may start to synchronise, nothing is left of the last time.
StartsClean ==
    \A n, p \in Node : ctx[n][p].state # "synchronizing" =>
        ctx[n][p].needed = <<>> /\ ctx[n][p].requested = {}

\* A connection that synchronises waits for exactly one answer, unless it is working on
\* the last one or the connection is ending; one that does not waits for none
\* (request_missing_objects, start_sync and handle_notify_new_block never ask twice, and
\* every answer but the last is followed by a question).
OneAnswerOutstanding ==
    \A n, p \in Node :
        LET c      == ctx[n][p]
            asked  == Cardinality(On(chan[n][p], {"REQUEST_CHAIN", "REQUEST_GET_OBJECTS"}))
            coming == Cardinality(On(chan[p][n], {"CHAIN_ENTRY", "OBJECTS"}))
            ending == ~ Open(p, n) \/ On(chan[n][p] \o chan[p][n], {"EOF"}) # {}
        IN Open(n, p) /\ ~ ending /\ ~ c.stalled =>
            asked + coming = IF c.state = "synchronizing" /\ c.doing = "reading" THEN 1 ELSE 0

\* The blocks, in this order, connect to what n has.
Connected(n, blocks) ==
    \A i \in DOMAIN blocks :
        ~ Orphaned([node[n] EXCEPT !.known = @ \cup {blocks[j] : j \in 1..(i - 1)}], blocks[i])

\* processObjects never meets an orphan (CryptoNoteProtocolHandler.cpp:599): the blocks
\* of a complete answer connect to the chain, whatever the other connections have added
\* or reorganised since they were asked for.
BatchesConnect ==
    \A n, p \in Node :
        /\ Connected(n, ctx[n][p].batch)
        /\ \A i \in DOMAIN chan[p][n] :
             /\ chan[p][n][i].command = "OBJECTS"
             /\ Range(chan[p][n][i].arg.blocks) = ctx[n][p].requested
             => Connected(n, chan[p][n][i].arg.blocks)

\* request_missing_objects does not fail (CryptoNoteProtocolHandler.cpp:700-711).
FinalConditionHolds == \A n, p \in Node : ~ ctx[n][p].stalled

InSync == \A l \in net.link : Work[node[l[1]].top] = Work[node[l[2]].top]

\* Unless a connection stalls, the nodes end up with chains of the same work, whatever
\* connections are lost and however the blocks' announcements race.
Converges == []FinalConditionHolds => <>[]InSync

PoolsAgree == \A l \in net.link : node[l[1]].pool = node[l[2]].pool

\* Unless a connection stalls or idles, a transaction in one pool reaches every pool
\* (requestMissingPoolTransactions makes good what was ignored while synchronising).
TransactionsSpread ==
    [](FinalConditionHolds /\ \A n, p \in Node : ctx[n][p].state # "idle") => <>[]PoolsAgree
=============================================================================
