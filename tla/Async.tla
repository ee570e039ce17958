------------------------------- MODULE Async -------------------------------
(***************************************************************************)
(* The asynchronous client of cl_async.c: senders write a request and hand  *)
(* a work item to receiver threads through g_cl_async_q; a receiver that    *)
(* sees no reply puts the item back at the end of the queue.  Items are     *)
(* recycled through a free pool, connections through the node's pool        *)
(* conn_q_asyncfd.                                                          *)
(*                                                                         *)
(* A reply arrives in two pieces: h, the beginning of its header, and t, the *)
(* rest of it and the body, so that a read of the header can time out half  *)
(* way.  What is read from then on is out of step: its length and its code  *)
(* can be anything.  Any socket call may fail.                              *)
(***************************************************************************)
EXTENDS Integers, Sequences, SequencesExt, FiniteSets, FiniteSetsExt

CONSTANTS
    Sender,         \* threads that call cl_do_async_monte
    MaxItems,       \* blocks malloc can return for a work item: 1 .. MaxItems
    MaxFds,         \* descriptors the process may have open: 1 .. MaxFds
    MaxThreads,     \* size of g_async_reciever (MAX_ASYNC_RECEIVER_THREADS, 32)
    NumThreads,     \* receiver threads asked for by citrusleaf_async_init
    Limit,          \* size_limit of citrusleaf_async_init
    ReinitThreads,  \* thread counts citrusleaf_async_reinit may be called with
    MaxCalls,       \* bound on the asynchronous calls made
    Oneshot,        \* the calls whose write policy is not CL_WRITE_RETRY
    Timed,          \* the calls whose write parameters give a timeout; the others
                    \* may have a deadline, or none (cl_w_p or timeout_ms is 0)
    SHUT,           \* the work item that is the shutdown message
    NULL

Item == 1 .. MaxItems
Fd == 1 .. MaxFds
Slot == 1 .. MaxThreads
Call == 1 .. MaxCalls

WorkItem == [call : Call, fd : Fd \cup {NULL}]
Piece == [id : Call, part : {"h", "t"}]
Connection == [due : Seq(Piece), in : Seq(Piece), torn : BOOLEAN]

ASSUME ThreadsAssumption == {MaxThreads, NumThreads} \cup ReinitThreads \subseteq Nat \ {0}
ASSUME LimitAssumption == Limit \in Nat \ {0} /\ MaxCalls \in Nat
ASSUME BoundsAssumption == MaxItems \in Nat /\ MaxFds \in Nat
ASSUME TimedAssumption == Timed \subseteq Call
ASSUME SenderAssumption == IsFiniteSet(Sender)
ASSUME NullAssumption == NULL \notin Item \cup Fd \cup WorkItem \cup Connection
                         /\ SHUT \notin Item

VARIABLES
    sx,         \* per sender: its place and the locals of cl_do_async_monte
    rx,         \* per slot of g_async_reciever: the receiver thread
    main,       \* the thread that starts, re-initialises and shuts down
    q,          \* g_cl_async_q
    freepool,   \* g_cl_workitems_freepool_q
    item,       \* per block: the work item in it, NULL when not allocated
    lost,       \* items no one refers to any more
    pool,       \* conn_q_asyncfd of the node
    conn,       \* per descriptor: the connection, NULL when not open
    refs,       \* references to the node taken by the asynchronous client
    num,        \* g_async_num_threads
    count,      \* g_thread_count
    calls,      \* calls made so far
    passed,     \* calls that had a deadline which has passed
    answer      \* per call: what its caller learnt of it

vars == <<sx, rx, main, q, freepool, item, lost, pool, conn, refs, num, count,
          calls, passed, answer>>

Init ==
    /\ sx = [s \in Sender |-> [pc |-> "idle", call |-> 0, item |-> NULL]]
    /\ rx = [t \in Slot |-> [pc |-> "none", id |-> 0, item |-> NULL,
                             buf |-> "stack", msg |-> NULL]]
    /\ main = "off"
    /\ q = <<>> /\ freepool = <<>> /\ pool = <<>> /\ lost = {}
    /\ item = [i \in Item |-> NULL] /\ conn = [f \in Fd |-> NULL]
    /\ refs = 0 /\ num = 0 /\ count = 0 /\ calls = 0 /\ passed = {}
    /\ answer = [c \in Call |-> <<>>]

\* The lowest block or descriptor not in use; which one it is makes no difference.
Lowest(used) == {k \in DOMAIN used : used[k] = NULL
                                    /\ \A j \in 1 .. (k - 1) : used[j] # NULL}

UpdS(s, l, c, i) == sx' = [sx EXCEPT ![s] = [pc |-> l, call |-> c, item |-> i]]
UpdR(t, r) == rx' = [rx EXCEPT ![t] = r]
Clamped(n) == IF n > MaxThreads THEN MaxThreads ELSE n
Created(ts) == [t \in Slot |-> IF t \in ts THEN [rx[t] EXCEPT !.pc = "start"]
                               ELSE rx[t]]

-----------------------------------------------------------------------------
\* Starting, changing and stopping the client.

\* The first call creates the queue and the threads; senders start when it has
\* returned.  Further calls return 0 and do nothing.
citrusleaf_async_init ==
    /\ main = "off"
    /\ main' = "run" /\ num' = Clamped(NumThreads) /\ rx' = Created(1 .. num')
    /\ UNCHANGED <<sx, q, freepool, item, lost, pool, conn, refs, count, calls,
                   passed, answer>>

\* More threads are created but not counted; for fewer only the count changes,
\* and surplus threads leave after their next item.  The size limit it is given
\* is the one in force.
citrusleaf_async_reinit(n) ==
    /\ main = "run"
    /\ main' = "reinit"
    /\ IF Clamped(n) > num
       THEN rx' = Created((num + 1) .. Clamped(n)) /\ UNCHANGED num
       ELSE num' = Clamped(n) /\ UNCHANGED rx
    /\ UNCHANGED <<sx, q, freepool, item, lost, pool, conn, refs, count, calls,
                   passed, answer>>

\* Mutant of ShutdownSend: one message too few.
ShutdownSendShort ==
    /\ main \in {"run", "reinit"} /\ \A s \in Sender : sx[s].pc = "idle"
    /\ main' = IF main = "run" THEN "join" ELSE "rejoin"
    /\ q' = q \o [i \in 1 .. (num - 1) |-> SHUT]
    /\ UNCHANGED <<sx, rx, freepool, item, lost, pool, conn, refs, num, count,
                   calls, passed, answer>>

\* citrusleaf_async_shutdown, when no call is under way: one message for each
\* counted thread, behind the work that is queued.
ShutdownSend ==
    /\ main \in {"run", "reinit"} /\ \A s \in Sender : sx[s].pc = "idle"
    /\ main' = IF main = "run" THEN "join" ELSE "rejoin"
    /\ q' = q \o [i \in 1 .. num |-> SHUT]
    /\ UNCHANGED <<sx, rx, freepool, item, lost, pool, conn, refs, num, count,
                   calls, passed, answer>>

\* The joins, then the queue is destroyed with what is still in it.
ShutdownJoin ==
    /\ main \in {"join", "rejoin"}
    /\ \A t \in 1 .. num : rx[t].pc = "exited"
    /\ main' = "down" /\ q' = <<>>
    /\ lost' = lost \cup (ToSet(q) \ {SHUT})
    /\ UNCHANGED <<sx, rx, freepool, item, pool, conn, refs, num, count, calls,
                   passed, answer>>

-----------------------------------------------------------------------------
\* cl_do_async_monte.

Answer(c, a) == answer' = [answer EXCEPT ![c] = Append(@, a)]

\* The queue's size is looked at once, before anything else.
SendBegin(s) ==
    /\ main \in {"run", "reinit"} /\ sx[s].pc = "idle" /\ calls < MaxCalls
    /\ calls' = calls + 1
    /\ IF Len(q) >= Limit
       THEN Answer(calls', "ASYNCQ_FULL") /\ UNCHANGED sx
       ELSE UpdS(s, "sized", calls', NULL) /\ UNCHANGED answer
    /\ UNCHANGED <<rx, main, q, freepool, item, lost, pool, conn, refs, num,
                   count, passed>>

Reset(i, c) == item' = [item EXCEPT ![i] = [call |-> c, fd |-> NULL]]

\* An item of the free pool if that has one; the pop that follows waits.
SendItem(s) ==
    /\ sx[s].pc = "sized"
    /\ \/ /\ freepool # <<>>
          /\ UpdS(s, "pop", sx[s].call, NULL) /\ UNCHANGED <<item, answer>>
       \/ /\ freepool = <<>>
          /\ \E i \in Lowest(item) :
                /\ Reset(i, sx[s].call)
                /\ UpdS(s, "try", sx[s].call, i)
          /\ UNCHANGED answer
       \/ /\ freepool = <<>>
          /\ UpdS(s, "idle", 0, NULL)
          /\ Answer(sx[s].call, "CLIENT")
          /\ UNCHANGED item
    /\ UNCHANGED <<rx, main, q, freepool, lost, pool, conn, refs, num, count,
                   calls, passed>>

SendPop(s) ==
    /\ sx[s].pc = "pop" /\ freepool # <<>>
    /\ Reset(Head(freepool), sx[s].call) /\ freepool' = Tail(freepool)
    /\ UpdS(s, "try", sx[s].call, Head(freepool))
    /\ UNCHANGED <<rx, main, q, lost, pool, conn, refs, num, count, calls,
                   passed, answer>>

NewConn == [due |-> <<>>, in |-> <<>>, torn |-> FALSE]
Pieces(c) == <<[id |-> c, part |-> "h"], [id |-> c, part |-> "t"]>>
Asked(c, k) == [c EXCEPT !.due = @ \o Pieces(k)]
Closed(f) == [conn EXCEPT ![f] = NULL]

\* The connection of a try: the first of the asynchronous pool, else a new one.
TryFd == IF pool # <<>> THEN {Head(pool)} ELSE Lowest(conn)
PoolTaken == IF pool # <<>> THEN Tail(pool) ELSE pool

\* The item takes the connection and the reference to the node to the receivers.
Accept(s, f) ==
    /\ item' = [item EXCEPT ![sx[s].item] = [@ EXCEPT !.fd = f]]
    /\ q' = Append(q, sx[s].item)
    /\ UpdS(s, "idle", 0, NULL)
    /\ Answer(sx[s].call, "ACCEPTED")

\* A try that finds a node and a connection and writes the request.
SendOk(s) ==
    /\ sx[s].pc = "try" /\ sx[s].call \notin passed
    /\ \E f \in TryFd :
        /\ conn' = [conn EXCEPT ![f] =
                        Asked(IF @ = NULL THEN NewConn ELSE @, sx[s].call)]
        /\ Accept(s, f)
    /\ pool' = PoolTaken /\ refs' = refs + 1
    /\ UNCHANGED <<rx, main, freepool, lost, num, count, calls, passed>>

\* What becomes of the call after a try that failed: out of time, or without
\* leave to retry, it fails and its item is lost.
Again(s) ==
    IF sx[s].call \notin passed \cup Oneshot THEN UNCHANGED <<sx, lost, answer>>
    ELSE /\ UpdS(s, "idle", 0, NULL)
         /\ lost' = lost \cup {sx[s].item}
         /\ Answer(sx[s].call, "TIMEOUT")

\* Mutant of SendRetry: the connection whose write failed is left open.
SendRetryOpen(s) ==
    /\ sx[s].pc = "try"
    /\ \/ UNCHANGED <<pool, conn>>
       \/ pool' = PoolTaken /\ UNCHANGED conn
    /\ Again(s)
    /\ UNCHANGED <<rx, main, q, freepool, item, refs, num, count, calls, passed>>

\* No node, no connection, or a write that fails: the connection is closed and
\* the node put.
SendRetry(s) ==
    /\ sx[s].pc = "try"
    /\ \/ UNCHANGED <<pool, conn>>
       \/ \E f \in TryFd : pool' = PoolTaken /\ conn' = Closed(f)
    /\ Again(s)
    /\ UNCHANGED <<rx, main, q, freepool, item, refs, num, count, calls, passed>>

Send(s) == SendItem(s) \/ SendPop(s) \/ SendOk(s) \/ SendRetry(s)

-----------------------------------------------------------------------------
\* async_receiver_fn.

ReceiverStart(t) ==
    /\ rx[t].pc = "start"
    /\ count' = count + 1
    /\ UpdR(t, [rx[t] EXCEPT !.pc = "pop", !.id = count + 1])
    /\ UNCHANGED <<sx, main, q, freepool, item, lost, pool, conn, refs, num,
                   calls, passed, answer>>

\* The next item; the shutdown message, known by its descriptor -1, ends the
\* thread.
ReceiverPop(t) ==
    /\ rx[t].pc = "pop" /\ q # <<>>
    /\ q' = Tail(q)
    /\ UpdR(t, IF Head(q) = SHUT THEN [rx[t] EXCEPT !.pc = "exited"]
               ELSE [rx[t] EXCEPT !.pc = "header", !.item = Head(q)])
    /\ UNCHANGED <<sx, main, freepool, item, lost, pool, conn, refs, num, count,
                   calls, passed, answer>>

ItemFd(t) == item[rx[t].item].fd
ItemCall(t) == item[rx[t].item].call
InTime(t) == ItemCall(t) \notin passed
In(t) == conn[ItemFd(t)].in
InStep(t) == In(t) # <<>> /\ In(t)[1].part = "h"
\* A whole header has come: what it says of the body to come is anything if the
\* reading is out of step.
Garbage == {[id |-> 0, body |-> b] : b \in {"empty", "stack", "heap"}}
Whole(t) == InStep(t) /\ Len(In(t)) >= 2
Consumed(t, k) ==
    [conn EXCEPT ![ItemFd(t)] = [@ EXCEPT !.in = SubSeq(In(t), k + 1, Len(In(t)))]]

\* The tail of the loop: node put, item to the free pool, rd_buf freed if it is
\* a block, and a thread over the count leaves.  rd_buf is never set back, so
\* another free of it, or a read into it, is undefined.
Leaves(t, buf) == buf # "freed" /\ rx[t].id > num
Recycle(t, buf) ==
    /\ refs' = refs - 1
    /\ freepool' = Append(freepool, rx[t].item)
    /\ count' = IF Leaves(t, buf) THEN count - 1 ELSE count
    /\ UpdR(t, [pc |-> IF buf = "freed" THEN "undefined"
                       ELSE IF Leaves(t, buf) THEN "exited" ELSE "pop",
                id |-> rx[t].id, item |-> NULL, msg |-> NULL,
                buf |-> IF buf = "heap" THEN "freed" ELSE buf])
    /\ UNCHANGED <<sx, main, q, item, lost, num, calls, passed>>

\* Mutant of Fail: the connection goes back to the pool.
FailPools(t, buf) ==
    /\ pool' = Append(pool, ItemFd(t)) /\ UNCHANGED conn
    /\ Answer(ItemCall(t), "FAIL") /\ Recycle(t, buf)

\* The connection is closed and the caller told that there was no answer.
Fail(t, buf) ==
    /\ conn' = Closed(ItemFd(t)) /\ UNCHANGED pool
    /\ Answer(ItemCall(t), "FAIL") /\ Recycle(t, buf)

\* Whose reply the caller is told of: the transaction id in it is read and not
\* acted on.
Told(t, id) == IF id = ItemCall(t) THEN "SUCCESS"
               ELSE IF conn[ItemFd(t)].torn THEN "GARBLED" ELSE "OTHER"

\* Mutant of Succeed: a reply that cannot be parsed is reported as a failure too.
SucceedTwice(t, buf, id, k) ==
    /\ answer' = [answer EXCEPT ![ItemCall(t)] =
            @ \o (IF id = 0 THEN <<"GARBLED", "FAIL">> ELSE <<Told(t, id)>>)]
    /\ conn' = Consumed(t, k) /\ pool' = Append(pool, ItemFd(t))
    /\ Recycle(t, buf)

\* The callback, with whatever code the reply holds, unless rd_buf is null.  The
\* asynchronous pool has no limit.
Succeed(t, buf, id, k) ==
    /\ IF buf = "null" THEN UNCHANGED answer ELSE Answer(ItemCall(t), Told(t, id))
    /\ conn' = Consumed(t, k) /\ pool' = Append(pool, ItemFd(t))
    /\ Recycle(t, buf)

\* A whole header is read, in step or not; one that speaks of no body ends the
\* reply.
ReadHeader(t) ==
    /\ rx[t].pc = "header" /\ InTime(t) /\ In(t) # <<>>
    /\ \/ /\ Whole(t) /\ conn' = Consumed(t, 1)
          /\ UpdR(t, [rx[t] EXCEPT !.pc = "body",
                        !.msg = [id |-> In(t)[1].id, body |-> "stack"]])
          /\ UNCHANGED <<sx, main, q, freepool, item, lost, pool, refs, num,
                         count, calls, passed, answer>>
       \/ /\ ~InStep(t)
          /\ \E k \in 0 .. Len(In(t)), g \in Garbage :
                IF g.body = "empty" THEN Succeed(t, rx[t].buf, 0, k)
                ELSE /\ conn' = Consumed(t, k)
                     /\ UpdR(t, [rx[t] EXCEPT !.pc = "body", !.msg = g])
                     /\ UNCHANGED <<sx, main, q, freepool, item, lost, pool, refs,
                                    num, count, calls, passed, answer>>

\* What has come of a header is read, and forgotten.
Torn(c) == [due |-> c.due, in |-> <<>>, torn |-> TRUE]

\* Mutant of HeaderTimeout: the item is put back even when its time is up.
HeaderTimeoutAlways(t) ==
    /\ rx[t].pc = "header" /\ (In(t) = <<>> \/ ~InTime(t))
    /\ UpdR(t, [rx[t] EXCEPT !.pc = "pop", !.item = NULL])
    /\ q' = Append(q, rx[t].item)
    /\ UNCHANGED <<sx, main, freepool, item, lost, pool, conn, refs, num, count,
                   calls, passed, answer>>

\* The read of the header times out, with nothing read or with a part of it:
\* with time left the item goes to the end of the queue all the same.
HeaderTimeout(t) ==
    /\ rx[t].pc = "header"
    /\ IF ~InTime(t) THEN Fail(t, rx[t].buf) /\ UNCHANGED q
       ELSE /\ ~Whole(t)
            /\ conn' = IF In(t) = <<>> THEN conn ELSE [conn EXCEPT ![ItemFd(t)] = Torn(@)]
            /\ q' = Append(q, rx[t].item)
            /\ UpdR(t, [rx[t] EXCEPT !.item = NULL,
                        !.pc = IF rx[t].buf = "freed" THEN "undefined" ELSE "pop"])
            /\ UNCHANGED <<sx, main, freepool, item, lost, pool, refs, num,
                           count, calls, passed, answer>>

\* The connection fails before a whole header has come.
HeaderFails(t) == rx[t].pc = "header" /\ ~Whole(t) /\ Fail(t, rx[t].buf)

\* The body, into a block of its own if it does not fit the stack buffer, else
\* wherever rd_buf points.  Its read, or the malloc, may fail.
ReadBody(t) ==
    /\ rx[t].pc = "body"
    /\ LET own == rx[t].msg.body = "heap"
           buf == IF own THEN "heap" ELSE rx[t].buf
       IN \/ /\ buf \in {"stack", "heap"} /\ In(t) # <<>> /\ InTime(t)
             /\ \E k \in IF rx[t].msg.id # 0 THEN {1} ELSE 0 .. Len(In(t)) :
                    Succeed(t, buf, rx[t].msg.id, k)
          \/ Fail(t, buf)
          \/ own /\ Fail(t, "null")

Receive(t) ==
    \/ ReceiverStart(t) \/ ReceiverPop(t) \/ ReadHeader(t) \/ HeaderFails(t)
    \/ HeaderTimeout(t) \/ ReadBody(t)

-----------------------------------------------------------------------------
\* The servers and the clock.

\* An answer arrives piece by piece, in order.
Deliver(f) ==
    /\ conn[f] # NULL /\ conn[f].due # <<>>
    /\ conn' = [conn EXCEPT ![f] = [@ EXCEPT !.due = Tail(conn[f].due),
                                   !.in = Append(conn[f].in, Head(conn[f].due))]]
    /\ UNCHANGED <<sx, rx, main, q, freepool, item, lost, pool, refs, num, count,
                   calls, passed, answer>>

\* Calls whose deadline, when they have one, is still going to be looked at.
Pending == {sx[s].call : s \in Sender} \cup {c \in Call : answer[c] = <<"ACCEPTED">>}

\* That a call has no deadline shows in this step never being taken for it: its
\* item is then put back without end as long as the server is silent.
DeadlinePasses(c) ==
    /\ c \in Pending \ passed
    /\ passed' = passed \cup {c}
    /\ UNCHANGED <<sx, rx, main, q, freepool, item, lost, pool, conn, refs, num,
                   count, calls, answer>>

\* A double free ends the process.
Alive == \A t \in Slot : rx[t].pc # "undefined"

Step ==
    \/ citrusleaf_async_init \/ ShutdownSend \/ ShutdownJoin
    \/ \E n \in ReinitThreads : citrusleaf_async_reinit(n)
    \/ \E s \in Sender : SendBegin(s) \/ Send(s)
    \/ \E t \in Slot : Receive(t)
    \/ \E f \in Fd : Deliver(f)
    \/ \E c \in Call : DeadlinePasses(c)

Next == Alive /\ Step

Spec == Init /\ [][Next]_vars

\* Threads run, socket calls time out, the joins are waited for, clocks advance:
\* which is an end only to the calls that have a deadline.
FairSpec ==
    /\ Spec /\ WF_vars(Alive /\ ShutdownJoin)
    /\ \A t \in Slot : WF_vars(Alive /\ Receive(t))
    /\ \A c \in Timed : WF_vars(Alive /\ DeadlinePasses(c))

-----------------------------------------------------------------------------
\* Properties.

SenderRecord == [pc : {"idle", "sized", "pop", "try"}, call : 0 .. MaxCalls,
                 item : Item \cup {NULL}]

Header == [id : 0 .. MaxCalls, body : {"stack", "heap"}]
Receiver == [pc : {"none", "start", "pop", "header", "body", "exited", "undefined"},
             id : Nat, item : Item \cup {NULL}, msg : Header \cup {NULL},
             buf : {"stack", "heap", "null", "freed"}]

Reports == {"ASYNCQ_FULL", "CLIENT", "TIMEOUT", "ACCEPTED", "FAIL", "SUCCESS",
            "GARBLED", "OTHER"}

\* Every variable has its type; no more receivers are counted than there is room
\* for, and the node's references are never put too often.
TypeOK ==
    /\ sx \in [Sender -> SenderRecord] /\ rx \in [Slot -> Receiver]
    /\ main \in {"off", "run", "reinit", "join", "rejoin", "down"}
    /\ q \in Seq(Item \cup {SHUT}) /\ freepool \in Seq(Item) /\ pool \in Seq(Fd)
    /\ item \in [Item -> WorkItem \cup {NULL}] /\ lost \subseteq Item
    /\ conn \in [Fd -> Connection \cup {NULL}]
    /\ refs \in Nat /\ num \in 0 .. MaxThreads /\ count \in 0 .. MaxThreads
    /\ calls \in 0 .. MaxCalls /\ passed \subseteq Call
    /\ answer \in [Call -> Seq(Reports)]

Times(seq, e) == Cardinality({k \in DOMAIN seq : seq[k] = e})
Senders(i) == {s \in Sender : sx[s].item = i}
Receivers(i) == {t \in Slot : rx[t].item = i}
InFlight == {i \in Item : item[i] # NULL /\ item[i].fd # NULL /\
                (i \in ToSet(q) \cup lost \/ Receivers(i) # {})}

\* Types apart, a work item is in exactly one place: with its sender, in the
\* work queue, with one receiver, in the free pool, or lost.  A descriptor is
\* open exactly as long as one item on its way or one pool entry has it, and the
\* node's references are those of the items on their way.  So no re-queueing,
\* error or recycling hands an item to two threads or closes a connection twice.
Accounted ==
    /\ TypeOK
    /\ \A i \in Item :
        Cardinality(Senders(i)) + Times(q, i) + Cardinality(Receivers(i))
            + Times(freepool, i) + Cardinality({i} \cap lost)
          = IF item[i] = NULL THEN 0 ELSE 1
    /\ \A f \in Fd :
        Times(pool, f) + Cardinality({i \in InFlight : item[i].fd = f})
          = IF conn[f] = NULL THEN 0 ELSE 1
    /\ refs = Cardinality(InFlight)

\* A call is answered at most once: refused, failed, or accepted and then told
\* of one success or one failure.
AnsweredOnce ==
    \A c \in Call :
        \/ Len(answer[c]) <= 1
        \/ answer[c][1] = "ACCEPTED" /\ Len(answer[c]) = 2

\* A caller is told of success by the answer to its own request, unless the
\* connection once lost a part of a header to a read that timed out.  Nothing
\* compares the transaction ids: this rests on the connections that go back to
\* the pool.
ReplyMatches == \A c \in Call : "OTHER" \notin ToSet(answer[c])

\* Every accepted call that has a deadline is answered, also behind calls without
\* one that are put back for ever, unless the client is shut down first, or a
\* receiver's buffer is dangling, or null after a malloc that failed: with that
\* one a reply is taken and nobody told.  A call without a deadline to a silent
\* server is never answered.
AcceptedAnswered ==
    \A c \in Timed :
        answer[c] = <<"ACCEPTED">> ~>
            \/ Len(answer[c]) = 2 \/ main \in {"join", "rejoin", "down"}
            \/ ~Alive \/ \E t \in Slot : rx[t].buf = "null"

\* Shutdown comes to its end, if the number of threads was never changed: work
\* that is put back behind the messages does not keep a thread.
ShutdownReturns ==
    main = "join" ~> main = "down" \/ ~Alive

=============================================================================
