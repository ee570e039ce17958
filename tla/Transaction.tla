---------------------------- MODULE Transaction ----------------------------
(***************************************************************************)
(* One read, write or delete of one record: do_the_full_monte of           *)
(* citrusleaf.c, with the connection pool of each node (cl_cluster.c) and   *)
(* the timed socket calls of cf_socket.c.                                   *)
(*                                                                         *)
(* Threads share the pools.  A connection carries requests to a server and *)
(* replies back; the server may answer late, after the client gave up, or  *)
(* close the connection.  A request that reached the server is still       *)
(* carried out after the client closed its end.  Time is abstract: a       *)
(* socket call may fail at any moment (no progress), and the deadline of a *)
(* call passes at some point, after which no socket call succeeds.         *)
(***************************************************************************)
EXTENDS Integers, Sequences, SequencesExt, FiniteSets

CONSTANTS
    Tx,             \* threads that run transactions
    Node,           \* nodes cl_cluster_node_get can return
    Fd,             \* file descriptors the process may have open
    PoolLimit,      \* most descriptors kept in a node's pool (300)
    MaxCalls,       \* bound on the calls of one thread
    MaxTry,         \* tries are counted up to this bound
    Requests,       \* the calls made: <<operation, policy, deadline>>
    NULL

Op == {"read", "write", "delete"}
Policy == {"none", "ONESHOT", "RETRY"}      \* "none": cl_w_p is null

\* A read by citrusleaf_get brings write parameters of its own; those of the other
\* calls, which citrusleaf_operate makes reads too, are their caller's and may be
\* null, and then there is no deadline.
Callable ==
    {r \in Op \X Policy \X {"none", "pending"} :
        r[2] = "none" => r[3] = "none"}

Call == Tx \X (1 .. MaxCalls)
Body == {"empty", "stack", "heap"}          \* where the reply's body fits

\* What is on a connection: a request has the thread, call and try it is of, and
\* its reply has them too.
Ident == Tx \X (1 .. MaxCalls) \X (1 .. MaxTry)
Request == [id : Ident, op : Op]
Message == [id : Ident, code : {"OK", "NOTFOUND"}, body : Body]
Connection == [node : Node, reqs : Seq(Request), reps : Seq(Message), open : BOOLEAN]

ASSUME RequestsAssumption == Requests \subseteq Callable
ASSUME PoolAssumption == PoolLimit \in Nat \ {0}
ASSUME CallsAssumption == MaxCalls \in Nat
ASSUME TryAssumption == MaxTry \in Nat /\ MaxTry >= 2
ASSUME FdAssumption == NULL \notin Fd /\ NULL \notin Node /\ NULL \notin Connection

VARIABLES
    th,         \* per thread: its place and the locals of do_the_full_monte
    pool,       \* per node: conn_q
    conn,       \* per descriptor: the connection, NULL when not open
    orphans,    \* requests in the hands of a server whose connection is gone
    exists,     \* the servers' record: is it there?
    applied     \* how often each call's write or delete took effect

vars == <<th, pool, conn, orphans, exists, applied>>

\* The locals of do_the_full_monte as the call begins.
Locals(pc, op, pol, deadline, rv, call) ==
    [pc |-> pc, op |-> op, pol |-> pol, deadline |-> deadline, try |-> 0, sent |-> 0,
     node |-> NULL, fd |-> NULL, buf |-> "stack", msg |-> NULL, rv |-> rv, call |-> call]

Init ==
    /\ th = [x \in Tx |-> Locals("idle", "read", "none", "none", NULL, 0)]
    /\ pool = [n \in Node |-> <<>>]
    /\ conn = [f \in Fd |-> NULL]
    /\ orphans = {} /\ exists \in BOOLEAN
    /\ applied = [c \in Call |-> 0]

Count(k) == IF k < MaxTry THEN k + 1 ELSE k
Id(x) == <<x, th[x].call, th[x].try>>
InTime(x) == th[x].deadline # "passed"

-----------------------------------------------------------------------------
\* The call, from the argument checks to the first try.

Begin(x) ==
    /\ th[x].pc \in {"idle", "done"} /\ th[x].call < MaxCalls
    /\ \E r \in Requests :
        th' = [th EXCEPT ![x] = Locals("get", r[1], r[2], r[3], "FAIL", th[x].call + 1)]
    /\ UNCHANGED <<pool, conn, orphans, exists, applied>>

\* A try starts with a node: the partition's, any other, or none.
NodeGet(x) ==
    /\ th[x].pc = "get"
    /\ \E n \in Node \cup {NULL} :
        th' = [th EXCEPT ![x].try = Count(@), ![x].node = n,
                         ![x].pc = IF n = NULL THEN "retry" ELSE "fd"]
    /\ UNCHANGED <<pool, conn, orphans, exists, applied>>

\* cl_cluster_node_fd_create, when the connect succeeds.
NewConn(n) == [node |-> n, reqs |-> <<>>, reps |-> <<>>, open |-> TRUE]

\* cl_cluster_node_fd_get: a pooled connection if there is one, else a new one,
\* which may fail.
cl_cluster_node_fd_get(x) ==
    /\ th[x].pc = "fd"
    /\ LET n == th[x].node
       IN IF pool[n] # <<>>
          THEN /\ th' = [th EXCEPT ![x].fd = Head(pool[n]), ![x].pc = "write"]
               /\ pool' = [pool EXCEPT ![n] = Tail(@)]
               /\ UNCHANGED conn
          ELSE /\ UNCHANGED pool
               /\ \/ th' = [th EXCEPT ![x].pc = "retry"] /\ UNCHANGED conn
                  \/ \E f \in Fd :
                        /\ conn[f] = NULL
                        /\ conn' = [conn EXCEPT ![f] = NewConn(n)]
                        /\ th' = [th EXCEPT ![x].fd = f, ![x].pc = "write"]
    /\ UNCHANGED <<orphans, exists, applied>>

\* cf_socket_write_timeout can succeed, cf_socket_read_timeout has a reply.
CanWrite(x) == InTime(x) /\ conn[th[x].fd].open
CanRead(x) == InTime(x) /\ conn[th[x].fd].reps # <<>>

\* A request written in full is on its way; a write that fails left an
\* incomplete one, which no server acts on.
SendRequest(x) ==
    /\ th[x].pc = "write"
    /\ \/ /\ CanWrite(x)
          /\ conn' = [conn EXCEPT ![th[x].fd].reqs =
                        Append(@, [id |-> Id(x), op |-> th[x].op])]
          /\ th' = [th EXCEPT ![x].pc = "header", ![x].sent = Count(@)]
       \/ UNCHANGED conn /\ th' = [th EXCEPT ![x].pc = "retry"]
    /\ UNCHANGED <<pool, orphans, exists, applied>>

\* The header says how long the body is; a body that does not fit the stack
\* buffer gets a buffer from malloc.
ReadHeader(x) ==
    /\ th[x].pc = "header"
    /\ LET reps == conn[th[x].fd].reps
       IN \/ /\ CanRead(x)
             /\ th' = [th EXCEPT ![x].msg = Head(reps),
                                 ![x].pc = IF Head(reps).body = "empty" THEN "ok" ELSE "body",
                                 ![x].buf = IF Head(reps).body = "heap" THEN "heap" ELSE @]
             /\ conn' = IF Head(reps).body = "empty"
                        THEN [conn EXCEPT ![th[x].fd].reps = Tail(@)]
                        ELSE conn
          \/ UNCHANGED conn /\ th' = [th EXCEPT ![x].pc = "retry"]
    /\ UNCHANGED <<pool, orphans, exists, applied>>

\* What close does to a connection: replies in flight are lost, requests the
\* server has are not.
Closed(f) == conn' = [conn EXCEPT ![f] = NULL]
LeftBehind(f) == orphans' = orphans \cup ToSet(conn[f].reqs)

\* malloc fails: straight to Error, which closes the connection.
MallocFails(x) ==
    /\ th[x].pc = "body" /\ th[x].buf = "heap"
    /\ th' = [th EXCEPT ![x].pc = "done", ![x].rv = "NOMEM", ![x].fd = NULL, ![x].msg = NULL]
    /\ Closed(th[x].fd) /\ LeftBehind(th[x].fd)
    /\ UNCHANGED <<pool, exists, applied>>

\* A read that fails drops the buffer, and rd_buf stays null from then on
\* unless a body for the heap arrives; a read into null fails.
ReadBody(x) ==
    /\ th[x].pc = "body"
    /\ \/ /\ CanRead(x) /\ th[x].buf # "null"
          /\ conn' = [conn EXCEPT ![th[x].fd].reps = Tail(@)]
          /\ th' = [th EXCEPT ![x].pc = "ok"]
       \/ UNCHANGED conn /\ th' = [th EXCEPT ![x].pc = "retry", ![x].buf = "null"]
    /\ UNCHANGED <<pool, orphans, exists, applied>>

\* What follows a failed try that left nothing open.
Onward(x, again) ==
    th' = [th EXCEPT ![x].fd = NULL, ![x].node = NULL, ![x].msg = NULL,
                     ![x].rv = IF InTime(x) THEN @ ELSE "FAIL_TIMEOUT",
                     ![x].pc = IF again THEN "get" ELSE "done"]

GivenUp(x) ==
    IF th[x].fd = NULL THEN UNCHANGED <<conn, orphans>>
    ELSE Closed(th[x].fd) /\ LeftBehind(th[x].fd)

MayRetry(x) == th[x].pol \in {"none", "RETRY"}

\* Mutant of Retry: the connection is not closed.
RetryLeaks(x) ==
    /\ th[x].pc = "retry"
    /\ Onward(x, MayRetry(x) /\ InTime(x))
    /\ UNCHANGED <<pool, conn, orphans, exists, applied>>

\* Mutant of Retry: the request is sent again on the connection that failed.
RetryResends(x) ==
    /\ th[x].pc = "retry"
    /\ IF th[x].fd # NULL /\ MayRetry(x) /\ InTime(x)
       THEN /\ th' = [th EXCEPT ![x].pc = "write", ![x].msg = NULL, ![x].try = Count(@)]
            /\ UNCHANGED <<conn, orphans>>
       ELSE Onward(x, MayRetry(x) /\ InTime(x)) /\ GivenUp(x)
    /\ UNCHANGED <<pool, exists, applied>>

\* Mutant of Retry: the policy is not looked at.
RetryAnyPolicy(x) ==
    /\ th[x].pc = "retry"
    /\ Onward(x, InTime(x)) /\ GivenUp(x)
    /\ UNCHANGED <<pool, exists, applied>>

\* Mutant of Retry: the deadline is not looked at.
RetryAnyTime(x) ==
    /\ th[x].pc = "retry"
    /\ Onward(x, MayRetry(x)) /\ GivenUp(x)
    /\ UNCHANGED <<pool, exists, applied>>

\* Close the connection, put the node, and go round again unless time is up or
\* the policy forbids it.
Retry(x) ==
    /\ th[x].pc = "retry"
    /\ Onward(x, MayRetry(x) /\ InTime(x)) /\ GivenUp(x)
    /\ UNCHANGED <<pool, exists, applied>>

\* The result of a call whose reply was read: a delete that was retried reports
\* "not found" as success.
Result(x) ==
    CASE th[x].buf = "null" -> "FAIL_UNKNOWN"
      [] th[x].buf # "null" /\ th[x].op = "delete" /\ th[x].try > 1 -> "OK"
      [] OTHER -> th[x].msg.code

\* The connection goes back to its pool, or is closed when the pool is full.
cl_cluster_node_fd_put(n, f) ==
    IF Len(pool[n]) < PoolLimit
    THEN pool' = [pool EXCEPT ![n] = Append(@, f)] /\ UNCHANGED <<conn, orphans>>
    ELSE UNCHANGED pool /\ Closed(f) /\ LeftBehind(f)

Ok(x) ==
    /\ th[x].pc = "ok"
    /\ cl_cluster_node_fd_put(th[x].node, th[x].fd)
    /\ th' = [th EXCEPT ![x].pc = "done", ![x].rv = Result(x), ![x].fd = NULL,
                        ![x].node = NULL, ![x].msg = NULL]
    /\ UNCHANGED <<exists, applied>>

Step(x) ==
    \/ NodeGet(x) \/ cl_cluster_node_fd_get(x) \/ SendRequest(x)
    \/ ReadHeader(x) \/ MallocFails(x) \/ ReadBody(x) \/ Retry(x) \/ Ok(x)

DeadlinePasses(x) ==
    /\ th[x].pc \notin {"idle", "done"} /\ th[x].deadline = "pending"
    /\ th' = [th EXCEPT ![x].deadline = "passed"]
    /\ UNCHANGED <<pool, conn, orphans, exists, applied>>

-----------------------------------------------------------------------------
\* The servers.

Effect(r) ==
    LET c == <<r.id[1], r.id[2]>>
    IN /\ exists' = CASE r.op = "write" -> TRUE [] r.op = "delete" -> FALSE
                      [] r.op = "read" -> exists
       /\ applied' = IF r.op = "write" \/ (r.op = "delete" /\ exists)
                     THEN [applied EXCEPT ![c] = Count(@)] ELSE applied

Reply(r) ==
    IF r.op # "write" /\ ~exists
    THEN {[id |-> r.id, code |-> "NOTFOUND", body |-> "empty"]}
    ELSE {[id |-> r.id, code |-> "OK", body |-> b] :
            b \in CASE r.op = "read" -> {"stack", "heap"}
                    [] r.op = "write" -> {"empty", "stack"}
                    [] r.op = "delete" -> {"empty"}}

Serve(f) ==
    /\ conn[f] # NULL /\ conn[f].open /\ conn[f].reqs # <<>>
    /\ Effect(Head(conn[f].reqs))
    /\ \E rep \in Reply(Head(conn[f].reqs)) :
        conn' = [conn EXCEPT ![f].reqs = Tail(@), ![f].reps = Append(@, rep)]
    /\ UNCHANGED <<th, pool, orphans>>

ServeOrphan(r) ==
    /\ Effect(r)
    /\ orphans' = orphans \ {r}
    /\ UNCHANGED <<th, pool, conn>>

\* The server closes its end; what it was sent it may still carry out, or not.
Hangup(f) ==
    /\ conn[f] # NULL /\ conn[f].open
    /\ conn' = [conn EXCEPT ![f].open = FALSE, ![f].reqs = <<>>]
    /\ \/ LeftBehind(f)
       \/ UNCHANGED orphans
    /\ UNCHANGED <<th, pool, exists, applied>>

Next ==
    \/ \E x \in Tx : Begin(x) \/ Step(x) \/ DeadlinePasses(x)
    \/ \E f \in Fd : Serve(f) \/ Hangup(f)
    \/ \E r \in orphans : ServeOrphan(r)

Spec == Init /\ [][Next]_vars

\* A thread inside the call keeps running: its socket calls return, at the
\* latest when they time out.  Clocks advance.
FairSpec ==
    Spec /\ \A x \in Tx : WF_vars(Step(x)) /\ WF_vars(DeadlinePasses(x))

-----------------------------------------------------------------------------
\* Properties.

\* Every variable has its type; a thread past fd_get holds a descriptor.
TypeOK ==
    /\ \A x \in Tx :
        LET s == th[x] IN
        /\ s.pc \in {"idle", "get", "fd", "write", "header", "body", "retry",
                     "ok", "done"}
        /\ s.op \in Op /\ s.pol \in Policy
        /\ s.deadline \in {"none", "pending", "passed"}
        /\ s.try \in 0 .. MaxTry /\ s.sent \in 0 .. s.try
        /\ s.node \in Node \cup {NULL} /\ s.fd \in Fd \cup {NULL}
        /\ s.buf \in {"stack", "heap", "null"} /\ s.call \in 0 .. MaxCalls
        /\ s.pc \in {"write", "header", "body", "ok"} => s.fd \in Fd
    /\ pool \in [Node -> Seq(Fd)]
    /\ conn \in [Fd -> Connection \cup {NULL}] /\ orphans \subseteq Request
    /\ exists \in BOOLEAN /\ applied \in [Call -> 0 .. MaxTry]

Held(f) == {x \in Tx : th[x].fd = f}
Pooled(f) == {k \in Node \X (1 .. PoolLimit) :
                k[2] \in DOMAIN pool[k[1]] /\ pool[k[1]][k[2]] = f}

\* A descriptor is open exactly as long as one thread or one pool entry has it,
\* and that thread or pool is of the node it is connected to: nothing is
\* leaked, closed twice, or handed to two threads, on any path through the
\* retries.
FdsAccounted ==
    \A f \in Fd :
        /\ Cardinality(Held(f)) + Cardinality(Pooled(f)) =
            IF conn[f] = NULL THEN 0 ELSE 1
        /\ \A x \in Held(f) : th[x].node = conn[f].node
        /\ \A k \in Pooled(f) : k[1] = conn[f].node

\* A pooled connection has nothing left on it from its last user: a reply that
\* arrives after its caller gave up never waits for the next one.
PoolClean ==
    \A n \in Node : \A i \in DOMAIN pool[n] :
        conn[pool[n][i]].reqs = <<>> /\ conn[pool[n][i]].reps = <<>>

\* The reply a call parses answers the request of its own current try.  The
\* transaction ids are not compared: this rests on the pool alone.
ReplyMatches ==
    \A x \in Tx : th[x].pc \in {"body", "ok"} => th[x].msg.id = Id(x)

\* A call returns without its node reference only where it put it; the one exit
\* that keeps the reference is the failed malloc.
NodeRefReturned ==
    \A x \in Tx : th[x].pc = "done" /\ th[x].node # NULL => th[x].rv = "NOMEM"

\* What the calls and the pools hold is in order: types, FdsAccounted, PoolClean
\* and NodeRefReturned together, on every path through do_the_full_monte.
HoldingsAccounted == TypeOK /\ FdsAccounted /\ PoolClean /\ NodeRefReturned

\* A call that is not retried takes effect at most once; a call that reports
\* success for a write took effect; and one that reports NOTFOUND, which a delete
\* does not after a retry, took none in any of its tries.
ResultHonest ==
    \A x \in Tx :
        LET c == <<x, th[x].call>> IN
        th[x].pc = "done" =>
            /\ th[x].pol = "ONESHOT" => applied[c] <= 1
            /\ th[x].op = "write" /\ th[x].rv = "OK" => applied[c] >= 1
            /\ th[x].rv = "NOTFOUND" => applied[c] = 0

\* A call with a deadline returns, whatever the servers do.
CallReturns ==
    \A x \in Tx :
        th[x].pc # "idle" /\ th[x].deadline # "none" ~> th[x].pc = "done"

\* "policy: if asking for a long timeout, give enough time to try two servers"
\* (do_the_full_monte): a later try is able to read the body it is sent.
SecondServerRead == \A x \in Tx : th[x].pc = "body" => th[x].buf # "null"

\* "if there was a retry, and we're doing a delete, force 'not found' errors to
\* 'ok' because the first delete might have succeeded": a delete that reports
\* success took effect, or was sent more than once.
DeleteMightHaveSucceeded ==
    \A x \in Tx :
        th[x].pc = "done" /\ th[x].op = "delete" /\ th[x].rv = "OK" =>
            applied[<<x, th[x].call>>] >= 1 \/ th[x].sent > 1

=============================================================================
