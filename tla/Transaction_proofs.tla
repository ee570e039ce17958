------------------------- MODULE Transaction_proofs -------------------------
(***************************************************************************)
(* Theorems about Transaction, for any number of threads, nodes,            *)
(* descriptors, calls and tries, whatever the servers and the network do.   *)
(***************************************************************************)
EXTENDS Transaction, FiniteSetTheorems, SequenceTheorems, TLAPS

Place == {"idle", "get", "fd", "write", "header", "body", "retry", "ok", "done"}
Code == {"OK", "NOTFOUND"}
Thread ==
    [pc : Place, op : Op, pol : Policy, deadline : {"none", "pending", "passed"},
     try : 0 .. MaxTry, sent : 0 .. MaxTry, node : Node \cup {NULL}, fd : Fd \cup {NULL},
     buf : {"stack", "heap", "null"}, msg : Message \cup {NULL},
     rv : Code \cup {"FAIL", "FAIL_TIMEOUT", "FAIL_UNKNOWN", "NOMEM", NULL}, call : 0 .. MaxCalls]

\* The types in full.
Types ==
    /\ th \in [Tx -> Thread] /\ pool \in [Node -> Seq(Fd)]
    /\ conn \in [Fd -> Connection \cup {NULL}]
    /\ orphans \in SUBSET Request /\ exists \in BOOLEAN
    /\ applied \in [Call -> 0 .. MaxTry]

\* A thread's locals go with its place.
Control(x) ==
    LET s == th[x] IN
    /\ s.pc # "idle" => s.call >= 1
    /\ s.pc \in {"idle", "get", "fd", "done"} => s.fd = NULL
    /\ s.pc \in {"write", "header", "body", "ok"} => s.fd # NULL
    /\ s.pc = "fd" => s.node # NULL
    /\ s.sent <= s.try /\ (s.pc \in {"fd", "write"} => s.sent < s.try \/ s.try = MaxTry)
    /\ s.pc \notin {"idle", "get", "done"} => s.try >= 1
    /\ s.pc \in {"body", "ok"} => s.msg \in Message
    /\ s.pc = "done" /\ s.node # NULL => s.rv = "NOMEM"
    /\ s.pc \notin {"idle", "done"} => s.rv \in {"FAIL", "FAIL_TIMEOUT"}
    /\ s.pol = "ONESHOT" => s.try <= 1 /\ (s.pc = "get" => s.try = 0)

\* A descriptor that a thread has is open, of the thread's node, and of no other
\* thread.
HeldOK ==
    \A x \in Tx : th[x].fd # NULL =>
        /\ conn[th[x].fd] # NULL /\ conn[th[x].fd].node = th[x].node
        /\ \A y \in Tx : th[y].fd = th[x].fd => y = x

\* One that a pool has is open, of its node, clean, there once, and of no thread.
PoolOK ==
    \A n \in Node :
        /\ Len(pool[n]) <= PoolLimit
        /\ \A i \in DOMAIN pool[n] :
            LET f == pool[n][i] IN
            /\ conn[f] # NULL /\ conn[f].node = n /\ conn[f].reqs = <<>> /\ conn[f].reps = <<>>
            /\ \A j \in DOMAIN pool[n] : pool[n][j] = f => j = i
            /\ \A x \in Tx : th[x].fd # f

\* An open one is a thread's or a pool's.
NoLeak ==
    \A f \in Fd : conn[f] # NULL =>
        \/ \E x \in Tx : th[x].fd = f
        \/ \E n \in Node : \E i \in DOMAIN pool[n] : pool[n][i] = f

\* What is on the connection of a thread: nothing but the request, or the reply
\* to the request, of its current try.
Wire(x) ==
    LET s == th[x]
        c == conn[s.fd]
    IN /\ s.pc \in {"write", "ok"} => c.reqs = <<>> /\ c.reps = <<>>
       /\ s.pc = "body" => c.reqs = <<>> /\ c.reps = <<s.msg>>
       /\ s.pc \in {"body", "ok"} => s.msg.id = Id(x)
       /\ s.fd # NULL =>
            /\ c.reqs # <<>> =>
                Len(c.reqs) = 1 /\ c.reqs[1].id = Id(x) /\ c.reqs[1].op = s.op /\ c.reps = <<>>
            /\ c.reps # <<>> => Len(c.reps) = 1 /\ c.reps[1].id = Id(x)

\* A thread's call, and the requests of it that no connection has any more.
This(x) == <<x, th[x].call>>
Abandoned(c) == {r \in orphans : r.id[1] = c[1] /\ r.id[2] = c[2]}
Unanswered(x) == th[x].fd # NULL /\ conn[th[x].fd].reqs # <<>>

\* Nothing is known of a call to come.
FutureOK ==
    \A c \in Call : c[2] > th[c[1]].call => applied[c] = 0 /\ Abandoned(c) = {}

\* What the servers did for the current call.
Effects(x) ==
    LET s == th[x] IN s.call >= 1 =>
    /\ \A r \in Abandoned(This(x)) : r.op = s.op /\ r.id[3] <= s.try
    /\ s.op = "read" => applied[This(x)] = 0
    /\ s.try <= 1 =>
        /\ applied[This(x)] <= 1
        /\ s.pc \in {"fd", "write"} \/ s.try = 0 \/ Unanswered(x) =>
            applied[This(x)] = 0 /\ Abandoned(This(x)) = {}
        /\ Abandoned(This(x)) # {} => applied[This(x)] = 0

\* What a reply says of the current call.
Tells(x, m) ==
    /\ th[x].op = "write" => m.code = "OK" /\ applied[This(x)] >= 1
    /\ m.code = "NOTFOUND" /\ th[x].try <= 1 => applied[This(x)] = 0 /\ Abandoned(This(x)) = {}

Told(x) ==
    LET s == th[x] IN
    /\ s.fd # NULL /\ conn[s.fd].reps # <<>> => Tells(x, conn[s.fd].reps[1])
    /\ s.pc \in {"body", "ok"} => Tells(x, s.msg)
    /\ s.pc = "done" /\ s.op = "write" =>
        s.rv # "NOTFOUND" /\ (s.rv = "OK" => applied[This(x)] >= 1)
    /\ s.pc = "done" /\ s.rv = "NOTFOUND" /\ s.op = "delete" =>
        s.try <= 1 /\ applied[This(x)] = 0 /\ Abandoned(This(x)) = {}

\* Descriptors and connections.
FdInv ==
    /\ Types /\ HeldOK /\ PoolOK /\ NoLeak
    /\ \A x \in Tx : Control(x) /\ Wire(x)

IInv == FdInv /\ FutureOK /\ \A x \in Tx : Effects(x) /\ Told(x)

-----------------------------------------------------------------------------
(* Types                                                                   *)

\* The fields of a thread's locals, and of a connection.
LEMMA ThreadFields ==
  ASSUME NEW s \in Thread
  PROVE  /\ s.pc \in Place /\ s.op \in Op /\ s.pol \in Policy
         /\ s.deadline \in {"none", "pending", "passed"}
         /\ s.try \in 0 .. MaxTry /\ s.sent \in 0 .. MaxTry /\ s.call \in 0 .. MaxCalls
         /\ s.node \in Node \cup {NULL} /\ s.fd \in Fd \cup {NULL}
         /\ s.buf \in {"stack", "heap", "null"} /\ s.msg \in Message \cup {NULL}
  BY DEF Thread

\* The types of a connection's fields.
LEMMA ConnectionFields ==
  ASSUME NEW c \in Connection
  PROVE  /\ c.node \in Node /\ c.reqs \in Seq(Request) /\ c.reps \in Seq(Message)
         /\ c.open \in BOOLEAN /\ c # NULL
  BY FdAssumption DEF Connection

\* A call begins with its type,
LEMMA LocalsType ==
  ASSUME NEW pc \in Place, NEW op \in Op, NEW pol \in Policy,
         NEW deadline \in {"none", "pending"}, NEW rv \in {"FAIL", NULL}, NEW call \in 0 .. MaxCalls
  PROVE  Locals(pc, op, pol, deadline, rv, call) \in Thread
  BY TryAssumption DEF Locals, Thread

\* and counting keeps the bound.
LEMMA CountType ==
  ASSUME NEW k \in 0 .. MaxTry
  PROVE  /\ Count(k) \in 0 .. MaxTry /\ Count(k) >= 1 /\ Count(k) >= k
         /\ Count(k) = k + 1 \/ (Count(k) = k /\ k = MaxTry)
  BY TryAssumption DEF Count

\* What a thread and a connection are while FdInv holds.
LEMMA Parts ==
  ASSUME Types
  PROVE  /\ \A x \in Tx : th[x] \in Thread
         /\ \A f \in Fd : conn[f] # NULL => conn[f] \in Connection
         /\ \A n \in Node : pool[n] \in Seq(Fd)
  BY DEF Types

\* The first of a sequence, the rest, and one more.
LEMMA SeqParts ==
  ASSUME NEW S, NEW q \in Seq(S)
  PROVE  /\ q # <<>> => Head(q) \in S /\ Tail(q) \in Seq(S) /\ Head(q) = q[1] /\ 1 \in DOMAIN q
         /\ \A e \in S : Append(q, e) \in Seq(S)
         /\ ToSet(q) \subseteq S
         /\ Len(q) \in Nat /\ DOMAIN q = 1 .. Len(q) /\ (q = <<>> <=> Len(q) = 0)
         /\ \A i \in DOMAIN q : q[i] \in S
  BY DEF ToSet

\* A sequence of one.
LEMMA SeqOne ==
  ASSUME NEW S, NEW q \in Seq(S), Len(q) = 1
  PROVE  q[1] \in S /\ Head(q) = q[1] /\ Tail(q) = <<>> /\ q = <<q[1]>>
<1>1. q[1] \in S /\ Head(q) = q[1]
  OBVIOUS
<1>2. Tail(q) \in Seq(S) /\ Len(Tail(q)) = 0
  BY HeadTailProperties
<1>3. Tail(q) = <<>>
  BY <1>2, EmptySeq
<1>4. q = <<q[1]>>
  <2>1. <<q[1]>> \in Seq(S) /\ Len(<<q[1]>>) = 1
    BY <1>1
  <2> QED BY <2>1, SeqEqual
<1> QED BY <1>1, <1>3, <1>4

\* A step within a try leaves these alone.
Keeps(x) ==
    /\ th'[x].op = th[x].op /\ th'[x].pol = th[x].pol /\ th'[x].call = th[x].call
    /\ th'[x].try = th[x].try

\* The other threads' locals stay.
LEMMA OthersStay ==
  ASSUME Types, NEW x \in Tx, Begin(x) \/ Step(x) \/ DeadlinePasses(x)
  PROVE  \A y \in Tx : y # x => th'[y] = th[y]
  BY DEF Types, Begin, Step, DeadlinePasses, NodeGet, cl_cluster_node_fd_get, SendRequest, ReadHeader,
    MallocFails, ReadBody, Retry, Onward, Ok

\* A call begins.
LEMMA BeginDoes ==
  ASSUME Types, NEW x \in Tx, Begin(x)
  PROVE  /\ th' \in [Tx -> Thread] /\ UNCHANGED <<pool, conn, orphans, exists, applied>>
         /\ th[x].pc \in {"idle", "done"} /\ th[x].call < MaxCalls
         /\ th'[x].pc = "get" /\ th'[x].call = th[x].call + 1 /\ th'[x].try = 0 /\ th'[x].sent = 0
         /\ th'[x].node = NULL /\ th'[x].fd = NULL /\ th'[x].msg = NULL /\ th'[x].rv = "FAIL"
<1>1. PICK r \in Requests :
        th' = [th EXCEPT ![x] = Locals("get", r[1], r[2], r[3], "FAIL", th[x].call + 1)]
  BY DEF Begin
<1>2. r[1] \in Op /\ r[2] \in Policy /\ r[3] \in {"none", "pending"}
  BY RequestsAssumption DEF Callable
<1>3. th[x].call + 1 \in 0 .. MaxCalls
  BY CallsAssumption, Parts, ThreadFields DEF Begin
<1>4. Locals("get", r[1], r[2], r[3], "FAIL", th[x].call + 1) \in Thread
  BY <1>2, <1>3, LocalsType DEF Place
<1>5. th' \in [Tx -> Thread]
  BY <1>1, <1>4 DEF Types
<1>6. th'[x] = Locals("get", r[1], r[2], r[3], "FAIL", th[x].call + 1)
  BY <1>1 DEF Types
<1> QED BY <1>5, <1>6 DEF Locals, Begin

\* A try begins: with a node, or without.
LEMMA NodeGetDoes ==
  ASSUME Types, NEW x \in Tx, NodeGet(x)
  PROVE  /\ th' \in [Tx -> Thread] /\ UNCHANGED <<pool, conn, orphans, exists, applied>>
         /\ th[x].pc = "get" /\ th'[x].try = Count(th[x].try)
         /\ \/ th'[x].node = NULL /\ th'[x].pc = "retry"
            \/ th'[x].node \in Node /\ th'[x].pc = "fd"
         /\ th'[x].op = th[x].op /\ th'[x].pol = th[x].pol /\ th'[x].call = th[x].call
         /\ th'[x].sent = th[x].sent /\ th'[x].fd = th[x].fd /\ th'[x].msg = th[x].msg
         /\ th'[x].rv = th[x].rv
<1>1. PICK n \in Node \cup {NULL} :
        th' = [th EXCEPT ![x].try = Count(@), ![x].node = n,
                         ![x].pc = IF n = NULL THEN "retry" ELSE "fd"]
  BY DEF NodeGet
<1>2. th[x] \in Thread /\ Count(th[x].try) \in 0 .. MaxTry
  BY Parts, ThreadFields, CountType
<1>3. th' \in [Tx -> Thread]
  BY <1>1, <1>2 DEF Types, Thread, Place
<1> QED BY <1>1, <1>2, <1>3, FdAssumption DEF Types, Thread, NodeGet

\* A thread in a try: its node, its descriptor, and the connection.
LEMMA InTry ==
  ASSUME FdInv, NEW x \in Tx
  PROVE  /\ Types /\ th[x] \in Thread
         /\ th[x].pc = "fd" => th[x].node \in Node /\ th[x].fd = NULL
         /\ th[x].fd # NULL => /\ th[x].fd \in Fd /\ conn[th[x].fd] \in Connection
                               /\ th[x].node \in Node /\ conn[th[x].fd].node = th[x].node
         /\ th[x].pc \in {"write", "header", "body", "ok"} => th[x].fd # NULL
<1>1. Types /\ th[x] \in Thread /\ Control(x) /\ HeldOK
  BY Parts DEF FdInv
<1>2. th[x].node \in Node \cup {NULL} /\ th[x].fd \in Fd \cup {NULL}
  BY <1>1, ThreadFields
<1>3. th[x].fd # NULL => /\ th[x].fd \in Fd /\ conn[th[x].fd] \in Connection
                         /\ conn[th[x].fd].node = th[x].node
  BY <1>1, <1>2, Parts DEF HeldOK
<1>4. th[x].fd # NULL => th[x].node \in Node
  BY <1>3, ConnectionFields
<1> QED BY <1>1, <1>2, <1>3, <1>4 DEF Control

\* cl_cluster_node_fd_get.
LEMMA FdGetDoes ==
  ASSUME FdInv, NEW x \in Tx, cl_cluster_node_fd_get(x)
  PROVE  /\ th' \in [Tx -> Thread] /\ UNCHANGED <<orphans, exists, applied>>
         /\ th[x].pc = "fd" /\ Keeps(x) /\ th'[x].sent = th[x].sent /\ th'[x].node = th[x].node
         /\ th'[x].rv = th[x].rv
         /\ \/ /\ pool[th[x].node] # <<>> /\ th'[x].fd = Head(pool[th[x].node])
               /\ pool' = [pool EXCEPT ![th[x].node] = Tail(@)]
               /\ th'[x].pc = "write" /\ conn' = conn
            \/ th'[x].pc = "retry" /\ th'[x].fd = NULL /\ UNCHANGED <<pool, conn>>
            \/ \E f \in Fd :
                /\ conn[f] = NULL /\ conn' = [conn EXCEPT ![f] = NewConn(th[x].node)]
                /\ th'[x].fd = f /\ th'[x].pc = "write" /\ pool' = pool
<1> DEFINE n == th[x].node
<1>0. Types /\ th[x] \in Thread /\ n \in Node /\ th[x].pc = "fd" /\ th[x].fd = NULL
      /\ pool[n] \in Seq(Fd)
  BY InTry, Parts DEF cl_cluster_node_fd_get
<1>1. CASE /\ pool[n] # <<>> /\ th' = [th EXCEPT ![x].fd = Head(pool[n]), ![x].pc = "write"]
           /\ pool' = [pool EXCEPT ![n] = Tail(@)] /\ conn' = conn
  <2>1. Head(pool[n]) \in Fd
    BY <1>0, <1>1, SeqParts
  <2>2. th' \in [Tx -> Thread]
    <3> DEFINE h == Head(pool[n])
    <3>1. th' = [th EXCEPT ![x].fd = h, ![x].pc = "write"] /\ h \in Fd
      BY <1>1, <2>1
    <3>2. th \in [Tx -> Thread] /\ th[x] \in Thread
      BY <1>0 DEF Types
    <3> HIDE DEF h
    <3> QED BY <3>1, <3>2 DEF Thread, Place
  <2> QED BY <1>0, <1>1, <2>2 DEF cl_cluster_node_fd_get, Types, Thread, Keeps
<1>2. CASE th' = [th EXCEPT ![x].pc = "retry"] /\ UNCHANGED <<pool, conn>>
  <2>2. th' \in [Tx -> Thread]
    BY <1>0, <1>2 DEF Types, Thread, Place
  <2> QED BY <1>0, <1>2, <2>2 DEF cl_cluster_node_fd_get, Types, Thread, Keeps
<1>3. ASSUME NEW f \in Fd, conn[f] = NULL, conn' = [conn EXCEPT ![f] = NewConn(n)],
             th' = [th EXCEPT ![x].fd = f, ![x].pc = "write"], pool' = pool
      PROVE  /\ th' \in [Tx -> Thread] /\ UNCHANGED <<orphans, exists, applied>>
             /\ th[x].pc = "fd" /\ Keeps(x) /\ th'[x].sent = th[x].sent /\ th'[x].node = th[x].node
             /\ th'[x].rv = th[x].rv /\ th'[x].fd = f /\ th'[x].pc = "write"
  <2>2. th' \in [Tx -> Thread]
    BY <1>0, <1>3 DEF Types, Thread, Place
  <2> QED BY <1>0, <1>3, <2>2 DEF cl_cluster_node_fd_get, Types, Thread, Keeps
<1> QED BY <1>1, <1>2, <1>3 DEF cl_cluster_node_fd_get

\* A try fails: the thread goes to its end.
Failed(x) ==
    /\ th'[x].pc = "retry" /\ conn' = conn

\* The request is written, or not.
LEMMA SendRequestDoes ==
  ASSUME FdInv, NEW x \in Tx, SendRequest(x)
  PROVE  /\ th' \in [Tx -> Thread] /\ UNCHANGED <<pool, orphans, exists, applied>>
         /\ th[x].pc = "write" /\ Keeps(x) /\ th'[x].node = th[x].node /\ th'[x].fd = th[x].fd
         /\ th'[x].rv = th[x].rv
         /\ \/ /\ th'[x].pc = "header" /\ th'[x].sent = Count(th[x].sent)
               /\ conn' = [conn EXCEPT ![th[x].fd].reqs = Append(@, [id |-> Id(x), op |-> th[x].op])]
            \/ Failed(x) /\ th'[x].sent = th[x].sent
<1>0. Types /\ th[x] \in Thread /\ Count(th[x].sent) \in 0 .. MaxTry
  BY InTry, ThreadFields, CountType
<1>1. CASE /\ th' = [th EXCEPT ![x].pc = "header", ![x].sent = Count(@)]
           /\ conn' = [conn EXCEPT ![th[x].fd].reqs = Append(@, [id |-> Id(x), op |-> th[x].op])]
  <2>2. th' \in [Tx -> Thread]
    BY <1>0, <1>1 DEF Types, Thread, Place
  <2> QED BY <1>0, <1>1, <2>2 DEF SendRequest, Types, Thread, Keeps
<1>2. CASE conn' = conn /\ th' = [th EXCEPT ![x].pc = "retry"]
  <2>2. th' \in [Tx -> Thread]
    BY <1>0, <1>2 DEF Types, Thread, Place
  <2> QED BY <1>0, <1>2, <2>2 DEF SendRequest, Types, Thread, Keeps, Failed
<1> QED BY <1>1, <1>2 DEF SendRequest

\* The header is read, and with it an empty body, or not.
LEMMA ReadHeaderDoes ==
  ASSUME FdInv, NEW x \in Tx, ReadHeader(x)
  PROVE  /\ th' \in [Tx -> Thread] /\ UNCHANGED <<pool, orphans, exists, applied>>
         /\ th[x].pc = "header" /\ Keeps(x) /\ th'[x].node = th[x].node /\ th'[x].fd = th[x].fd
         /\ th'[x].rv = th[x].rv /\ th'[x].sent = th[x].sent
         /\ \/ /\ conn[th[x].fd].reps # <<>> /\ th'[x].msg = Head(conn[th[x].fd].reps)
               /\ \/ th'[x].pc = "body" /\ conn' = conn
                  \/ th'[x].pc = "ok" /\ conn' = [conn EXCEPT ![th[x].fd].reps = Tail(@)]
            \/ Failed(x)
<1> DEFINE reps == conn[th[x].fd].reps
<1>0. Types /\ th[x] \in Thread /\ th[x].pc = "header" /\ reps \in Seq(Message)
  BY InTry, ConnectionFields DEF ReadHeader
<1>1. CASE /\ reps # <<>>
           /\ th' = [th EXCEPT ![x].msg = Head(reps),
                               ![x].pc = IF Head(reps).body = "empty" THEN "ok" ELSE "body",
                               ![x].buf = IF Head(reps).body = "heap" THEN "heap" ELSE @]
           /\ conn' = IF Head(reps).body = "empty"
                      THEN [conn EXCEPT ![th[x].fd].reps = Tail(@)] ELSE conn
  <2>1. Head(reps) \in Message
    BY <1>0, <1>1, SeqParts
  <2>2. th' \in [Tx -> Thread]
    BY <1>0, <1>1, <2>1 DEF Types, Thread, Place
  <2> QED BY <1>0, <1>1, <2>2 DEF ReadHeader, Types, Thread, Keeps
<1>2. CASE conn' = conn /\ th' = [th EXCEPT ![x].pc = "retry"]
  <2>2. th' \in [Tx -> Thread]
    BY <1>0, <1>2 DEF Types, Thread, Place
  <2> QED BY <1>0, <1>2, <2>2 DEF ReadHeader, Types, Thread, Keeps, Failed
<1> QED BY <1>1, <1>2 DEF ReadHeader, CanRead

\* The body is read, or not.
LEMMA ReadBodyDoes ==
  ASSUME FdInv, NEW x \in Tx, ReadBody(x)
  PROVE  /\ th' \in [Tx -> Thread] /\ UNCHANGED <<pool, orphans, exists, applied>>
         /\ th[x].pc = "body" /\ Keeps(x) /\ th'[x].node = th[x].node /\ th'[x].fd = th[x].fd
         /\ th'[x].rv = th[x].rv /\ th'[x].sent = th[x].sent /\ th'[x].msg = th[x].msg
         /\ \/ /\ conn[th[x].fd].reps # <<>> /\ th'[x].pc = "ok"
               /\ conn' = [conn EXCEPT ![th[x].fd].reps = Tail(@)]
            \/ Failed(x)
<1>0. Types /\ th[x] \in Thread
  BY InTry
<1>1. CASE /\ conn[th[x].fd].reps # <<>> /\ th' = [th EXCEPT ![x].pc = "ok"]
           /\ conn' = [conn EXCEPT ![th[x].fd].reps = Tail(@)]
  <2>2. th' \in [Tx -> Thread]
    BY <1>0, <1>1 DEF Types, Thread, Place
  <2> QED BY <1>0, <1>1, <2>2 DEF ReadBody, Types, Thread, Keeps
<1>2. CASE conn' = conn /\ th' = [th EXCEPT ![x].pc = "retry", ![x].buf = "null"]
  <2>2. th' \in [Tx -> Thread]
    BY <1>0, <1>2 DEF Types, Thread, Place
  <2> QED BY <1>0, <1>2, <2>2 DEF ReadBody, Types, Thread, Keeps, Failed
<1> QED BY <1>1, <1>2 DEF ReadBody, CanRead

\* The deadline passes.
LEMMA DeadlineDoes ==
  ASSUME Types, NEW x \in Tx, DeadlinePasses(x)
  PROVE  /\ th' \in [Tx -> Thread] /\ UNCHANGED <<pool, conn, orphans, exists, applied>>
         /\ Keeps(x) /\ th'[x].node = th[x].node /\ th'[x].fd = th[x].fd /\ th'[x].pc = th[x].pc
         /\ th'[x].rv = th[x].rv /\ th'[x].sent = th[x].sent /\ th'[x].msg = th[x].msg
<1>0. th[x] \in Thread
  BY Parts
<1>1. th' \in [Tx -> Thread]
  BY <1>0 DEF Types, Thread, DeadlinePasses
<1> QED BY <1>0, <1>1 DEF DeadlinePasses, Types, Thread, Keeps

\* The thread's connection is closed.
Closes(x) ==
    /\ th[x].fd # NULL /\ Closed(th[x].fd) /\ LeftBehind(th[x].fd) /\ pool' = pool

\* malloc fails.
LEMMA MallocDoes ==
  ASSUME FdInv, NEW x \in Tx, MallocFails(x)
  PROVE  /\ th' \in [Tx -> Thread] /\ UNCHANGED <<exists, applied>>
         /\ th[x].pc = "body" /\ Keeps(x) /\ th'[x].sent = th[x].sent
         /\ th'[x].pc = "done" /\ th'[x].rv = "NOMEM" /\ th'[x].fd = NULL /\ Closes(x)
<1>0. Types /\ th[x] \in Thread /\ th[x].pc = "body" /\ th[x].fd # NULL
  BY InTry DEF MallocFails
<1>1. th' = [th EXCEPT ![x].pc = "done", ![x].rv = "NOMEM", ![x].fd = NULL, ![x].msg = NULL]
  BY DEF MallocFails
<1>2. th' \in [Tx -> Thread]
  BY <1>0, <1>1 DEF Types, Thread, Place
<1> QED BY <1>0, <1>1, <1>2 DEF MallocFails, Types, Thread, Keeps, Closes

\* What a thread is when a try ends.
LEMMA GivenUpFields ==
  ASSUME NEW t \in Thread, NEW r \in {"FAIL", "FAIL_TIMEOUT"}, NEW p \in {"get", "done"}
  PROVE  [t EXCEPT !.fd = NULL, !.node = NULL, !.msg = NULL, !.rv = r, !.pc = p] \in Thread
<1>1. ASSUME NEW u \in Thread PROVE [u EXCEPT !.fd = NULL] \in Thread
  BY DEF Thread
<1>2. ASSUME NEW u \in Thread PROVE [u EXCEPT !.node = NULL] \in Thread
  BY DEF Thread
<1>3. ASSUME NEW u \in Thread PROVE [u EXCEPT !.msg = NULL] \in Thread
  BY DEF Thread
<1>4. ASSUME NEW u \in Thread PROVE [u EXCEPT !.rv = r] \in Thread
  BY DEF Thread
<1>5. ASSUME NEW u \in Thread PROVE [u EXCEPT !.pc = p] \in Thread
  BY DEF Thread, Place
<1> QED BY <1>1, <1>2, <1>3, <1>4, <1>5

\* A try ends.
LEMMA RetryDoes ==
  ASSUME FdInv, NEW x \in Tx, Retry(x)
  PROVE  /\ th' \in [Tx -> Thread] /\ UNCHANGED <<pool, exists, applied>>
         /\ th[x].pc = "retry" /\ Keeps(x) /\ th'[x].sent = th[x].sent
         /\ th'[x].fd = NULL /\ th'[x].node = NULL
         /\ th'[x].rv \in {th[x].rv, "FAIL_TIMEOUT"}
         /\ th'[x].pc = "done" \/ (th'[x].pc = "get" /\ th[x].pol # "ONESHOT")
         /\ \/ th[x].fd = NULL /\ UNCHANGED <<conn, orphans>>
            \/ Closes(x)
<1>0. Types /\ th[x] \in Thread /\ th[x].pc = "retry" /\ th[x].rv \in {"FAIL", "FAIL_TIMEOUT"}
  BY InTry DEF Retry, FdInv, Control
<1> DEFINE again == MayRetry(x) /\ InTime(x)
<1>1. th' = [th EXCEPT ![x].fd = NULL, ![x].node = NULL, ![x].msg = NULL,
                       ![x].rv = IF InTime(x) THEN @ ELSE "FAIL_TIMEOUT",
                       ![x].pc = IF again THEN "get" ELSE "done"]
  BY DEF Retry, Onward
<1>2. again => th[x].pol # "ONESHOT"
  BY DEF MayRetry
<1> HIDE DEF again
<1> DEFINE rv == IF InTime(x) THEN th[x].rv ELSE "FAIL_TIMEOUT"
           pc == IF again THEN "get" ELSE "done"
           mine == [th[x] EXCEPT !.fd = NULL, !.node = NULL, !.msg = NULL, !.rv = rv, !.pc = pc]
<1>a. th' = [th EXCEPT ![x] = mine]
  BY <1>0, <1>1 DEF Types, Thread
<1>b. mine \in Thread
  <2>1. rv \in {"FAIL", "FAIL_TIMEOUT"} /\ pc \in {"get", "done"}
    BY <1>0
  <2> HIDE DEF rv, pc
  <2> QED BY <1>0, <2>1, GivenUpFields
<1>3. th' \in [Tx -> Thread]
  <2> HIDE DEF mine
  <2> QED BY <1>0, <1>a, <1>b DEF Types
<1>4. /\ Keeps(x) /\ th'[x].sent = th[x].sent /\ th'[x].fd = NULL /\ th'[x].node = NULL
      /\ th'[x].rv \in {th[x].rv, "FAIL_TIMEOUT"}
      /\ th'[x].pc = IF again THEN "get" ELSE "done"
  BY <1>0, <1>1 DEF Types, Thread, Keeps
<1> QED BY <1>0, <1>2, <1>3, <1>4 DEF Retry, GivenUp, Closes

\* A call succeeds.
LEMMA OkDoes ==
  ASSUME FdInv, NEW x \in Tx, Ok(x)
  PROVE  /\ th' \in [Tx -> Thread] /\ UNCHANGED <<exists, applied>>
         /\ th[x].pc = "ok" /\ Keeps(x) /\ th'[x].sent = th[x].sent
         /\ th'[x].pc = "done" /\ th'[x].fd = NULL /\ th'[x].node = NULL /\ th'[x].rv = Result(x)
         /\ \/ /\ Len(pool[th[x].node]) < PoolLimit
               /\ pool' = [pool EXCEPT ![th[x].node] = Append(@, th[x].fd)]
               /\ UNCHANGED <<conn, orphans>>
            \/ Closes(x)
<1>0. Types /\ th[x] \in Thread /\ th[x].pc = "ok" /\ th[x].fd # NULL /\ th[x].msg \in Message
  BY InTry DEF Ok, FdInv, Control
<1>1. th' = [th EXCEPT ![x].pc = "done", ![x].rv = Result(x), ![x].fd = NULL,
                       ![x].node = NULL, ![x].msg = NULL]
  BY DEF Ok
<1>2. Result(x) \in Code \cup {"FAIL_UNKNOWN"}
  <2>1. th[x].msg.code \in Code
    BY <1>0 DEF Message, Code
  <2> QED BY <2>1 DEF Result, Code
<1>3. th' \in [Tx -> Thread]
  BY <1>0, <1>1, <1>2 DEF Types, Thread, Place
<1>4. /\ Keeps(x) /\ th'[x].sent = th[x].sent
      /\ th'[x].pc = "done" /\ th'[x].fd = NULL /\ th'[x].node = NULL /\ th'[x].rv = Result(x)
  BY <1>0, <1>1, <1>2 DEF Types, Thread, Keeps
<1> QED BY <1>0, <1>3, <1>4 DEF Ok, cl_cluster_node_fd_put, Closes

\* A server's answer.
LEMMA ReplyType ==
  ASSUME NEW r \in Request, NEW rep \in Reply(r)
  PROVE  /\ rep \in Message /\ rep.id = r.id
         /\ rep.code = "NOTFOUND" => r.op # "write" /\ ~ exists
<1>1. r.id \in Ident /\ r.op \in Op
  BY DEF Request
<1>2. CASE r.op # "write" /\ ~ exists
  BY <1>1, <1>2 DEF Reply, Message, Body
<1>3. CASE ~ (r.op # "write" /\ ~ exists)
  <2>1. PICK b \in Body : rep = [id |-> r.id, code |-> "OK", body |-> b]
    BY <1>1, <1>3 DEF Reply, Body, Op
  <2> QED BY <1>1, <2>1 DEF Message
<1> QED BY <1>2, <1>3

\* What a request does to the records and the count of effects.
LEMMA EffectDoes ==
  ASSUME Types, NEW r \in Request, Effect(r)
  PROVE  LET c == <<r.id[1], r.id[2]>> IN
         /\ c \in Call /\ exists' \in BOOLEAN /\ applied' \in [Call -> 0 .. MaxTry]
         /\ \A d \in Call : d # c => applied'[d] = applied[d]
         /\ applied'[c] = IF r.op = "write" \/ (r.op = "delete" /\ exists)
                          THEN Count(applied[c]) ELSE applied[c]
<1> DEFINE c == <<r.id[1], r.id[2]>>
<1>1. r.op \in Op /\ c \in Call
  BY DEF Request, Ident, Call
<1>2. Count(applied[c]) \in 0 .. MaxTry
  BY <1>1, CountType DEF Types
<1>3. exists' \in BOOLEAN
  BY <1>1 DEF Effect, Types, Op
<1> QED BY <1>1, <1>2, <1>3 DEF Effect, Types

\* What is stored into a connection.
LEMMA ConnectionStore ==
  ASSUME NEW c \in Connection, NEW q \in Seq(Request), NEW p \in Seq(Message)
  PROVE  /\ LET d == [c EXCEPT !.reqs = q] IN
              d \in Connection /\ d.reqs = q /\ d.reps = c.reps /\ d.node = c.node
         /\ LET d == [c EXCEPT !.reps = p] IN
              d \in Connection /\ d.reqs = c.reqs /\ d.reps = p /\ d.node = c.node
         /\ LET d == [c EXCEPT !.reqs = q, !.reps = p] IN
              d \in Connection /\ d.reqs = q /\ d.reps = p /\ d.node = c.node
         /\ LET d == [c EXCEPT !.open = FALSE, !.reqs = q] IN
              d \in Connection /\ d.reqs = q /\ d.reps = c.reps /\ d.node = c.node
<1>1. LET d == [c EXCEPT !.reqs = q] IN
              d \in Connection /\ d.reqs = q /\ d.reps = c.reps /\ d.node = c.node
  BY DEF Connection
<1>2. LET d == [c EXCEPT !.reps = p] IN
              d \in Connection /\ d.reqs = c.reqs /\ d.reps = p /\ d.node = c.node
  BY DEF Connection
<1>3. LET d == [c EXCEPT !.reqs = q, !.reps = p] IN
              d \in Connection /\ d.reqs = q /\ d.reps = p /\ d.node = c.node
  BY DEF Connection
<1>4. LET d == [c EXCEPT !.open = FALSE, !.reqs = q] IN
              d \in Connection /\ d.reqs = q /\ d.reps = c.reps /\ d.node = c.node
  BY DEF Connection
<1> QED BY <1>1, <1>2, <1>3, <1>4

\* The connection of one descriptor changes from c to d, of the same node.
Rewired(f, d) ==
    /\ f \in Fd /\ conn[f] \in Connection /\ d \in Connection /\ d.node = conn[f].node
    /\ conn' = [conn EXCEPT ![f] = d]

\* A request written, a reply read.
LEMMA SendRewires ==
  ASSUME FdInv, NEW x \in Tx, th[x].pc = "write",
         conn' = [conn EXCEPT ![th[x].fd].reqs = Append(@, [id |-> Id(x), op |-> th[x].op])]
  PROVE  \E d : /\ Rewired(th[x].fd, d) /\ d.reqs = <<[id |-> Id(x), op |-> th[x].op]>>
                /\ d.reps = <<>>
<1> DEFINE f == th[x].fd
           r == [id |-> Id(x), op |-> th[x].op]
           d == [conn[f] EXCEPT !.reqs = Append(conn[f].reqs, r)]
<1>1. f \in Fd /\ conn[f] \in Connection /\ conn[f].reqs = <<>> /\ conn[f].reps = <<>>
  BY InTry DEF FdInv, Wire
<1>2. r \in Request
  <2>1. th[x].call \in 1 .. MaxCalls /\ th[x].try \in 1 .. MaxTry /\ th[x].op \in Op
    BY InTry, ThreadFields, TryAssumption, CallsAssumption DEF FdInv, Control
  <2>2. Id(x) \in Ident
    BY <2>1 DEF Id, Ident
  <2> QED BY <2>1, <2>2 DEF Request
<1>3. Append(conn[f].reqs, r) = <<r>> /\ Append(conn[f].reqs, r) \in Seq(Request)
  BY <1>1, <1>2
<1> HIDE DEF f, r
<1>4. d \in Connection /\ d.reqs = <<r>> /\ d.reps = <<>> /\ d.node = conn[f].node
  BY <1>1, <1>3 DEF Connection
<1>5. conn' = [conn EXCEPT ![f] = d]
  BY DEF f, r
<1> QED BY <1>1, <1>4, <1>5 DEF Rewired, f, r

\* A reply that is read was the last thing on the caller's connection.
LEMMA ReadRewires ==
  ASSUME FdInv, NEW x \in Tx, th[x].fd # NULL, conn[th[x].fd].reps # <<>>,
         conn' = [conn EXCEPT ![th[x].fd].reps = Tail(@)]
  PROVE  \E d : Rewired(th[x].fd, d) /\ d.reqs = <<>> /\ d.reps = <<>>
<1> DEFINE f == th[x].fd
           d == [conn[f] EXCEPT !.reps = Tail(conn[f].reps)]
<1>1. f \in Fd /\ conn[f] \in Connection
  BY InTry
<1>2. Len(conn[f].reps) = 1 /\ conn[f].reps \in Seq(Message) /\ conn[f].reqs = <<>>
  BY <1>1, ConnectionFields DEF FdInv, Wire
<1>3. Tail(conn[f].reps) = <<>> /\ Tail(conn[f].reps) \in Seq(Message)
  BY <1>2, SeqOne
<1> HIDE DEF f
<1>4. d \in Connection /\ d.reqs = <<>> /\ d.reps = <<>> /\ d.node = conn[f].node
  BY <1>1, <1>2, <1>3 DEF Connection
<1>5. conn' = [conn EXCEPT ![f] = d]
  BY DEF f
<1> QED BY <1>1, <1>4, <1>5 DEF Rewired, f

\* A connection with a request on it is a thread's, at the head of its try.
LEMMA RequestHeld ==
  ASSUME FdInv, NEW f \in Fd, conn[f] # NULL, conn[f].reqs # <<>>
  PROVE  /\ conn[f] \in Connection
         /\ \E x \in Tx : /\ th[x].fd = f /\ Len(conn[f].reqs) = 1 /\ conn[f].reqs[1].id = Id(x)
                          /\ conn[f].reqs[1].op = th[x].op /\ conn[f].reps = <<>>
<1>1. conn[f] \in Connection
  BY Parts DEF FdInv
<1>2. PICK x \in Tx : th[x].fd = f
  BY DEF FdInv, NoLeak, PoolOK
<1>3. f # NULL
  BY FdAssumption
<1> QED BY <1>1, <1>2, <1>3 DEF FdInv, Wire

\* The request r of the thread x is carried out, and the reply rep put on the
\* connection.
Served(f, x, r, rep, d) ==
    /\ th[x].fd = f /\ conn[f].reqs = <<r>> /\ conn[f].reps = <<>>
    /\ r.id = Id(x) /\ r.op = th[x].op /\ Effect(r)
    /\ Rewired(f, d) /\ d.reqs = <<>> /\ d.reps = <<rep>>
    /\ UNCHANGED <<th, pool, orphans>>

\* What the server does to a connection.
LEMMA ServeRewires ==
  ASSUME FdInv, NEW f \in Fd, Serve(f)
  PROVE  \E x \in Tx : \E r \in Request : \E rep \in Reply(r) : \E d : Served(f, x, r, rep, d)
<1> DEFINE r == Head(conn[f].reqs)
<1>1. /\ conn[f] \in Connection
      /\ \E x \in Tx : /\ th[x].fd = f /\ Len(conn[f].reqs) = 1 /\ conn[f].reqs[1].id = Id(x)
                       /\ conn[f].reqs[1].op = th[x].op /\ conn[f].reps = <<>>
  BY RequestHeld DEF Serve
<1>2. conn[f].reqs \in Seq(Request) /\ conn[f].reqs # <<>>
  BY <1>1, ConnectionFields DEF Serve
<1>3. r \in Request /\ r = conn[f].reqs[1] /\ Tail(conn[f].reqs) = <<>> /\ conn[f].reqs = <<r>>
  <2>1. Len(conn[f].reqs) = 1
    BY <1>1
  <2> QED BY <1>2, <2>1, SeqOne
<1>4. PICK rep \in Reply(r) :
        conn' = [conn EXCEPT ![f].reqs = Tail(@), ![f].reps = Append(@, rep)]
  BY DEF Serve
<1>5. rep \in Message
  BY <1>3, <1>4, ReplyType
<1> DEFINE d == [conn[f] EXCEPT !.reqs = Tail(conn[f].reqs), !.reps = Append(conn[f].reps, rep)]
<1>6. conn' = [conn EXCEPT ![f] = d]
  BY <1>4
<1>7. Append(conn[f].reps, rep) = <<rep>> /\ <<rep>> \in Seq(Message) /\ <<>> \in Seq(Request)
  BY <1>1, <1>5
<1>8. d \in Connection /\ d.reqs = <<>> /\ d.reps = <<rep>> /\ d.node = conn[f].node
  BY <1>1, <1>3, <1>7 DEF Connection
<1>9. Effect(r) /\ UNCHANGED <<th, pool, orphans>>
  BY DEF Serve
<1>10. Rewired(f, d)
  BY <1>1, <1>6, <1>8 DEF Rewired
<1> HIDE DEF d, r
<1> QED BY <1>1, <1>3, <1>4, <1>8, <1>9, <1>10 DEF Served

\* A server that hangs up leaves what it has sent and drops what it has not read.
LEMMA HangupRewires ==
  ASSUME FdInv, NEW f \in Fd, Hangup(f)
  PROVE  \E d : /\ Rewired(f, d) /\ d.reqs = <<>> /\ d.reps = conn[f].reps
                /\ UNCHANGED <<th, pool, exists, applied>>
                /\ LeftBehind(f) \/ orphans' = orphans
<1> DEFINE d == [conn[f] EXCEPT !.open = FALSE, !.reqs = <<>>]
<1>1. conn[f] \in Connection
  BY Parts DEF FdInv, Hangup
<1>2. d \in Connection /\ d.reqs = <<>> /\ d.reps = conn[f].reps /\ d.node = conn[f].node
  <2>1. <<>> \in Seq(Request)
    OBVIOUS
  <2> QED BY <1>1, <2>1 DEF Connection
<1>3. conn' = [conn EXCEPT ![f] = d]
  BY DEF Hangup
<1>4. Rewired(f, d)
  BY <1>1, <1>2, <1>3 DEF Rewired
<1> HIDE DEF d
<1> QED BY <1>2, <1>4 DEF Hangup

-----------------------------------------------------------------------------
(* Descriptors                                                             *)

FdsOK == HeldOK /\ PoolOK /\ NoLeak

\* Descriptors stay where they are, and a pooled connection as it is.
LEMMA FdsStay ==
  ASSUME FdInv, pool' = pool,
         \A x \in Tx : th'[x].fd = th[x].fd /\ (th[x].fd # NULL => th'[x].node = th[x].node),
         \/ conn' = conn
         \/ \E f, d : /\ Rewired(f, d)
                      /\ \/ \E x \in Tx : th[x].fd = f
                         \/ conn[f].reqs = <<>> => d.reqs = <<>> /\ d.reps = conn[f].reps
  PROVE  FdsOK'
<1>0. Types /\ HeldOK /\ PoolOK /\ NoLeak
  BY DEF FdInv
<1>1. CASE conn' = conn
  BY <1>0, <1>1 DEF FdsOK, HeldOK, PoolOK, NoLeak
<1>2. ASSUME NEW f, NEW d, Rewired(f, d),
             \/ \E x \in Tx : th[x].fd = f
             \/ conn[f].reqs = <<>> => d.reqs = <<>> /\ d.reps = conn[f].reps
      PROVE  FdsOK'
  <2>1. /\ f \in Fd /\ conn'[f] = d /\ d # NULL /\ d.node = conn[f].node /\ conn[f] # NULL
        /\ \A g \in Fd : g # f => conn'[g] = conn[g]
    BY <1>0, <1>2, ConnectionFields DEF Rewired, Types
  <2>2. \A g \in Fd : /\ conn'[g] = NULL <=> conn[g] = NULL
                      /\ conn[g] # NULL => conn'[g].node = conn[g].node
    BY <2>1
  <2>3. \A x \in Tx : th[x].fd # NULL => th[x].fd \in Fd
    BY <1>0, Parts, ThreadFields
  <2>4. HeldOK'
    BY <1>0, <2>2, <2>3 DEF HeldOK
  <2>5. NoLeak'
    BY <1>0, <2>2 DEF NoLeak
  <2>6. ASSUME NEW n \in Node, NEW i \in DOMAIN pool[n]
        PROVE  LET g == pool[n][i] IN
               conn'[g] # NULL /\ conn'[g].node = n /\ conn'[g].reqs = <<>> /\ conn'[g].reps = <<>>
    <3>1. pool[n][i] \in Fd
      BY <1>0, Parts, SeqParts
    <3> QED BY <1>0, <1>2, <2>1, <2>2, <3>1 DEF PoolOK
  <2>7. PoolOK'
    BY <1>0, <2>6 DEF PoolOK
  <2> QED BY <2>4, <2>5, <2>7 DEF FdsOK
<1> QED BY <1>1, <1>2

\* The thread x takes the first of a pool.
LEMMA FdsTake ==
  ASSUME FdInv, NEW x \in Tx, NEW n \in Node, th[x].fd = NULL, pool[n] # <<>>,
         th'[x].fd = Head(pool[n]), th'[x].node = n, pool' = [pool EXCEPT ![n] = Tail(@)],
         conn' = conn, \A y \in Tx : y # x => th'[y] = th[y]
  PROVE  FdsOK'
<1> DEFINE q == pool[n]
           f == Head(q)
<1>0. Types /\ HeldOK /\ PoolOK /\ NoLeak
  BY DEF FdInv
<1>1. q \in Seq(Fd) /\ q # <<>> /\ Len(q) \in Nat \ {0} /\ f = q[1] /\ 1 \in DOMAIN q /\ f \in Fd
      /\ DOMAIN q = 1 .. Len(q)
  BY <1>0, Parts, SeqParts
<1>2. /\ pool'[n] = Tail(q) /\ Tail(q) \in Seq(Fd) /\ Len(Tail(q)) = Len(q) - 1
      /\ DOMAIN Tail(q) = 1 .. Len(q) - 1
      /\ \A i \in 1 .. Len(q) - 1 : Tail(q)[i] = q[i + 1] /\ i + 1 \in DOMAIN q /\ i + 1 # 1
      /\ \A m \in Node : m # n => pool'[m] = pool[m]
  BY <1>0, <1>1, HeadTailProperties DEF Types
<1>3. /\ conn[f] # NULL /\ conn[f].node = n /\ \A j \in DOMAIN q : q[j] = f => j = 1
      /\ \A y \in Tx : th[y].fd # f
  BY <1>0, <1>1 DEF PoolOK
<1>4. HeldOK'
  BY <1>0, <1>1, <1>3 DEF HeldOK
<1>5. PoolOK'
  <2> DEFINE E(m, p) ==
               /\ Len(p) <= PoolLimit
               /\ \A i \in DOMAIN p :
                    LET g == p[i] IN
                    /\ conn[g] # NULL /\ conn[g].node = m
                    /\ conn[g].reqs = <<>> /\ conn[g].reps = <<>>
                    /\ \A j \in DOMAIN p : p[j] = g => j = i
                    /\ \A y \in Tx : th'[y].fd # g
  <2> SUFFICES ASSUME NEW m \in Node PROVE E(m, pool'[m])
    BY DEF PoolOK
  <2>1. CASE m = n
    <3>1. Len(Tail(q)) <= PoolLimit
      BY <1>0, <1>1, <1>2, PoolAssumption DEF PoolOK
    <3>2. ASSUME NEW i \in 1 .. Len(q) - 1
          PROVE  LET g == Tail(q)[i] IN
                 /\ conn[g] # NULL /\ conn[g].node = m /\ conn[g].reqs = <<>> /\ conn[g].reps = <<>>
                 /\ \A j \in 1 .. Len(q) - 1 : Tail(q)[j] = g => j = i
                 /\ \A y \in Tx : th'[y].fd # g
      <4>1. Tail(q)[i] = q[i + 1] /\ i + 1 \in DOMAIN q /\ i + 1 # 1
        BY <1>2
      <4>2. q[i + 1] # f
        BY <1>1, <1>3, <4>1
      <4>3. \A j \in 1 .. Len(q) - 1 : Tail(q)[j] = q[i + 1] => j = i
        <5> SUFFICES ASSUME NEW j \in 1 .. Len(q) - 1, q[j + 1] = q[i + 1] PROVE j = i
          BY <1>2
        <5>1. j + 1 = i + 1
          BY <1>0, <1>2, <4>1 DEF PoolOK
        <5> QED BY <5>1, <1>1
      <4> QED BY <1>0, <2>1, <4>1, <4>2, <4>3 DEF PoolOK
    <3>3. pool'[m] = Tail(q) /\ DOMAIN Tail(q) = 1 .. Len(q) - 1
      BY <1>2, <2>1
    <3>4. ASSUME NEW i \in DOMAIN Tail(q)
          PROVE  LET g == Tail(q)[i] IN
                 /\ conn[g] # NULL /\ conn[g].node = m /\ conn[g].reqs = <<>> /\ conn[g].reps = <<>>
                 /\ \A j \in DOMAIN Tail(q) : Tail(q)[j] = g => j = i
                 /\ \A y \in Tx : th'[y].fd # g
      <4> HIDE DEF E, q
      <4> QED BY <3>2, <3>3
    <3>5. E(m, Tail(q))
      <4> HIDE DEF q
      <4> QED BY <3>1, <3>4
    <3> HIDE DEF E
    <3> QED BY <3>3, <3>5
  <2>2. CASE m # n
    <3>1. \A i \in DOMAIN pool[m] : pool[m][i] # f
      BY <1>0, <1>3, <2>2 DEF PoolOK
    <3> QED BY <1>0, <1>2, <2>2, <3>1 DEF PoolOK
  <2> QED BY <2>1, <2>2
<1>6. NoLeak'
  <2> SUFFICES ASSUME NEW g \in Fd, conn[g] # NULL
               PROVE  \/ \E y \in Tx : th'[y].fd = g
                      \/ \E m \in Node : \E i \in DOMAIN pool'[m] : pool'[m][i] = g
    BY DEF NoLeak
  <2>1. CASE \E y \in Tx : th[y].fd = g
    BY <2>1, FdAssumption
  <2>2. ASSUME NEW m \in Node, NEW i \in DOMAIN pool[m], pool[m][i] = g
        PROVE  \/ th'[x].fd = g
               \/ \E k \in DOMAIN pool'[m] : pool'[m][k] = g
    <3>1. CASE m # n
      BY <1>2, <2>2, <3>1
    <3>2. CASE m = n /\ i = 1
      BY <1>1, <2>2, <3>2
    <3>3. CASE m = n /\ i # 1
      <4>1. i - 1 \in 1 .. Len(q) - 1 /\ (i - 1) + 1 = i
        BY <1>1, <3>3
      <4>2. Tail(q)[i - 1] = q[i]
        BY <1>2, <4>1
      <4> QED BY <1>2, <2>2, <3>3, <4>1, <4>2
    <3> QED BY <3>1, <3>2, <3>3
  <2> QED BY <1>0, <2>1, <2>2 DEF NoLeak
<1> QED BY <1>4, <1>5, <1>6 DEF FdsOK

\* The thread x opens a connection.
LEMMA FdsOpen ==
  ASSUME FdInv, NEW x \in Tx, NEW n \in Node, NEW f \in Fd, th[x].fd = NULL, conn[f] = NULL,
         th'[x].fd = f, th'[x].node = n, pool' = pool,
         conn' = [conn EXCEPT ![f] = NewConn(n)], \A y \in Tx : y # x => th'[y] = th[y]
  PROVE  FdsOK'
<1>0. Types /\ HeldOK /\ PoolOK /\ NoLeak
  BY DEF FdInv
<1>1. NewConn(n) \in Connection /\ NewConn(n) # NULL /\ NewConn(n).node = n
  <2>1. <<>> \in Seq(Request) /\ <<>> \in Seq(Message)
    OBVIOUS
  <2>2. NewConn(n) \in Connection /\ NewConn(n).node = n
    BY <2>1 DEF NewConn, Connection
  <2> QED BY <2>2, FdAssumption
<1>2. conn'[f] = NewConn(n) /\ \A g \in Fd : g # f => conn'[g] = conn[g]
  BY <1>0 DEF Types
<1>3. \A y \in Tx : th[y].fd # f
  BY <1>0, FdAssumption DEF HeldOK
<1>4. \A m \in Node : \A i \in DOMAIN pool[m] : pool[m][i] \in Fd /\ pool[m][i] # f
  BY <1>0, Parts, SeqParts DEF PoolOK
<1>5. \A y \in Tx : th[y].fd # NULL => th[y].fd \in Fd
  BY <1>0, Parts, ThreadFields
<1>6. HeldOK'
  BY <1>0, <1>1, <1>2, <1>3, <1>5, FdAssumption DEF HeldOK
<1>7. PoolOK'
  BY <1>0, <1>2, <1>4 DEF PoolOK
<1>8. NoLeak'
  BY <1>0, <1>1, <1>2, FdAssumption DEF NoLeak
<1> QED BY <1>6, <1>7, <1>8 DEF FdsOK

\* The thread x closes its connection.
LEMMA FdsClose ==
  ASSUME FdInv, NEW x \in Tx, Closes(x), th'[x].fd = NULL, \A y \in Tx : y # x => th'[y] = th[y]
  PROVE  FdsOK'
<1> DEFINE f == th[x].fd
<1>0. Types /\ HeldOK /\ PoolOK /\ NoLeak /\ f \in Fd
  BY InTry DEF FdInv, Closes
<1>1. conn'[f] = NULL /\ \A g \in Fd : g # f => conn'[g] = conn[g]
  BY <1>0 DEF Types, Closes, Closed
<1>2. f # NULL /\ \A y \in Tx : th[y].fd = f => y = x
  BY <1>0 DEF HeldOK, Closes
<1>3. \A m \in Node : \A i \in DOMAIN pool[m] : pool[m][i] \in Fd /\ pool[m][i] # f
  BY <1>0, Parts, SeqParts DEF PoolOK
<1>4. \A y \in Tx : th[y].fd # NULL => th[y].fd \in Fd
  BY <1>0, Parts, ThreadFields
<1> HIDE DEF f
<1>5. HeldOK'
  BY <1>0, <1>1, <1>2, <1>4 DEF HeldOK
<1>6. PoolOK'
  BY <1>0, <1>1, <1>3, FdAssumption DEF PoolOK, Closes
<1>7. NoLeak'
  BY <1>0, <1>1, <1>2 DEF NoLeak, Closes, f
<1> QED BY <1>5, <1>6, <1>7 DEF FdsOK

\* The thread x gives its connection, on which nothing is, to the pool.
LEMMA FdsPut ==
  ASSUME FdInv, NEW x \in Tx, th[x].pc = "ok", Len(pool[th[x].node]) < PoolLimit,
         pool' = [pool EXCEPT ![th[x].node] = Append(@, th[x].fd)], conn' = conn,
         th'[x].fd = NULL, \A y \in Tx : y # x => th'[y] = th[y]
  PROVE  FdsOK'
<1> DEFINE f == th[x].fd
           n == th[x].node
           q == pool[n]
<1>0. Types /\ HeldOK /\ PoolOK /\ NoLeak /\ f \in Fd /\ n \in Node /\ f # NULL
  BY InTry DEF FdInv
<1>1. /\ conn[f] # NULL /\ conn[f].node = n /\ conn[f].reqs = <<>> /\ conn[f].reps = <<>>
      /\ \A y \in Tx : th[y].fd = f => y = x
  BY <1>0 DEF HeldOK, FdInv, Wire
<1>2. q \in Seq(Fd) /\ Len(q) \in Nat /\ DOMAIN q = 1 .. Len(q)
  BY <1>0, Parts, SeqParts
<1>3. /\ pool'[n] = Append(q, f) /\ Len(Append(q, f)) = Len(q) + 1
      /\ DOMAIN Append(q, f) = 1 .. Len(q) + 1
      /\ \A i \in 1 .. Len(q) : Append(q, f)[i] = q[i]
      /\ Append(q, f)[Len(q) + 1] = f
      /\ \A m \in Node : m # n => pool'[m] = pool[m]
  BY <1>0, <1>2, AppendProperties DEF Types
<1>4. \A m \in Node : \A i \in DOMAIN pool[m] : pool[m][i] \in Fd /\ pool[m][i] # f
  BY <1>0, Parts, SeqParts DEF PoolOK
<1>5. \A m \in Node : \A i \in DOMAIN pool[m] : pool[m][i] # NULL
  BY <1>4, FdAssumption
<1>l. Len(q) < PoolLimit
  OBVIOUS
<1>h. th'[x].fd = NULL /\ \A y \in Tx : y # x => th'[y] = th[y]
  OBVIOUS
<1> HIDE DEF f, n, q
<1>6. HeldOK'
  BY <1>0, <1>1, <1>h DEF HeldOK
<1>7. PoolOK'
  <2> DEFINE E(m, p) ==
               /\ Len(p) <= PoolLimit
               /\ \A i \in DOMAIN p :
                    LET g == p[i] IN
                    /\ conn[g] # NULL /\ conn[g].node = m
                    /\ conn[g].reqs = <<>> /\ conn[g].reps = <<>>
                    /\ \A j \in DOMAIN p : p[j] = g => j = i
                    /\ \A y \in Tx : th'[y].fd # g
  <2> SUFFICES ASSUME NEW m \in Node PROVE E(m, pool'[m])
    BY DEF PoolOK
  <2>1. CASE m = n
    <3>1. Len(pool'[m]) <= PoolLimit
      BY <1>2, <1>3, <1>l, <2>1, PoolAssumption
    <3>2. ASSUME NEW i \in 1 .. Len(q) + 1
          PROVE  LET g == Append(q, f)[i] IN
                 /\ conn[g] # NULL /\ conn[g].node = m /\ conn[g].reqs = <<>> /\ conn[g].reps = <<>>
                 /\ \A j \in 1 .. Len(q) + 1 : Append(q, f)[j] = g => j = i
                 /\ \A y \in Tx : th'[y].fd # g
      <4>1. CASE i = Len(q) + 1
        <5>1. Append(q, f)[i] = f
          BY <1>3, <4>1
        <5>2. \A j \in 1 .. Len(q) : q[j] # f
          BY <1>0, <1>2, <1>4 DEF q
        <5>3. \A j \in 1 .. Len(q) + 1 : Append(q, f)[j] = f => j = i
          BY <1>2, <1>3, <4>1, <5>2
        <5> QED BY <1>0, <1>1, <1>h, <2>1, <5>1, <5>3
      <4>2. CASE i \in 1 .. Len(q)
        <5>1. Append(q, f)[i] = q[i] /\ i \in DOMAIN q
          BY <1>2, <1>3, <4>2
        <5>2. q[i] # f /\ q[i] # NULL
          BY <1>0, <1>4, <1>5, <5>1 DEF q
        <5>3. /\ conn[q[i]] # NULL /\ conn[q[i]].node = m /\ conn[q[i]].reqs = <<>>
              /\ conn[q[i]].reps = <<>>
              /\ \A j \in DOMAIN q : q[j] = q[i] => j = i
              /\ \A y \in Tx : th[y].fd # q[i]
          BY <1>0, <2>1, <5>1 DEF PoolOK, q
        <5>4. \A j \in 1 .. Len(q) + 1 : Append(q, f)[j] = q[i] => j = i
          BY <1>2, <1>3, <5>2, <5>3
        <5> QED BY <1>h, <5>1, <5>2, <5>3, <5>4
      <4> QED BY <1>2, <4>1, <4>2
    <3>3. pool'[m] = Append(q, f) /\ DOMAIN Append(q, f) = 1 .. Len(q) + 1
      BY <1>3, <2>1
    <3>4. E(m, Append(q, f))
      BY <3>1, <3>2, <3>3
    <3> HIDE DEF E
    <3> QED BY <3>3, <3>4
  <2>2. CASE m # n
    <3>1. pool'[m] = pool[m]
      BY <1>3, <2>2
    <3>2. \A i \in DOMAIN pool[m] : \A y \in Tx : th'[y].fd # pool[m][i]
      BY <1>0, <1>5, <1>h DEF PoolOK
    <3>p. Len(pool[m]) <= PoolLimit
      BY <1>0 DEF PoolOK
    <3>q. \A i \in DOMAIN pool[m] :
             /\ conn[pool[m][i]] # NULL /\ conn[pool[m][i]].node = m
             /\ conn[pool[m][i]].reqs = <<>> /\ conn[pool[m][i]].reps = <<>>
             /\ \A j \in DOMAIN pool[m] : pool[m][j] = pool[m][i] => j = i
      BY <1>0 DEF PoolOK
    <3>3. E(m, pool[m])
      BY <3>2, <3>p, <3>q
    <3> HIDE DEF E
    <3> QED BY <3>1, <3>3
  <2> QED BY <2>1, <2>2
<1>8. NoLeak'
  <2> SUFFICES ASSUME NEW g \in Fd, conn[g] # NULL
               PROVE  \/ \E y \in Tx : th'[y].fd = g
                      \/ \E m \in Node : \E i \in DOMAIN pool'[m] : pool'[m][i] = g
    BY DEF NoLeak
  <2>1. CASE g = f
    <3>1. Len(q) + 1 \in DOMAIN pool'[n] /\ pool'[n][Len(q) + 1] = g
      BY <1>2, <1>3, <2>1
    <3> QED BY <1>0, <3>1
  <2>2. ASSUME NEW y \in Tx, th[y].fd = g, g # f PROVE th'[y].fd = g
    BY <1>h, <2>2 DEF f
  <2>3. ASSUME NEW m \in Node, NEW i \in DOMAIN pool[m], pool[m][i] = g
        PROVE  i \in DOMAIN pool'[m] /\ pool'[m][i] = g
    <3>1. CASE m = n
      <4>1. i \in 1 .. Len(q) /\ i \in 1 .. Len(q) + 1 /\ q[i] = g
        BY <1>2, <2>3, <3>1 DEF q
      <4> QED BY <1>3, <3>1, <4>1
    <3>2. CASE m # n
      BY <1>3, <2>3, <3>2
    <3> QED BY <3>1, <3>2
  <2> QED BY <1>0, <2>1, <2>2, <2>3 DEF NoLeak
<1> QED BY <1>6, <1>7, <1>8 DEF FdsOK

-----------------------------------------------------------------------------
(* One step of a thread                                                    *)

\* What a step of the thread x does to the connections, and that none of another
\* thread is touched.
LEMMA StepRewires ==
  ASSUME FdInv, NEW x \in Tx, NEW f \in Fd, NEW d \in Connection \cup {NULL},
         conn' = [conn EXCEPT ![f] = d], th[x].fd = f \/ conn[f] = NULL
  PROVE  /\ conn' \in [Fd -> Connection \cup {NULL}] /\ conn'[f] = d
         /\ \A y \in Tx : y # x /\ th[y].fd # NULL => conn'[th[y].fd] = conn[th[y].fd]
<1>1. Types /\ HeldOK
  BY DEF FdInv
<1>2. conn' \in [Fd -> Connection \cup {NULL}] /\ conn'[f] = d
      /\ \A g \in Fd : g # f => conn'[g] = conn[g]
  BY <1>1 DEF Types
<1>3. ASSUME NEW y \in Tx, y # x, th[y].fd # NULL
      PROVE  conn'[th[y].fd] = conn[th[y].fd]
  <2>1. th[y].fd \in Fd /\ conn[th[y].fd] # NULL
    BY <1>1, <1>3, InTry DEF HeldOK
  <2>2. th[y].fd # f
    BY <1>1, <1>3, <2>1 DEF HeldOK
  <2> QED BY <1>2, <2>1, <2>2
<1> QED BY <1>2, <1>3

\* The connections of the threads but x are as they were.
Apart(x) ==
    /\ \A y \in Tx : y # x => th'[y] = th[y]
    /\ \A y \in Tx : y # x /\ th[y].fd # NULL => conn'[th[y].fd] = conn[th[y].fd]

\* A thread that does not move, whose connection is as it was, is well.
LEMMA StandsStill ==
  ASSUME FdInv, NEW y \in Tx, th'[y] = th[y],
         th[y].fd # NULL => conn'[th[y].fd] = conn[th[y].fd]
  PROVE  Control(y)' /\ Wire(y)'
<1>1. Control(y) /\ Wire(y)
  BY DEF FdInv
<1>2. Control(y)'
  BY <1>1 DEF Control
<1>3. Id(y)' = Id(y)
  BY DEF Id
<1>4. CASE th[y].fd = NULL
  BY <1>1, <1>4 DEF Control, Wire
<1>5. CASE th[y].fd # NULL
  <2>1. th'[y] = th[y] /\ conn'[th'[y].fd] = conn[th[y].fd]
    BY <1>5
  <2> QED BY <1>1, <1>2, <1>3, <2>1 DEF Wire
<1> QED BY <1>2, <1>4, <1>5

\* Closing gives types back.
LEMMA CloseTypes ==
  ASSUME FdInv, NEW x \in Tx, Closes(x)
  PROVE  /\ conn' \in [Fd -> Connection \cup {NULL}] /\ orphans' \subseteq Request
         /\ pool' \in [Node -> Seq(Fd)]
         /\ \A y \in Tx : y # x /\ th[y].fd # NULL => conn'[th[y].fd] = conn[th[y].fd]
<1>1. Types /\ th[x].fd \in Fd /\ conn[th[x].fd] \in Connection
  BY InTry DEF Closes
<1>2. conn[th[x].fd].reqs \in Seq(Request)
  BY <1>1, ConnectionFields
<1>3. ToSet(conn[th[x].fd].reqs) \subseteq Request
  BY <1>2, SeqParts
<1>4. orphans' \subseteq Request /\ pool' \in [Node -> Seq(Fd)]
  BY <1>1, <1>3 DEF Types, Closes, LeftBehind
<1>5. conn' = [conn EXCEPT ![th[x].fd] = NULL]
  BY DEF Closes, Closed
<1> QED BY <1>1, <1>4, <1>5, StepRewires

\* What a step of a thread has to show.
Moved(x) == Types' /\ FdsOK' /\ Control(x)' /\ Wire(x)' /\ Apart(x)

\* Moved holds of the beginning of a call,
LEMMA BeginMoves ==
  ASSUME FdInv, NEW x \in Tx, Begin(x)
  PROVE  Moved(x)
<1>0. Types /\ Control(x) /\ th[x] \in Thread
  BY InTry DEF FdInv
<1>1. Types'
  BY <1>0, BeginDoes DEF Types
<1>2. Apart(x)
  BY <1>0, OthersStay, BeginDoes DEF Apart
<1>3. th[x].fd = NULL /\ th'[x].fd = NULL
  BY <1>0, BeginDoes DEF Control
<1>4. FdsOK'
  BY <1>0, <1>2, <1>3, BeginDoes, FdsStay DEF Apart
<1>5. Control(x)'
  <2>1. th[x].call \in Nat
    BY <1>0, ThreadFields, CallsAssumption
  <2> QED BY <1>0, <2>1, BeginDoes, TryAssumption DEF Control
<1>6. Wire(x)'
  BY <1>0, BeginDoes DEF Wire
<1> QED BY <1>1, <1>2, <1>4, <1>5, <1>6 DEF Moved

\* of the choice of a node,
LEMMA NodeGetMoves ==
  ASSUME FdInv, NEW x \in Tx, NodeGet(x)
  PROVE  Moved(x)
<1>0. Types /\ Control(x) /\ th[x] \in Thread
  BY InTry DEF FdInv
<1>1. Types'
  BY <1>0, NodeGetDoes DEF Types
<1>2. Apart(x)
  BY <1>0, OthersStay, NodeGetDoes DEF Apart, Step
<1>3. th[x].fd = NULL /\ th'[x].fd = NULL
  BY <1>0, NodeGetDoes DEF Control
<1>4. FdsOK'
  BY <1>0, <1>2, <1>3, NodeGetDoes, FdsStay DEF Apart
<1>5. Control(x)'
  <2>1. th[x].try \in 0 .. MaxTry /\ th[x].sent \in 0 .. MaxTry /\ th[x].call \in Nat
    BY <1>0, ThreadFields, CallsAssumption
  <2>2. /\ th'[x].try = th[x].try + 1 \/ (th'[x].try = th[x].try /\ th[x].try = MaxTry)
        /\ th'[x].try >= 1 /\ th'[x].sent = th[x].sent
    BY <1>0, <2>1, NodeGetDoes, CountType
  <2>3. th'[x].sent <= th'[x].try /\ (th'[x].sent < th'[x].try \/ th'[x].try = MaxTry)
    BY <1>0, <2>1, <2>2, TryAssumption DEF Control
  <2>4. th[x].pol = "ONESHOT" => th'[x].try <= 1
    BY <1>0, <2>1, <2>2, NodeGetDoes, TryAssumption DEF Control
  <2> QED BY <1>0, <1>3, <2>1, <2>2, <2>3, <2>4, NodeGetDoes, FdAssumption DEF Control
<1>6. Wire(x)'
  BY <1>0, <1>3, NodeGetDoes DEF Wire
<1> QED BY <1>1, <1>2, <1>4, <1>5, <1>6 DEF Moved

\* of a deadline that passes,
LEMMA DeadlineMoves ==
  ASSUME FdInv, NEW x \in Tx, DeadlinePasses(x)
  PROVE  Moved(x)
<1>0. Types /\ Control(x) /\ th[x] \in Thread /\ Wire(x)
  BY InTry DEF FdInv
<1>1. Types'
  BY <1>0, DeadlineDoes DEF Types
<1>2. Apart(x)
  BY <1>0, OthersStay, DeadlineDoes DEF Apart
<1>4. FdsOK'
  BY <1>0, <1>2, DeadlineDoes, FdsStay DEF Apart
<1>5. Control(x)'
  BY <1>0, DeadlineDoes DEF Control, Keeps
<1>6. Wire(x)'
  <2>1. Id(x)' = Id(x)
    BY <1>0, DeadlineDoes DEF Id, Keeps
  <2> QED BY <1>0, <2>1, DeadlineDoes DEF Wire, Keeps
<1> QED BY <1>1, <1>2, <1>4, <1>5, <1>6 DEF Moved

\* of a buffer that cannot be allocated,
LEMMA MallocMoves ==
  ASSUME FdInv, NEW x \in Tx, MallocFails(x)
  PROVE  Moved(x)
<1>0. Types /\ Control(x) /\ th[x] \in Thread /\ Wire(x)
  BY InTry DEF FdInv
<1>1. Types'
  BY <1>0, MallocDoes, CloseTypes DEF Types
<1>2. Apart(x)
  BY <1>0, OthersStay, MallocDoes, CloseTypes DEF Apart, Step
<1>4. FdsOK'
  BY <1>0, <1>2, MallocDoes, FdsClose DEF Apart
<1>5. Control(x)'
  BY <1>0, MallocDoes DEF Control, Keeps
<1>6. Wire(x)'
  BY <1>0, MallocDoes DEF Wire
<1> QED BY <1>1, <1>2, <1>4, <1>5, <1>6 DEF Moved

\* of the retry after a failed try,
LEMMA RetryMoves ==
  ASSUME FdInv, NEW x \in Tx, Retry(x)
  PROVE  Moved(x)
<1>0. Types /\ Control(x) /\ th[x] \in Thread /\ Wire(x)
  BY InTry DEF FdInv
<1>1. Types'
  BY <1>0, RetryDoes, CloseTypes DEF Types
<1>2. Apart(x)
  BY <1>0, OthersStay, RetryDoes, CloseTypes DEF Apart, Step
<1>4. FdsOK'
  <2>1. CASE Closes(x)
    BY <1>0, <1>2, <2>1, RetryDoes, FdsClose DEF Apart
  <2>2. CASE th[x].fd = NULL /\ UNCHANGED <<conn, orphans>>
    BY <1>0, <1>2, <2>2, RetryDoes, FdsStay DEF Apart
  <2> QED BY <2>1, <2>2, RetryDoes
<1>5. Control(x)'
  BY <1>0, RetryDoes DEF Control, Keeps
<1>6. Wire(x)'
  BY <1>0, RetryDoes DEF Wire
<1> QED BY <1>1, <1>2, <1>4, <1>5, <1>6 DEF Moved

\* of the end of a call that was answered,
LEMMA OkMoves ==
  ASSUME FdInv, NEW x \in Tx, Ok(x)
  PROVE  Moved(x)
<1>0. Types /\ Control(x) /\ th[x] \in Thread /\ Wire(x) /\ th[x].fd \in Fd /\ th[x].node \in Node
  BY InTry, OkDoes DEF FdInv
<1>1. ASSUME Closes(x) PROVE Types' /\ Apart(x) /\ FdsOK'
  <2>1. Types'
    BY <1>0, <1>1, OkDoes, CloseTypes DEF Types
  <2>2. Apart(x)
    BY <1>0, <1>1, OthersStay, OkDoes, CloseTypes DEF Apart, Step
  <2>3. FdsOK'
    BY <1>0, <1>1, <2>2, OkDoes, FdsClose DEF Apart
  <2> QED BY <2>1, <2>2, <2>3
<1>2. ASSUME Len(pool[th[x].node]) < PoolLimit, UNCHANGED <<conn, orphans>>,
             pool' = [pool EXCEPT ![th[x].node] = Append(@, th[x].fd)]
      PROVE  Types' /\ Apart(x) /\ FdsOK'
  <2>1. Append(pool[th[x].node], th[x].fd) \in Seq(Fd)
    BY <1>0, Parts, SeqParts
  <2>2. pool' \in [Node -> Seq(Fd)]
    BY <1>0, <1>2, <2>1 DEF Types
  <2>3. Types'
    BY <1>0, <1>2, <2>2, OkDoes DEF Types
  <2>4. Apart(x)
    BY <1>0, <1>2, OthersStay DEF Apart, Step
  <2>5. FdsOK'
    BY <1>0, <1>2, <2>4, OkDoes, FdsPut DEF Apart
  <2> QED BY <2>3, <2>4, <2>5
<1>3. Types' /\ Apart(x) /\ FdsOK'
  BY <1>1, <1>2, OkDoes
<1>5. Control(x)'
  BY <1>0, OkDoes DEF Control, Keeps
<1>6. Wire(x)'
  BY <1>0, OkDoes DEF Wire
<1> QED BY <1>3, <1>5, <1>6 DEF Moved

\* of taking or opening a connection,
LEMMA FdGetMoves ==
  ASSUME FdInv, NEW x \in Tx, cl_cluster_node_fd_get(x)
  PROVE  Moved(x)
<1> DEFINE n == th[x].node
<1>0. Types /\ Control(x) /\ th[x] \in Thread /\ n \in Node /\ th[x].fd = NULL /\ th[x].pc = "fd"
      /\ pool[n] \in Seq(Fd)
  BY InTry, FdGetDoes, Parts DEF FdInv
<1>o. \A y \in Tx : y # x => th'[y] = th[y]
  BY <1>0, OthersStay DEF Step
<1>c. /\ th'[x].fd # NULL \/ th'[x].pc # "write"
      /\ th'[x].pc = "write" \/ (th'[x].pc = "retry" /\ th'[x].fd = NULL)
      => Control(x)'
  BY <1>0, FdGetDoes DEF Control, Keeps
<1>1. CASE /\ pool[n] # <<>> /\ th'[x].fd = Head(pool[n])
           /\ pool' = [pool EXCEPT ![n] = Tail(@)] /\ th'[x].pc = "write" /\ conn' = conn
  <2>1. Head(pool[n]) \in Fd /\ Tail(pool[n]) \in Seq(Fd) /\ Head(pool[n]) = pool[n][1]
        /\ 1 \in DOMAIN pool[n]
    BY <1>0, <1>1, SeqParts
  <2>2. pool' \in [Node -> Seq(Fd)]
    BY <1>0, <1>1, <2>1 DEF Types
  <2>3. Types'
    BY <1>0, <1>1, <2>2, FdGetDoes DEF Types
  <2>4. Apart(x)
    BY <1>1, <1>o DEF Apart
  <2>5. FdsOK'
    BY <1>0, <1>1, <1>o, FdGetDoes, FdsTake
  <2>6. Control(x)'
    BY <1>1, <1>c, <2>1, FdAssumption
  <2>7. conn[Head(pool[n])].reqs = <<>> /\ conn[Head(pool[n])].reps = <<>>
    BY <1>0, <2>1 DEF FdInv, PoolOK
  <2>8. Wire(x)'
    BY <1>1, <2>7 DEF Wire
  <2> QED BY <2>3, <2>4, <2>5, <2>6, <2>8 DEF Moved
<1>2. CASE th'[x].pc = "retry" /\ th'[x].fd = NULL /\ UNCHANGED <<pool, conn>>
  <2>1. Types'
    BY <1>0, <1>2, FdGetDoes DEF Types
  <2>2. Apart(x)
    BY <1>2, <1>o DEF Apart
  <2>3. FdsOK'
    BY <1>0, <1>2, <1>o, FdsStay
  <2>4. Wire(x)'
    BY <1>2 DEF Wire
  <2> QED BY <1>2, <1>c, <2>1, <2>2, <2>3, <2>4 DEF Moved
<1>3. ASSUME NEW f \in Fd, conn[f] = NULL, conn' = [conn EXCEPT ![f] = NewConn(n)],
             th'[x].fd = f, th'[x].pc = "write", pool' = pool
      PROVE  Moved(x)
  <2>1. NewConn(n) \in Connection /\ NewConn(n).reqs = <<>> /\ NewConn(n).reps = <<>>
    <3>1. <<>> \in Seq(Request) /\ <<>> \in Seq(Message)
      OBVIOUS
    <3> QED BY <1>0, <3>1 DEF NewConn, Connection
  <2>2. /\ conn' \in [Fd -> Connection \cup {NULL}] /\ conn'[f] = NewConn(n)
        /\ \A y \in Tx : y # x /\ th[y].fd # NULL => conn'[th[y].fd] = conn[th[y].fd]
    <3>1. NewConn(n) \in Connection \cup {NULL}
      BY <2>1
    <3> HIDE DEF n
    <3> QED BY <1>3, <3>1, StepRewires
  <2>3. Types'
    BY <1>0, <1>3, <2>2, FdGetDoes DEF Types
  <2>4. Apart(x)
    BY <1>o, <2>2 DEF Apart
  <2>5. FdsOK'
    BY <1>0, <1>3, <1>o, FdGetDoes, FdsOpen
  <2>6. Control(x)'
    BY <1>3, <1>c, FdAssumption
  <2>7. Wire(x)'
    BY <1>3, <2>1, <2>2 DEF Wire
  <2> QED BY <2>3, <2>4, <2>5, <2>6, <2>7 DEF Moved
<1> QED BY <1>1, <1>2, <1>3, FdGetDoes

\* A step within the try, on the thread's own connection.
LEMMA WithinMoves ==
  ASSUME FdInv, NEW x \in Tx, Step(x), th[x].fd # NULL, th' \in [Tx -> Thread],
         UNCHANGED <<pool, orphans, exists, applied>>,
         th'[x].fd = th[x].fd, th'[x].node = th[x].node, NEW d,
         conn' = conn \/ Rewired(th[x].fd, d)
  PROVE  Types' /\ FdsOK' /\ Apart(x)
<1>0. Types /\ th[x].fd \in Fd
  BY InTry
<1>o. \A y \in Tx : y # x => th'[y] = th[y]
  BY <1>0, OthersStay
<1>1. /\ conn' \in [Fd -> Connection \cup {NULL}]
      /\ \A y \in Tx : y # x /\ th[y].fd # NULL => conn'[th[y].fd] = conn[th[y].fd]
  <2>1. CASE conn' = conn
    BY <1>0, <2>1 DEF Types
  <2>2. CASE Rewired(th[x].fd, d)
    BY <1>0, <2>2, StepRewires DEF Rewired
  <2> QED BY <2>1, <2>2
<1>2. Types'
  BY <1>0, <1>1 DEF Types
<1>3. FdsOK'
  BY <1>o, FdsStay
<1> QED BY <1>o, <1>1, <1>2, <1>3 DEF Apart

\* of the write of the request,
LEMMA SendRequestMoves ==
  ASSUME FdInv, NEW x \in Tx, SendRequest(x)
  PROVE  Moved(x)
<1> DEFINE f == th[x].fd
<1>0. Types /\ Control(x) /\ th[x] \in Thread /\ Wire(x) /\ f \in Fd /\ f # NULL
      /\ th[x].pc = "write"
  BY InTry, SendRequestDoes DEF FdInv
<1>i. Id(x)' = Id(x)
  BY SendRequestDoes DEF Id, Keeps
<1>t. th[x].try \in 0 .. MaxTry /\ th[x].sent \in 0 .. MaxTry
  BY <1>0, ThreadFields
<1>1. CASE /\ th'[x].pc = "header" /\ th'[x].sent = Count(th[x].sent)
           /\ conn' = [conn EXCEPT ![th[x].fd].reqs = Append(@, [id |-> Id(x), op |-> th[x].op])]
  <2>1. PICK d : /\ Rewired(f, d) /\ d.reqs = <<[id |-> Id(x), op |-> th[x].op]>>
                 /\ d.reps = <<>>
    BY <1>0, <1>1, SendRewires
  <2>2. Types' /\ FdsOK' /\ Apart(x)
    BY <1>0, <2>1, WithinMoves, SendRequestDoes DEF Step
  <2>3. conn'[f] = d
    BY <1>0, <2>1 DEF Rewired, Types
  <2>4. Control(x)'
    <3>1. th'[x].sent <= th'[x].try
      <4>1. th[x].sent <= th[x].try /\ (th[x].sent < th[x].try \/ th[x].try = MaxTry)
        BY <1>0 DEF Control
      <4>2. th'[x].try = th[x].try
        BY SendRequestDoes DEF Keeps
      <4>3. Count(th[x].sent) <= th[x].try
        BY <1>t, <4>1, TryAssumption DEF Count
      <4> QED BY <1>1, <4>2, <4>3
    <3> QED BY <1>0, <1>1, <3>1, SendRequestDoes DEF Control, Keeps
  <2>5. Wire(x)'
    <3>1. Len(d.reqs) = 1 /\ d.reqs[1].id = Id(x)' /\ d.reqs[1].op = th[x].op /\ d.reps = <<>>
      BY <1>i, <2>1
    <3>2. th'[x].fd = f /\ th'[x].op = th[x].op
      BY SendRequestDoes DEF Keeps
    <3> HIDE DEF f
    <3> QED BY <1>1, <2>3, <3>1, <3>2 DEF Wire
  <2> QED BY <2>2, <2>4, <2>5 DEF Moved
<1>2. CASE Failed(x) /\ th'[x].sent = th[x].sent
  <2>1. conn' = conn /\ th'[x].pc = "retry"
    BY <1>2 DEF Failed
  <2>2. Types' /\ FdsOK' /\ Apart(x)
    BY <1>0, <2>1, WithinMoves, SendRequestDoes DEF Step
  <2>4. Control(x)'
    BY <1>0, <1>2, <2>1, SendRequestDoes DEF Control, Keeps
  <2>5. Wire(x)'
    BY <1>0, <1>i, <2>1, SendRequestDoes DEF Wire, Keeps
  <2> QED BY <2>2, <2>4, <2>5 DEF Moved
<1> QED BY <1>1, <1>2, SendRequestDoes

\* of the read of the reply's header,
LEMMA ReadHeaderMoves ==
  ASSUME FdInv, NEW x \in Tx, ReadHeader(x)
  PROVE  Moved(x)
<1> DEFINE f == th[x].fd
<1>0. Types /\ Control(x) /\ th[x] \in Thread /\ Wire(x) /\ f \in Fd /\ f # NULL
      /\ th[x].pc = "header" /\ conn[f].reps \in Seq(Message)
  BY InTry, ReadHeaderDoes, ConnectionFields DEF FdInv
<1>i. Id(x)' = Id(x)
  BY ReadHeaderDoes DEF Id, Keeps
<1>r. ASSUME conn[f].reps # <<>>
      PROVE  /\ Head(conn[f].reps) \in Message /\ Head(conn[f].reps).id = Id(x)
             /\ conn[f].reps = <<Head(conn[f].reps)>> /\ conn[f].reqs = <<>>
  <2>1. Len(conn[f].reps) = 1 /\ conn[f].reps[1].id = Id(x) /\ conn[f].reqs = <<>>
    BY <1>0, <1>r DEF Wire
  <2> QED BY <1>0, <2>1, SeqOne
<1>1. CASE /\ conn[f].reps # <<>> /\ th'[x].msg = Head(conn[f].reps)
           /\ th'[x].pc = "body" /\ conn' = conn
  <2>2. Types' /\ FdsOK' /\ Apart(x)
    BY <1>0, <1>1, WithinMoves, ReadHeaderDoes DEF Step
  <2>4. Control(x)'
    BY <1>0, <1>1, <1>r, ReadHeaderDoes DEF Control, Keeps
  <2>5. Wire(x)'
    BY <1>0, <1>1, <1>i, <1>r, ReadHeaderDoes DEF Wire, Keeps
  <2> QED BY <2>2, <2>4, <2>5 DEF Moved
<1>2. CASE /\ conn[f].reps # <<>> /\ th'[x].msg = Head(conn[f].reps)
           /\ th'[x].pc = "ok" /\ conn' = [conn EXCEPT ![f].reps = Tail(@)]
  <2>1. PICK d : Rewired(f, d) /\ d.reqs = <<>> /\ d.reps = <<>>
    BY <1>0, <1>2, ReadRewires
  <2>2. Types' /\ FdsOK' /\ Apart(x)
    BY <1>0, <2>1, WithinMoves, ReadHeaderDoes DEF Step
  <2>3. conn'[f] = d
    BY <1>0, <2>1 DEF Rewired, Types
  <2>4. Control(x)'
    BY <1>0, <1>2, <1>r, ReadHeaderDoes DEF Control, Keeps
  <2>5. Wire(x)'
    BY <1>0, <1>2, <1>i, <1>r, <2>1, <2>3, ReadHeaderDoes DEF Wire, Keeps
  <2> QED BY <2>2, <2>4, <2>5 DEF Moved
<1>3. CASE Failed(x)
  <2>1. conn' = conn /\ th'[x].pc = "retry"
    BY <1>3 DEF Failed
  <2>2. Types' /\ FdsOK' /\ Apart(x)
    BY <1>0, <2>1, WithinMoves, ReadHeaderDoes DEF Step
  <2>4. Control(x)'
    BY <1>0, <2>1, ReadHeaderDoes DEF Control, Keeps
  <2>5. Wire(x)'
    BY <1>0, <1>i, <2>1, ReadHeaderDoes DEF Wire, Keeps
  <2> QED BY <2>2, <2>4, <2>5 DEF Moved
<1> QED BY <1>1, <1>2, <1>3, ReadHeaderDoes

\* and of the read of its body.
LEMMA ReadBodyMoves ==
  ASSUME FdInv, NEW x \in Tx, ReadBody(x)
  PROVE  Moved(x)
<1> DEFINE f == th[x].fd
<1>0. Types /\ Control(x) /\ th[x] \in Thread /\ Wire(x) /\ f \in Fd /\ f # NULL
      /\ th[x].pc = "body"
  BY InTry, ReadBodyDoes DEF FdInv
<1>i. Id(x)' = Id(x)
  BY ReadBodyDoes DEF Id, Keeps
<1>2. CASE /\ conn[f].reps # <<>>
           /\ th'[x].pc = "ok" /\ conn' = [conn EXCEPT ![f].reps = Tail(@)]
  <2>1. PICK d : Rewired(f, d) /\ d.reqs = <<>> /\ d.reps = <<>>
    BY <1>0, <1>2, ReadRewires
  <2>2. Types' /\ FdsOK' /\ Apart(x)
    BY <1>0, <2>1, WithinMoves, ReadBodyDoes DEF Step
  <2>3. conn'[f] = d
    BY <1>0, <2>1 DEF Rewired, Types
  <2>4. Control(x)'
    BY <1>0, <1>2, ReadBodyDoes DEF Control, Keeps
  <2>5. Wire(x)'
    BY <1>0, <1>2, <1>i, <2>1, <2>3, ReadBodyDoes DEF Wire, Keeps
  <2> QED BY <2>2, <2>4, <2>5 DEF Moved
<1>3. CASE Failed(x)
  <2>1. conn' = conn /\ th'[x].pc = "retry"
    BY <1>3 DEF Failed
  <2>2. Types' /\ FdsOK' /\ Apart(x)
    BY <1>0, <2>1, WithinMoves, ReadBodyDoes DEF Step
  <2>4. Control(x)'
    BY <1>0, <2>1, ReadBodyDoes DEF Control, Keeps
  <2>5. Wire(x)'
    BY <1>0, <1>i, <2>1, ReadBodyDoes DEF Wire, Keeps
  <2> QED BY <2>2, <2>4, <2>5 DEF Moved
<1> QED BY <1>2, <1>3, ReadBodyDoes

\* A thread's step keeps descriptors and connections in order.
LEMMA StepMoves ==
  ASSUME FdInv, NEW x \in Tx, Begin(x) \/ Step(x) \/ DeadlinePasses(x)
  PROVE  Moved(x)
  BY BeginMoves, NodeGetMoves, FdGetMoves, SendRequestMoves, ReadHeaderMoves, MallocMoves,
    ReadBodyMoves, RetryMoves, OkMoves, DeadlineMoves DEF Step

\* A step of a calling thread keeps FdInv,
LEMMA ThreadFdInv ==
  ASSUME FdInv, NEW x \in Tx, Begin(x) \/ Step(x) \/ DeadlinePasses(x)
  PROVE  FdInv'
<1>1. Moved(x)
  BY StepMoves
<1>2. ASSUME NEW y \in Tx, y # x PROVE Control(y)' /\ Wire(y)'
  BY <1>1, <1>2, StandsStill DEF Moved, Apart
<1>3. Control(x)' /\ Wire(x)' /\ Types' /\ HeldOK' /\ PoolOK' /\ NoLeak'
  BY <1>1 DEF Moved, FdsOK
<1> QED BY <1>2, <1>3 DEF FdInv

-----------------------------------------------------------------------------
(* The servers                                                             *)

\* What a server does to the connection f; no other connection changes.
LEMMA ServerFdInv ==
  ASSUME FdInv, NEW f \in Fd, NEW d, Rewired(f, d), UNCHANGED <<th, pool>>, Types',
         \/ \E x \in Tx : th[x].fd = f
         \/ conn[f].reqs = <<>> => d.reqs = <<>> /\ d.reps = conn[f].reps,
         \A x \in Tx : th[x].fd = f => Wire(x)'
  PROVE  FdInv'
<1>0. Types /\ HeldOK
  BY DEF FdInv
<1>1. FdsOK'
  BY FdsStay
<1>2. \A g \in Fd : g # f => conn'[g] = conn[g]
  BY <1>0 DEF Rewired, Types
<1>3. ASSUME NEW y \in Tx PROVE Control(y)' /\ Wire(y)'
  <2>1. CASE th[y].fd = f
    <3>1. Control(y)'
      BY DEF FdInv, Control
    <3> QED BY <2>1, <3>1
  <2>2. CASE th[y].fd # f
    <3>1. th[y].fd # NULL => conn'[th[y].fd] = conn[th[y].fd]
      BY <1>2, <2>2, InTry
    <3> QED BY <3>1, StandsStill
  <2> QED BY <2>1, <2>2
<1> QED BY <1>1, <1>3 DEF FdInv, FdsOK

\* and so does a server that answers,
LEMMA ServeFdInv ==
  ASSUME FdInv, NEW f \in Fd, Serve(f)
  PROVE  FdInv'
<1>0. Types /\ HeldOK
  BY DEF FdInv
<1>1. PICK x \in Tx, r \in Request : \E rep \in Reply(r) : \E d : Served(f, x, r, rep, d)
  BY ServeRewires
<1>a. PICK rep \in Reply(r) : \E d : Served(f, x, r, rep, d)
  BY <1>1
<1>b. PICK d : Served(f, x, r, rep, d)
  BY <1>a
<1>2. /\ th[x].fd = f /\ conn[f].reqs = <<r>> /\ conn[f].reps = <<>>
      /\ r.id = Id(x) /\ r.op = th[x].op /\ Effect(r)
      /\ Rewired(f, d) /\ d.reqs = <<>> /\ d.reps = <<rep>>
      /\ UNCHANGED <<th, pool, orphans>>
  BY <1>b DEF Served
<1>3. rep \in Message /\ rep.id = Id(x)
  BY <1>2, ReplyType
<1>4. exists' \in BOOLEAN /\ applied' \in [Call -> 0 .. MaxTry]
  BY <1>0, <1>2, EffectDoes
<1>5. conn' \in [Fd -> Connection \cup {NULL}] /\ conn'[f] = d
  BY <1>0, <1>2 DEF Types, Rewired
<1>6. Types'
  BY <1>0, <1>2, <1>4, <1>5 DEF Types
<1>7. Wire(x)'
  <2>1. th[x].pc \notin {"write", "ok", "body"}
    <3>1. conn[th[x].fd].reqs # <<>>
      BY <1>2
    <3> QED BY <3>1 DEF FdInv, Wire
  <2>2. Id(x)' = Id(x)
    BY <1>2 DEF Id
  <2>3. Len(d.reps) = 1 /\ d.reps[1].id = Id(x)' /\ d.reqs = <<>>
    BY <1>2, <1>3, <2>2
  <2>4. th'[x] = th[x] /\ conn'[th'[x].fd] = d
    BY <1>2, <1>5
  <2> QED BY <2>1, <2>3, <2>4 DEF Wire
<1>8. \A y \in Tx : th[y].fd = f => y = x
  BY <1>0, <1>2, FdAssumption DEF HeldOK
<1> QED BY <1>2, <1>6, <1>7, <1>8, ServerFdInv

\* one that hangs up,
LEMMA HangupFdInv ==
  ASSUME FdInv, NEW f \in Fd, Hangup(f)
  PROVE  FdInv'
<1>0. Types /\ HeldOK /\ conn[f] \in Connection
  BY Parts DEF FdInv, Hangup
<1>1. PICK d : /\ Rewired(f, d) /\ d.reqs = <<>> /\ d.reps = conn[f].reps
               /\ UNCHANGED <<th, pool, exists, applied>>
               /\ LeftBehind(f) \/ orphans' = orphans
  BY HangupRewires
<1>2. conn' \in [Fd -> Connection \cup {NULL}] /\ conn'[f] = d
  BY <1>0, <1>1 DEF Types, Rewired
<1>3. orphans' \subseteq Request
  <2>1. ToSet(conn[f].reqs) \subseteq Request
    BY <1>0, ConnectionFields, SeqParts
  <2> QED BY <1>0, <1>1, <2>1 DEF Types, LeftBehind
<1>4. Types'
  BY <1>0, <1>1, <1>2, <1>3 DEF Types
<1>5. ASSUME NEW x \in Tx, th[x].fd = f PROVE Wire(x)'
  <2>1. Id(x)' = Id(x)
    BY <1>1 DEF Id
  <2>2. th'[x] = th[x] /\ conn'[th'[x].fd] = d /\ th[x].fd # NULL
    BY <1>1, <1>2, <1>5, FdAssumption
  <2>3. Wire(x)
    BY DEF FdInv
  <2> QED BY <1>1, <1>5, <2>1, <2>2, <2>3 DEF Wire
<1> QED BY <1>1, <1>4, <1>5, ServerFdInv

\* and one that carries out a request whose connection is gone.
LEMMA OrphanFdInv ==
  ASSUME FdInv, NEW r \in orphans, ServeOrphan(r)
  PROVE  FdInv'
<1>0. Types /\ r \in Request
  BY DEF FdInv, Types
<1>1. Types'
  BY <1>0, EffectDoes DEF Types, ServeOrphan
<1>2. FdsOK'
  BY FdsStay DEF ServeOrphan
<1>3. ASSUME NEW y \in Tx PROVE Control(y)' /\ Wire(y)'
  BY StandsStill DEF ServeOrphan
<1> QED BY <1>1, <1>2, <1>3 DEF FdInv, FdsOK

-----------------------------------------------------------------------------
(* Descriptors and connections, for every behaviour                        *)

\* FdInv holds when no call has begun.
LEMMA InitFdInv ==
  ASSUME Init
  PROVE  FdInv
<1>1. \A x \in Tx : th[x] = Locals("idle", "read", "none", "none", NULL, 0)
  BY DEF Init
<1>2. Locals("idle", "read", "none", "none", NULL, 0) \in Thread
  BY LocalsType, CallsAssumption DEF Place, Op, Policy
<1>3. th \in [Tx -> Thread]
  BY <1>1, <1>2 DEF Init
<1>4. Types
  <2>1. pool \in [Node -> Seq(Fd)] /\ conn \in [Fd -> Connection \cup {NULL}]
    BY DEF Init
  <2>2. orphans \in SUBSET Request /\ exists \in BOOLEAN
    BY DEF Init
  <2>3. applied \in [Call -> 0 .. MaxTry]
    BY TryAssumption DEF Init
  <2> QED BY <1>3, <2>1, <2>2, <2>3 DEF Types
<1>5. \A x \in Tx : /\ th[x].fd = NULL /\ th[x].pc = "idle" /\ th[x].try = 0 /\ th[x].sent = 0
                    /\ th[x].node = NULL /\ th[x].pol = "none"
  BY <1>1 DEF Locals
<1>6. HeldOK /\ NoLeak
  BY <1>5 DEF HeldOK, NoLeak, Init
<1>7. PoolOK
  BY PoolAssumption DEF PoolOK, Init
<1>8. ASSUME NEW x \in Tx PROVE Control(x) /\ Wire(x)
  BY <1>5 DEF Control, Wire
<1> QED BY <1>4, <1>6, <1>7, <1>8 DEF FdInv

\* Every step keeps FdInv.
LEMMA NextFdInv ==
  ASSUME FdInv, [Next]_vars
  PROVE  FdInv'
<1>1. CASE UNCHANGED vars
  <2>1. Types' /\ HeldOK' /\ PoolOK' /\ NoLeak'
    BY <1>1 DEF vars, FdInv, Types, HeldOK, PoolOK, NoLeak
  <2>2. ASSUME NEW y \in Tx PROVE Control(y)' /\ Wire(y)'
    BY <1>1, StandsStill DEF vars
  <2> QED BY <2>1, <2>2 DEF FdInv
<1> QED BY <1>1, ThreadFdInv, ServeFdInv, HangupFdInv, OrphanFdInv DEF Next

\* FdInv accounts for every descriptor.
LEMMA FdsAccountedFrom ==
  ASSUME FdInv
  PROVE  FdsAccounted
<1>0. Types /\ HeldOK /\ PoolOK /\ NoLeak
  BY DEF FdInv
<1> SUFFICES ASSUME NEW f \in Fd
             PROVE  /\ Cardinality(Held(f)) + Cardinality(Pooled(f)) =
                        IF conn[f] = NULL THEN 0 ELSE 1
                    /\ \A x \in Held(f) : th[x].node = conn[f].node
                    /\ \A k \in Pooled(f) : k[1] = conn[f].node
  BY DEF FdsAccounted
<1>f. f # NULL
  BY FdAssumption
<1>1. \A x \in Held(f) : conn[f] # NULL /\ th[x].node = conn[f].node
  BY <1>0, <1>f DEF Held, HeldOK
<1>2. ASSUME NEW k \in Pooled(f)
      PROVE  /\ k[1] \in Node /\ k[2] \in DOMAIN pool[k[1]] /\ pool[k[1]][k[2]] = f
             /\ conn[f] # NULL /\ k[1] = conn[f].node /\ Held(f) = {}
  BY <1>0 DEF Pooled, PoolOK, Held
<1>3. Cardinality({}) = 0
  BY FS_EmptySet
<1>4. CASE conn[f] = NULL
  <2>1. Held(f) = {} /\ Pooled(f) = {}
    BY <1>1, <1>2, <1>4
  <2> QED BY <1>1, <1>2, <1>3, <1>4, <2>1
<1>5. ASSUME conn[f] # NULL, NEW x \in Tx, th[x].fd = f
      PROVE  Cardinality(Held(f)) + Cardinality(Pooled(f)) = 1
  <2>1. Held(f) = {x}
    BY <1>0, <1>5, <1>f DEF Held, HeldOK
  <2>2. Pooled(f) = {}
    BY <1>2, <2>1
  <2>3. Cardinality({x}) = 1
    BY FS_Singleton
  <2> QED BY <1>3, <2>1, <2>2, <2>3
<1>6. ASSUME conn[f] # NULL, NEW n \in Node, NEW i \in DOMAIN pool[n], pool[n][i] = f
      PROVE  Cardinality(Held(f)) + Cardinality(Pooled(f)) = 1
  <2>1. pool[n] \in Seq(Fd) /\ Len(pool[n]) <= PoolLimit
    BY <1>0, Parts DEF PoolOK
  <2>2. i \in 1 .. PoolLimit
    BY <1>6, <2>1, SeqParts, PoolAssumption
  <2>3. <<n, i>> \in Pooled(f)
    BY <1>6, <2>2 DEF Pooled
  <2>4. ASSUME NEW k \in Pooled(f) PROVE k = <<n, i>>
    <3>1. k \in Node \X (1 .. PoolLimit)
      BY DEF Pooled
    <3>2. k[1] = conn[f].node /\ n = conn[f].node
      BY <1>0, <1>2, <1>6 DEF PoolOK
    <3>3. k[2] = i
      BY <1>0, <1>2, <1>6, <3>2 DEF PoolOK
    <3> QED BY <3>1, <3>2, <3>3
  <2>5. Pooled(f) = {<<n, i>>} /\ Held(f) = {}
    BY <1>2, <2>3, <2>4
  <2>6. Cardinality({<<n, i>>}) = 1
    BY FS_Singleton
  <2> QED BY <1>3, <2>5, <2>6
<1>7. CASE conn[f] # NULL
  BY <1>0, <1>1, <1>2, <1>5, <1>6, <1>7 DEF NoLeak
<1> QED BY <1>4, <1>7

\* FdInv gives the two invariants the runs check.
LEMMA HoldingsFrom ==
  ASSUME FdInv
  PROVE  HoldingsAccounted /\ ReplyMatches
<1>0. Types /\ PoolOK /\ \A x \in Tx : Control(x) /\ Wire(x) /\ th[x] \in Thread
  BY Parts DEF FdInv
<1>1. TypeOK
  <2>1. ASSUME NEW x \in Tx
        PROVE  LET s == th[x] IN
               /\ s.pc \in {"idle", "get", "fd", "write", "header", "body", "retry", "ok", "done"}
               /\ s.op \in Op /\ s.pol \in Policy
               /\ s.deadline \in {"none", "pending", "passed"}
               /\ s.try \in 0 .. MaxTry /\ s.sent \in 0 .. s.try
               /\ s.node \in Node \cup {NULL} /\ s.fd \in Fd \cup {NULL}
               /\ s.buf \in {"stack", "heap", "null"} /\ s.call \in 0 .. MaxCalls
               /\ s.pc \in {"write", "header", "body", "ok"} => s.fd \in Fd
    BY <1>0, ThreadFields, TryAssumption DEF Control, Place
  <2> QED BY <1>0, <2>1 DEF TypeOK, Types
<1>2. PoolClean
  BY <1>0 DEF PoolClean, PoolOK
<1>3. NodeRefReturned
  BY <1>0 DEF NodeRefReturned, Control
<1>4. ReplyMatches
  BY <1>0 DEF ReplyMatches, Wire
<1> QED BY <1>1, <1>2, <1>3, <1>4, FdsAccountedFrom DEF HoldingsAccounted

\* Descriptors and connections are in order in every reachable state.
THEOREM FdInvariance == Spec => []FdInv
<1>1. Init => FdInv
  BY InitFdInv
<1>2. FdInv /\ [Next]_vars => FdInv'
  BY NextFdInv
<1> QED BY <1>1, <1>2, PTL DEF Spec

\* On every path through do_the_full_monte: an open descriptor has exactly one
\* holder, a thread or an entry of the pool of its node (cl_cluster_node_fd_get,
\* cl_cluster_node_fd_put, close), a pooled connection has nothing left on it,
\* and only a failed malloc keeps a node reference.
THEOREM HoldingsAccountedHolds == Spec => []HoldingsAccounted
<1>1. FdInv => HoldingsAccounted
  BY HoldingsFrom
<1> QED BY <1>1, FdInvariance, PTL

\* do_the_full_monte compares no transaction id, and still parses only the reply
\* to the request of its current try.
THEOREM ReplyMatchesHolds == Spec => []ReplyMatches
<1>1. FdInv => ReplyMatches
  BY HoldingsFrom
<1> QED BY <1>1, FdInvariance, PTL

-----------------------------------------------------------------------------
(* What the servers did                                                    *)

\* The effects are as they were, and the requests left behind are of the current
\* try of x.
Leaves(x) ==
    /\ applied' = applied /\ orphans \subseteq orphans'
    /\ \A r \in orphans' : r \notin orphans =>
        r.id = Id(x) /\ r.op = th[x].op /\ Unanswered(x)

\* The requests on a connection are of the thread that has it.
LEMMA Underway ==
  ASSUME FdInv, NEW x \in Tx, th[x].fd # NULL, NEW r \in ToSet(conn[th[x].fd].reqs)
  PROVE  r.id = Id(x) /\ r.op = th[x].op /\ Unanswered(x) /\ th[x].pc \notin {"write", "body", "ok"}
<1> DEFINE q == conn[th[x].fd].reqs
<1>1. q \in Seq(Request)
  BY InTry, ConnectionFields
<1>2. PICK i \in DOMAIN q : r = q[i]
  BY DEF ToSet
<1>3. q # <<>> /\ DOMAIN q = 1 .. Len(q)
  BY <1>1, <1>2, SeqParts
<1>4. Len(q) = 1 /\ q[1].id = Id(x) /\ q[1].op = th[x].op
  BY <1>3 DEF FdInv, Wire
<1>5. r = q[1]
  BY <1>2, <1>3, <1>4
<1> QED BY <1>3, <1>4, <1>5 DEF Unanswered, FdInv, Wire

\* Closing a connection leaves behind at most the caller's own request.
LEMMA CloseLeaves ==
  ASSUME FdInv, NEW x \in Tx, Closes(x), applied' = applied
  PROVE  Leaves(x) /\ (th[x].pc \in {"body", "ok"} => orphans' = orphans)
<1>1. orphans' = orphans \cup ToSet(conn[th[x].fd].reqs) /\ th[x].fd # NULL
  BY DEF Closes, LeftBehind
<1>2. \A r \in ToSet(conn[th[x].fd].reqs) :
        r.id = Id(x) /\ r.op = th[x].op /\ Unanswered(x) /\ th[x].pc \notin {"write", "body", "ok"}
  BY <1>1, Underway
<1>3. Leaves(x)
  BY <1>1, <1>2 DEF Leaves
<1>4. th[x].pc \in {"body", "ok"} => orphans' = orphans
  BY <1>1, <1>2
<1> QED BY <1>3, <1>4

\* A thread's step leaves at most the request of its try.
LEMMA StepLeaves ==
  ASSUME FdInv, NEW x \in Tx, Begin(x) \/ Step(x) \/ DeadlinePasses(x)
  PROVE  Leaves(x)
<1>0. Types
  BY DEF FdInv
<1>1. UNCHANGED <<applied, orphans>> => Leaves(x)
  BY DEF Leaves
<1>2. CASE Begin(x) \/ DeadlinePasses(x)
  BY <1>0, <1>1, <1>2, BeginDoes, DeadlineDoes
<1>3. CASE NodeGet(x) \/ cl_cluster_node_fd_get(x)
  BY <1>0, <1>1, <1>3, NodeGetDoes, FdGetDoes
<1>4. CASE SendRequest(x) \/ ReadHeader(x) \/ ReadBody(x)
  BY <1>1, <1>4, SendRequestDoes, ReadHeaderDoes, ReadBodyDoes
<1>5. CASE MallocFails(x)
  BY <1>5, MallocDoes, CloseLeaves
<1>6. CASE Retry(x)
  BY <1>1, <1>6, RetryDoes, CloseLeaves
<1>7. CASE Ok(x)
  BY <1>1, <1>7, OkDoes, CloseLeaves
<1> QED BY <1>2, <1>3, <1>4, <1>5, <1>6, <1>7 DEF Step

\* A thread's call is one of the calls.
LEMMA ThisCall ==
  ASSUME Types, NEW x \in Tx
  PROVE  /\ th[x].call \in 0 .. MaxCalls /\ This(x) = <<x, th[x].call>>
         /\ This(x)[1] = x /\ This(x)[2] = th[x].call
         /\ th[x].call >= 1 => This(x) \in Call /\ applied[This(x)] \in 0 .. MaxTry
<1>1. th[x].call \in 0 .. MaxCalls
  BY Parts, ThreadFields
<1>2. th[x].call >= 1 => This(x) \in Call
  BY <1>1, CallsAssumption DEF This, Call
<1> QED BY <1>1, <1>2 DEF This, Types

\* Calls to come are not touched.
LEMMA FutureStays ==
  ASSUME FdInv, FutureOK, NEW x \in Tx, Leaves(x), \A y \in Tx : y # x => th'[y] = th[y],
         th'[x].call \in Nat, th'[x].call >= th[x].call
  PROVE  FutureOK'
<1> SUFFICES ASSUME NEW c \in Call, c[2] > th'[c[1]].call
             PROVE  applied'[c] = 0 /\ Abandoned(c)' = {}
  BY DEF FutureOK
<1>1. c[1] \in Tx /\ c[2] \in Nat
  BY CallsAssumption DEF Call
<1>2. th[x].call \in Nat /\ th[c[1]].call \in Nat
  BY <1>1, Parts, ThreadFields, CallsAssumption DEF FdInv
<1>3. c[2] > th[c[1]].call
  BY <1>1, <1>2
<1>4. applied[c] = 0 /\ Abandoned(c) = {}
  BY <1>3 DEF FutureOK
<1>5. ASSUME NEW r \in orphans', r.id[1] = c[1], r.id[2] = c[2] PROVE FALSE
  <2>1. CASE r \in orphans
    BY <1>4, <1>5, <2>1 DEF Abandoned
  <2>2. CASE r \notin orphans
    <3>1. r.id = <<x, th[x].call, th[x].try>>
      BY <2>2 DEF Leaves, Id
    <3>2. c[1] = x /\ c[2] = th[x].call
      BY <1>5, <3>1
    <3> QED BY <1>2, <1>3, <3>2
  <2> QED BY <2>1, <2>2
<1> QED BY <1>4, <1>5 DEF Leaves, Abandoned

\* A thread is told, and its call has, what it was and had.
LEMMA SameEffects ==
  ASSUME NEW y \in Tx, Effects(y), Told(y), th'[y] = th[y],
         th[y].fd # NULL => conn'[th[y].fd] = conn[th[y].fd],
         th[y].call >= 1 => applied'[This(y)] = applied[This(y)], th[y].pc # "idle" => th[y].call >= 1,
         th[y].pc = "idle" => th[y].fd = NULL,
         \A r : r \in orphans' /\ r.id[1] = y /\ r.id[2] = th[y].call <=>
                r \in orphans /\ r.id[1] = y /\ r.id[2] = th[y].call
  PROVE  Effects(y)' /\ Told(y)'
<1>1. This(y)' = This(y)
  BY DEF This
<1>2. Abandoned(This(y))' = Abandoned(This(y))
  BY <1>1 DEF Abandoned, This
<1>3. Unanswered(y)' = Unanswered(y)
  BY DEF Unanswered
<1>4. Effects(y)'
  BY <1>1, <1>2, <1>3 DEF Effects
<1>5. Told(y)'
  BY <1>1, <1>2 DEF Told, Tells
<1> QED BY <1>4, <1>5

\* A step of x, or of the server on its connection, leaves the others' calls alone.
LEMMA OthersEffects ==
  ASSUME FdInv, \A y \in Tx : Effects(y) /\ Told(y), NEW x \in Tx, Leaves(x), Apart(x),
         NEW y \in Tx, y # x
  PROVE  Effects(y)' /\ Told(y)'
<1>1. Control(y)
  BY DEF FdInv
<1>2. \A r \in orphans' : r \notin orphans => r.id[1] = x
  BY DEF Leaves, Id
<1> QED BY <1>1, <1>2, SameEffects DEF Leaves, Apart, Control

\* A step within the call that leaves nothing behind.
LEMMA SameCall ==
  ASSUME NEW x \in Tx, th'[x].call = th[x].call, UNCHANGED orphans
  PROVE  This(x)' = This(x) /\ Abandoned(This(x))' = Abandoned(This(x))
<1>1. This(x)' = This(x)
  BY DEF This
<1> QED BY <1>1 DEF Abandoned, This

\* What is known of a call's effects stands while nothing is carried out.
LEMMA EffectsKept ==
  ASSUME NEW x \in Tx, Effects(x), Keeps(x), UNCHANGED <<applied, orphans>>,
         th'[x].pc \in {"fd", "write"} \/ Unanswered(x)' => th[x].pc \in {"fd", "write"} \/ Unanswered(x)
  PROVE  Effects(x)'
<1>1. This(x)' = This(x) /\ Abandoned(This(x))' = Abandoned(This(x))
  BY SameCall DEF Keeps
<1> QED BY <1>1 DEF Effects, Keeps

\* What the thread x itself has to show.
Honest(x) == Effects(x) /\ Told(x)

\* A call that begins has had no effect yet.
LEMMA BeginHonest ==
  ASSUME FdInv, FutureOK, NEW x \in Tx, Honest(x), Begin(x)
  PROVE  Honest(x)'
<1>0. Types /\ Types'
  BY BeginMoves DEF FdInv, Moved
<1>1. th'[x].call = th[x].call + 1 /\ th[x].call \in Nat /\ th[x].call + 1 \in 1 .. MaxCalls
  BY <1>0, BeginDoes, ThisCall, CallsAssumption
<1> DEFINE c == <<x, th[x].call + 1>>
<1>2. c \in Call /\ c[1] = x /\ c[2] = th[x].call + 1 /\ c[2] > th[c[1]].call
  BY <1>1 DEF Call
<1>3. applied[c] = 0 /\ Abandoned(c) = {}
  BY <1>2 DEF FutureOK
<1>4. This(x)' = c /\ UNCHANGED <<applied, orphans>>
  BY <1>0, <1>1, BeginDoes DEF This
<1>5. applied'[This(x)'] = 0 /\ Abandoned(This(x))' = {}
  BY <1>3, <1>4 DEF Abandoned
<1>6. Effects(x)'
  BY <1>5 DEF Effects
<1>7. Told(x)'
  BY <1>0, BeginDoes DEF Told
<1> QED BY <1>6, <1>7 DEF Honest

\* Choosing a node keeps the account of the call's effects and result,
LEMMA NodeGetHonest ==
  ASSUME FdInv, NEW x \in Tx, Honest(x), NodeGet(x)
  PROVE  Honest(x)'
<1>0. Types /\ Control(x) /\ th[x] \in Thread /\ Effects(x)
  BY InTry DEF FdInv, Honest
<1>1. This(x)' = This(x) /\ Abandoned(This(x))' = Abandoned(This(x)) /\ UNCHANGED <<applied, orphans>>
  BY <1>0, SameCall, NodeGetDoes
<1>2. th[x].try \in 0 .. MaxTry
  BY <1>0, ThreadFields
<1>3. th'[x].try = Count(th[x].try) /\ th'[x].fd = NULL /\ th'[x].op = th[x].op
      /\ th'[x].call = th[x].call /\ th'[x].pc \in {"retry", "fd"}
  BY <1>0, NodeGetDoes DEF Control
<1>4. th'[x].try \in Nat /\ th'[x].try >= th[x].try /\ (th'[x].try <= 1 => th[x].try = 0)
  BY <1>2, <1>3, TryAssumption DEF Count
<1>5. \A r \in Abandoned(This(x)) : r.id[3] \in Nat
  BY <1>0, TryAssumption DEF Types, Abandoned, Request, Ident
<1>6. Effects(x)'
  <2> SUFFICES ASSUME th[x].call >= 1
               PROVE  /\ \A r \in Abandoned(This(x)) : r.op = th[x].op /\ r.id[3] <= th'[x].try
                      /\ th[x].op = "read" => applied[This(x)] = 0
                      /\ th'[x].try <= 1 => applied[This(x)] = 0 /\ Abandoned(This(x)) = {}
    BY <1>1, <1>3 DEF Effects
  <2>1. \A r \in Abandoned(This(x)) : r.op = th[x].op /\ r.id[3] <= th[x].try
    BY <1>0 DEF Effects
  <2>2. \A r \in Abandoned(This(x)) : r.id[3] <= th'[x].try
    BY <1>2, <1>4, <1>5, <2>1
  <2>3. th[x].try = 0 => applied[This(x)] = 0 /\ Abandoned(This(x)) = {}
    BY <1>0 DEF Effects
  <2>4. th[x].op = "read" => applied[This(x)] = 0
    BY <1>0 DEF Effects
  <2> QED BY <1>4, <2>1, <2>2, <2>3, <2>4
<1>7. Told(x)'
  BY <1>3 DEF Told
<1> QED BY <1>6, <1>7 DEF Honest

\* and so does taking a connection,
LEMMA FdGetHonest ==
  ASSUME FdInv, NEW x \in Tx, Honest(x), cl_cluster_node_fd_get(x)
  PROVE  Honest(x)'
<1>1. Effects(x)'
  BY FdGetDoes, EffectsKept DEF Honest
<1>2. Told(x)'
  <2>1. Wire(x)'
    BY FdGetMoves DEF Moved
  <2> QED BY <2>1, FdGetDoes DEF Told, Wire
<1> QED BY <1>1, <1>2 DEF Honest

\* writing the request,
LEMMA SendRequestHonest ==
  ASSUME FdInv, NEW x \in Tx, Honest(x), SendRequest(x)
  PROVE  Honest(x)'
<1> DEFINE f == th[x].fd
<1>0. Types /\ f \in Fd /\ conn[f].reps = <<>> /\ th'[x].fd = f
  BY InTry, SendRequestDoes DEF FdInv, Wire
<1>1. Effects(x)'
  BY SendRequestDoes, EffectsKept DEF Honest
<1>2. conn'[f].reps = <<>>
  <2>1. CASE Failed(x)
    BY <1>0, <2>1 DEF Failed
  <2>2. CASE conn' = [conn EXCEPT ![f].reqs = Append(@, [id |-> Id(x), op |-> th[x].op])]
    <3>1. PICK d : Rewired(f, d) /\ d.reps = <<>>
      BY <2>2, SendRewires, SendRequestDoes
    <3> QED BY <1>0, <3>1 DEF Rewired, Types
  <2> QED BY <2>1, <2>2, SendRequestDoes
<1>3. Told(x)'
  BY <1>0, <1>2, SendRequestDoes DEF Told, Failed
<1> QED BY <1>1, <1>3 DEF Honest

\* What was told stays told.
LEMMA TellsKept ==
  ASSUME NEW x \in Tx, Keeps(x), UNCHANGED <<applied, orphans>>, NEW m, Tells(x, m)
  PROVE  /\ th'[x].op = "write" => m.code = "OK" /\ applied'[This(x)'] >= 1
         /\ m.code = "NOTFOUND" /\ th'[x].try <= 1 =>
                applied'[This(x)'] = 0 /\ Abandoned(This(x))' = {}
<1>1. This(x)' = This(x) /\ Abandoned(This(x))' = Abandoned(This(x))
  BY SameCall DEF Keeps
<1> QED BY <1>1 DEF Keeps, Tells

\* reading the header of the reply,
LEMMA ReadHeaderHonest ==
  ASSUME FdInv, NEW x \in Tx, Honest(x), ReadHeader(x)
  PROVE  Honest(x)'
<1> DEFINE f == th[x].fd
<1>0. Types /\ f \in Fd /\ f # NULL /\ th'[x].fd = f /\ Told(x) /\ Wire(x)' /\ conn[f].reps \in Seq(Message)
  BY InTry, ReadHeaderDoes, ReadHeaderMoves, ConnectionFields DEF Moved, Honest
<1>1. th'[x].pc \in {"body", "ok"} \/ (th'[x].pc = "retry" /\ conn' = conn)
  BY ReadHeaderDoes DEF Failed
<1>2. Unanswered(x)' => Unanswered(x)
  BY <1>0, <1>1 DEF Wire, Unanswered
<1>3. Effects(x)'
  BY <1>1, <1>2, ReadHeaderDoes, EffectsKept DEF Honest
<1>4. conn[f].reps # <<>> => Tells(x, Head(conn[f].reps)) /\ Head(conn[f].reps) = conn[f].reps[1]
  BY <1>0, SeqParts DEF Told
<1>5. th'[x].pc \in {"body", "ok"} => conn[f].reps # <<>> /\ th'[x].msg = Head(conn[f].reps)
  BY ReadHeaderDoes DEF Failed
<1>6. Keeps(x) /\ UNCHANGED <<applied, orphans>>
  BY ReadHeaderDoes
<1>7. conn'[f].reps # <<>> => conn'[f].reps = conn[f].reps
  BY <1>0, <1>1, ReadHeaderDoes DEF Wire, Failed
<1>8. th'[x].pc \in {"body", "ok"} => Tells(x, th'[x].msg)
  BY <1>4, <1>5
<1>9. conn'[f].reps # <<>> => Tells(x, conn'[f].reps[1])
  BY <1>4, <1>7
<1>10. th'[x].pc # "done"
  BY <1>1
<1>11. th'[x].pc \in {"body", "ok"} => Tells(x, th[x].msg)'
  BY <1>6, <1>8, TellsKept DEF Tells
<1>12. conn'[f].reps # <<>> => Tells(x, conn[f].reps[1])'
  BY <1>0, <1>6, <1>9, TellsKept DEF Tells
<1>13. Told(x)'
  BY <1>0, <1>10, <1>11, <1>12 DEF Told
<1> QED BY <1>3, <1>13 DEF Honest

\* reading its body,
LEMMA ReadBodyHonest ==
  ASSUME FdInv, NEW x \in Tx, Honest(x), ReadBody(x)
  PROVE  Honest(x)'
<1> DEFINE f == th[x].fd
<1>0. Types /\ f \in Fd /\ f # NULL /\ th'[x].fd = f /\ Told(x) /\ Wire(x)'
  BY InTry, ReadBodyDoes, ReadBodyMoves DEF Moved, Honest
<1>1. th'[x].pc = "ok" \/ (th'[x].pc = "retry" /\ conn' = conn)
  BY ReadBodyDoes DEF Failed
<1>2. Unanswered(x)' => Unanswered(x)
  BY <1>0, <1>1 DEF Wire, Unanswered
<1>3. Effects(x)'
  BY <1>1, <1>2, ReadBodyDoes, EffectsKept DEF Honest
<1>4. Keeps(x) /\ UNCHANGED <<applied, orphans>> /\ th[x].pc = "body" /\ th'[x].msg = th[x].msg
  BY ReadBodyDoes
<1>5. Tells(x, th'[x].msg)
  BY <1>0, <1>4 DEF Told
<1>6. conn'[f].reps # <<>> => Tells(x, conn'[f].reps[1])
  BY <1>0, <1>1 DEF Told, Wire
<1>7. Tells(x, th[x].msg)'
  BY <1>4, <1>5, TellsKept DEF Tells
<1>8. conn'[f].reps # <<>> => Tells(x, conn[f].reps[1])'
  BY <1>0, <1>4, <1>6, TellsKept DEF Tells
<1>9. Told(x)'
  BY <1>0, <1>1, <1>7, <1>8 DEF Told
<1> QED BY <1>3, <1>9 DEF Honest

\* a deadline that passes,
LEMMA DeadlineHonest ==
  ASSUME FdInv, NEW x \in Tx, Honest(x), DeadlinePasses(x)
  PROVE  Honest(x)'
<1>0. Types /\ Told(x) /\ th[x].pc # "done"
  BY DEF FdInv, Honest, DeadlinePasses
<1>1. /\ Keeps(x) /\ UNCHANGED <<applied, orphans, conn>> /\ th'[x].msg = th[x].msg
      /\ th'[x].fd = th[x].fd /\ th'[x].pc = th[x].pc
  BY <1>0, DeadlineDoes
<1>2. Effects(x)'
  BY <1>1, EffectsKept DEF Honest, Unanswered
<1>3. th[x].pc \in {"body", "ok"} => Tells(x, th[x].msg)'
  BY <1>0, <1>1, TellsKept DEF Tells, Told
<1>4. th[x].fd # NULL /\ conn[th[x].fd].reps # <<>> => Tells(x, conn[th[x].fd].reps[1])'
  BY <1>0, <1>1, TellsKept DEF Tells, Told
<1>5. Told(x)'
  BY <1>0, <1>1, <1>3, <1>4 DEF Told
<1> QED BY <1>2, <1>5 DEF Honest

\* a failed allocation,
LEMMA MallocHonest ==
  ASSUME FdInv, NEW x \in Tx, Honest(x), MallocFails(x)
  PROVE  Honest(x)'
<1>1. orphans' = orphans
  BY MallocDoes, CloseLeaves
<1>2. Effects(x)'
  BY <1>1, MallocDoes, EffectsKept DEF Honest, Unanswered
<1>3. Told(x)'
  BY MallocDoes DEF Told
<1> QED BY <1>2, <1>3 DEF Honest

\* the end of an answered call,
LEMMA OkHonest ==
  ASSUME FdInv, NEW x \in Tx, Honest(x), Ok(x)
  PROVE  Honest(x)'
<1>0. th[x] \in Thread /\ th[x].try \in Nat /\ th[x].msg \in Message /\ th[x].op \in Op /\ Told(x)
  BY InTry, ThreadFields, OkDoes, TryAssumption DEF FdInv, Control, Honest
<1>1. orphans' = orphans
  BY OkDoes, CloseLeaves
<1>2. Effects(x)'
  BY <1>1, OkDoes, EffectsKept DEF Honest, Unanswered
<1>3. Tells(x, th[x].msg)
  BY <1>0, OkDoes DEF Told
<1>4. This(x)' = This(x) /\ Abandoned(This(x))' = Abandoned(This(x)) /\ applied' = applied
  BY <1>1, OkDoes, SameCall DEF Keeps
<1>5. /\ Result(x) = "OK" /\ th[x].op # "delete" => th[x].msg.code = "OK"
      /\ Result(x) = "NOTFOUND" => th[x].msg.code = "NOTFOUND" /\ (th[x].op = "delete" => th[x].try <= 1)
  BY <1>0 DEF Result
<1>6. Told(x)'
  BY <1>0, <1>3, <1>4, <1>5, OkDoes DEF Told, Tells, Keeps
<1> QED BY <1>2, <1>6 DEF Honest

\* and the retry, or the end, after a failed try.
LEMMA RetryHonest ==
  ASSUME FdInv, NEW x \in Tx, Honest(x), Retry(x)
  PROVE  Honest(x)'
<1>0. /\ Types /\ Control(x) /\ Effects(x) /\ th[x].try \in Nat /\ Leaves(x) /\ th[x].pc = "retry"
      /\ th'[x].try = th[x].try /\ th'[x].op = th[x].op /\ th'[x].call = th[x].call
      /\ th'[x].fd = NULL /\ th'[x].pc \in {"get", "done"}
      /\ th'[x].rv \in {th[x].rv, "FAIL_TIMEOUT"}
  BY InTry, ThreadFields, StepLeaves, RetryDoes, TryAssumption DEF FdInv, Honest, Keeps, Step
<1>1. This(x)' = This(x) /\ th[x].try >= 1
  BY <1>0 DEF This, Control
<1>2. Abandoned(This(x))' = {r \in orphans' : r.id[1] = x /\ r.id[2] = th[x].call}
  BY <1>0 DEF Abandoned, This
<1>3. ASSUME NEW r \in Abandoned(This(x))'
      PROVE  r \in Abandoned(This(x)) \/ (r.op = th[x].op /\ r.id[3] = th[x].try /\ Unanswered(x))
  <2>1. CASE r \in orphans
    BY <1>2, <1>3, <2>1 DEF Abandoned, This
  <2>2. CASE r \notin orphans
    BY <1>0, <1>2, <1>3, <2>2 DEF Leaves, Id
  <2> QED BY <2>1, <2>2
<1>4. Effects(x)'
  <2> SUFFICES ASSUME th[x].call >= 1
               PROVE  /\ \A r \in Abandoned(This(x))' : r.op = th[x].op /\ r.id[3] <= th[x].try
                      /\ th[x].op = "read" => applied'[This(x)] = 0
                      /\ th[x].try <= 1 =>
                            /\ applied'[This(x)] <= 1
                            /\ Abandoned(This(x))' # {} => applied'[This(x)] = 0
    BY <1>0, <1>1 DEF Effects, Unanswered
  <2>1. \A r \in Abandoned(This(x))' : r.op = th[x].op /\ r.id[3] <= th[x].try
    BY <1>0, <1>3 DEF Effects
  <2>2. applied' = applied
    BY <1>0 DEF Leaves
  <2>3. th[x].op = "read" => applied[This(x)] = 0
    BY <1>0 DEF Effects
  <2>4. th[x].try <= 1 => applied[This(x)] <= 1
    BY <1>0 DEF Effects
  <2>5. th[x].try <= 1 /\ (Abandoned(This(x)) # {} \/ Unanswered(x)) => applied[This(x)] = 0
    BY <1>0 DEF Effects
  <2> QED BY <1>3, <2>1, <2>2, <2>3, <2>4, <2>5
<1>5. Told(x)'
  <2>1. th'[x].rv \in {"FAIL", "FAIL_TIMEOUT"}
    BY <1>0 DEF Control
  <2> QED BY <1>0, <2>1 DEF Told
<1> QED BY <1>4, <1>5 DEF Honest

\* A thread's step keeps the whole invariant.
LEMMA ThreadIInv ==
  ASSUME IInv, NEW x \in Tx, Begin(x) \/ Step(x) \/ DeadlinePasses(x)
  PROVE  IInv'
<1>0. FdInv /\ FutureOK /\ Honest(x) /\ \A y \in Tx : Effects(y) /\ Told(y)
  BY DEF IInv, Honest
<1>1. FdInv' /\ Leaves(x) /\ Apart(x)
  BY <1>0, ThreadFdInv, StepLeaves, StepMoves DEF Moved
<1>2. Honest(x)'
  BY <1>0, BeginHonest, NodeGetHonest, FdGetHonest, SendRequestHonest, ReadHeaderHonest,
    MallocHonest, ReadBodyHonest, RetryHonest, OkHonest, DeadlineHonest DEF Step
<1>3. th'[x].call \in Nat /\ th'[x].call >= th[x].call
  <2>1. Types /\ Types' /\ th[x].call \in Nat
    BY <1>0, <1>1, Parts, ThreadFields, CallsAssumption DEF FdInv
  <2>2. th'[x].call = th[x].call \/ th'[x].call = th[x].call + 1
    <3>1. CASE Begin(x)
      BY <1>0, <2>1, <3>1, BeginDoes
    <3>2. CASE NodeGet(x)
      BY <1>0, <2>1, <3>2, NodeGetDoes
    <3>3. CASE cl_cluster_node_fd_get(x)
      BY <1>0, <2>1, <3>3, FdGetDoes DEF Keeps
    <3>4. CASE SendRequest(x)
      BY <1>0, <2>1, <3>4, SendRequestDoes DEF Keeps
    <3>5. CASE ReadHeader(x)
      BY <1>0, <2>1, <3>5, ReadHeaderDoes DEF Keeps
    <3>6. CASE MallocFails(x)
      BY <1>0, <2>1, <3>6, MallocDoes DEF Keeps
    <3>7. CASE ReadBody(x)
      BY <1>0, <2>1, <3>7, ReadBodyDoes DEF Keeps
    <3>8. CASE Retry(x)
      BY <1>0, <2>1, <3>8, RetryDoes DEF Keeps
    <3>9. CASE Ok(x)
      BY <1>0, <2>1, <3>9, OkDoes DEF Keeps
    <3>10. CASE DeadlinePasses(x)
      BY <1>0, <2>1, <3>10, DeadlineDoes DEF Keeps
    <3> QED BY <3>1, <3>2, <3>3, <3>4, <3>5, <3>6, <3>7, <3>8, <3>9, <3>10 DEF Step
  <2> QED BY <2>1, <2>2
<1>4. FutureOK'
  BY <1>0, <1>1, <1>3, FutureStays DEF Apart
<1>5. ASSUME NEW y \in Tx, y # x PROVE Effects(y)' /\ Told(y)'
  BY <1>0, <1>1, <1>5, OthersEffects
<1> QED BY <1>1, <1>2, <1>4, <1>5 DEF IInv, Honest

\* The server carries out the request of x.
LEMMA ServeIInv ==
  ASSUME IInv, NEW f \in Fd, Serve(f)
  PROVE  IInv'
<1>0. FdInv /\ Types /\ HeldOK /\ FutureOK /\ \A y \in Tx : Effects(y) /\ Told(y) /\ Control(y) /\ Wire(y)
  BY DEF IInv, FdInv
<1>a. PICK x \in Tx, r \in Request : \E rep \in Reply(r) : \E d : Served(f, x, r, rep, d)
  BY <1>0, ServeRewires
<1>b. PICK rep \in Reply(r) : \E d : Served(f, x, r, rep, d)
  BY <1>a
<1>c. PICK d : Served(f, x, r, rep, d)
  BY <1>b
<1>1. /\ th[x].fd = f /\ conn[f].reqs = <<r>> /\ r.id = Id(x) /\ r.op = th[x].op /\ Effect(r)
      /\ d.reqs = <<>> /\ d.reps = <<rep>> /\ UNCHANGED <<th, orphans>>
      /\ conn'[f] = d /\ \A g \in Fd : g # f => conn'[g] = conn[g]
  BY <1>0, <1>c DEF Served, Rewired, Types
<1>2. f # NULL /\ Unanswered(x) /\ th[x].pc \notin {"idle", "get", "fd", "write", "body", "ok", "done"}
  <2>1. f # NULL /\ conn[th[x].fd].reqs # <<>>
    BY <1>1, FdAssumption
  <2>2. Unanswered(x)
    BY <1>1, <2>1 DEF Unanswered
  <2>3. th[x].pc \notin {"write", "body", "ok"}
    BY <1>0, <2>1 DEF Wire
  <2>4. th[x].pc \notin {"idle", "get", "fd", "done"}
    BY <1>0, <1>1, <2>1 DEF Control
  <2> QED BY <2>1, <2>2, <2>3, <2>4
<1>3. th[x].call >= 1 /\ th[x].try >= 1 /\ th[x].try \in Nat /\ th[x].op \in Op
  BY <1>0, <1>2, InTry, ThreadFields, TryAssumption DEF Control
<1>4. /\ <<r.id[1], r.id[2]>> = This(x) /\ This(x) \in Call /\ applied[This(x)] \in 0 .. MaxTry
      /\ This(x) = <<x, th[x].call>>
  BY <1>0, <1>1, <1>3, ThisCall DEF Id, This
<1>5. /\ \A c \in Call : c # This(x) => applied'[c] = applied[c]
      /\ applied'[This(x)] = IF r.op = "write" \/ (r.op = "delete" /\ exists)
                             THEN Count(applied[This(x)]) ELSE applied[This(x)]
  BY <1>0, <1>1, <1>4, EffectDoes
<1>6. FutureOK'
  <2> SUFFICES ASSUME NEW c \in Call, c[2] > th'[c[1]].call
               PROVE  applied'[c] = 0 /\ Abandoned(c)' = {}
    BY DEF FutureOK
  <2>1. c[2] > th[c[1]].call
    BY <1>1
  <2>2. applied[c] = 0 /\ Abandoned(c) = {}
    BY <1>0, <2>1 DEF FutureOK
  <2>3. c # This(x)
    <3>1. th[x].call \in Nat
      BY <1>0, ThisCall, CallsAssumption
    <3> QED BY <1>4, <2>1, <3>1
  <2> QED BY <1>1, <1>5, <2>2, <2>3 DEF Abandoned
<1>7. ASSUME NEW y \in Tx, y # x PROVE Effects(y)' /\ Told(y)'
  <2>1. th[y].fd # NULL => conn'[th[y].fd] = conn[th[y].fd]
    <3>1. th[y].fd # f
      BY <1>0, <1>1, <1>2, <1>7 DEF HeldOK
    <3> QED BY <1>0, <1>1, <3>1, InTry
  <2>2. th[y].call >= 1 => applied'[This(y)] = applied[This(y)]
    <3>1. This(y) # This(x)
      BY <1>7 DEF This
    <3> QED BY <1>0, <1>5, <3>1, ThisCall
  <2> QED BY <1>0, <1>1, <2>1, <2>2, SameEffects DEF Control
<1>8. This(x)' = This(x) /\ Abandoned(This(x))' = Abandoned(This(x)) /\ ~ Unanswered(x)'
      /\ th'[x] = th[x]
  BY <1>1, SameCall DEF Unanswered
<1>9. Effects(x)'
  <2>1. \A q \in Abandoned(This(x)) : q.op = th[x].op /\ q.id[3] <= th[x].try
    BY <1>0, <1>3 DEF Effects
  <2>2. th[x].op = "read" => applied'[This(x)] = 0
    BY <1>0, <1>1, <1>3, <1>5 DEF Effects
  <2>3. th[x].try <= 1 => applied[This(x)] = 0 /\ Abandoned(This(x)) = {}
    BY <1>0, <1>2, <1>3 DEF Effects
  <2>4. th[x].try <= 1 => applied'[This(x)] <= 1
    BY <1>5, <2>3, TryAssumption DEF Count
  <2> QED BY <1>2, <1>3, <1>8, <2>1, <2>2, <2>3, <2>4 DEF Effects
<1>10. Told(x)'
  <2>1. rep.code \in {"OK", "NOTFOUND"} /\ (rep.code = "NOTFOUND" => r.op # "write" /\ ~ exists)
    BY ReplyType DEF Message
  <2>2. th[x].op = "write" => rep.code = "OK" /\ applied'[This(x)] >= 1
    <3>1. th[x].op = "write" => applied'[This(x)] = Count(applied[This(x)])
      BY <1>1, <1>5
    <3> QED BY <1>1, <1>4, <2>1, <3>1, CountType
  <2>3. rep.code = "NOTFOUND" /\ th[x].try <= 1 =>
            applied'[This(x)] = 0 /\ Abandoned(This(x)) = {}
    BY <1>0, <1>2, <1>3, <1>5, <2>1 DEF Effects
  <2>4. conn'[th'[x].fd].reps[1] = rep
    BY <1>1, <1>8
  <2>5. Tells(x, conn[th[x].fd].reps[1])'
    BY <1>8, <2>2, <2>3, <2>4 DEF Tells
  <2> QED BY <1>2, <1>8, <2>5 DEF Told
<1>11. FdInv'
  BY <1>0, ServeFdInv
<1> QED BY <1>6, <1>7, <1>9, <1>10, <1>11 DEF IInv

\* The server closes a connection.
LEMMA HangupIInv ==
  ASSUME IInv, NEW f \in Fd, Hangup(f)
  PROVE  IInv'
<1>0. FdInv /\ Types /\ HeldOK /\ NoLeak /\ PoolOK /\ FutureOK
      /\ \A y \in Tx : Effects(y) /\ Told(y) /\ Control(y) /\ Wire(y)
  BY DEF IInv, FdInv
<1>a. PICK d : /\ Rewired(f, d) /\ d.reqs = <<>> /\ d.reps = conn[f].reps
               /\ UNCHANGED <<th, pool, exists, applied>>
               /\ LeftBehind(f) \/ orphans' = orphans
  BY <1>0, HangupRewires
<1>1. /\ d.reqs = <<>> /\ d.reps = conn[f].reps /\ UNCHANGED <<th, applied>>
      /\ conn'[f] = d /\ \A g \in Fd : g # f => conn'[g] = conn[g]
      /\ LeftBehind(f) \/ orphans' = orphans
  BY <1>0, <1>a DEF Rewired, Types
<1>f. f # NULL /\ conn[f] # NULL
  BY FdAssumption DEF Hangup
<1>2. CASE \E x \in Tx : th[x].fd = f
  <2>x. PICK x \in Tx : th[x].fd = f
    BY <1>2
  <2>1. \A r \in ToSet(conn[f].reqs) : r.id = Id(x) /\ r.op = th[x].op /\ Unanswered(x)
    BY <1>0, <1>f, <2>x, Underway
  <2>2. Leaves(x)
    BY <1>1, <2>1 DEF Leaves, LeftBehind
  <2>3. Apart(x)
    <3>1. \A y \in Tx : y # x /\ th[y].fd # NULL => th[y].fd \in Fd /\ th[y].fd # f
      BY <1>0, <1>f, <2>x, InTry DEF HeldOK
    <3> QED BY <1>1, <3>1 DEF Apart
  <2>4. FutureOK'
    <3>1. th'[x].call \in Nat /\ th'[x].call >= th[x].call
      BY <1>0, <1>1, ThisCall, CallsAssumption
    <3> QED BY <1>0, <1>1, <2>2, <3>1, FutureStays
  <2>5. ASSUME NEW y \in Tx, y # x PROVE Effects(y)' /\ Told(y)'
    BY <1>0, <2>2, <2>3, <2>5, OthersEffects
  <2>6. This(x)' = This(x) /\ ~ Unanswered(x)' /\ th'[x] = th[x] /\ applied' = applied
        /\ conn'[f].reps = conn[f].reps
    BY <1>1, <2>x DEF Unanswered, This
  <2>7. Abandoned(This(x))' = {r \in orphans' : r.id[1] = x /\ r.id[2] = th[x].call}
    BY <1>1 DEF Abandoned, This
  <2>8. ASSUME NEW r \in Abandoned(This(x))'
        PROVE  \/ r \in Abandoned(This(x))
               \/ r.op = th[x].op /\ r.id[3] = th[x].try /\ Unanswered(x)
    <3>1. CASE r \in orphans
      BY <2>7, <2>8, <3>1 DEF Abandoned, This
    <3>2. CASE r \notin orphans
      BY <2>2, <2>7, <2>8, <3>2 DEF Leaves, Id
    <3> QED BY <3>1, <3>2
  <2>9. th[x].call >= 1 /\ th[x].try >= 1 /\ th[x].try \in Nat /\ th[x].pc \notin {"fd", "done"}
    <3>1. th[x].pc \notin {"idle", "get", "fd", "done"}
      BY <1>0, <1>f, <2>x DEF Control
    <3> QED BY <1>0, <3>1, InTry, ThreadFields, TryAssumption DEF Control
  <2>w. th[x].pc = "write" => Abandoned(This(x))' = Abandoned(This(x)) /\ ~ Unanswered(x)
    <3>1. th[x].pc = "write" => conn[f].reqs = <<>>
      BY <1>0, <2>x DEF Wire
    <3>2. th[x].pc = "write" => ~ Unanswered(x) /\ orphans' = orphans
      BY <1>1, <2>1, <2>x, <3>1 DEF Unanswered, LeftBehind
    <3> QED BY <2>6, <3>2, SameCall
  <2>10. Effects(x)'
    <3>1. \A r \in Abandoned(This(x))' : r.op = th[x].op /\ r.id[3] <= th[x].try
      BY <1>0, <2>8, <2>9 DEF Effects
    <3>2. th[x].op = "read" => applied[This(x)] = 0
      BY <1>0, <2>9 DEF Effects
    <3>3. th[x].try <= 1 => applied[This(x)] <= 1
      BY <1>0, <2>9 DEF Effects
    <3>4. th[x].try <= 1 /\ (Abandoned(This(x)) # {} \/ Unanswered(x)) => applied[This(x)] = 0
      BY <1>0, <2>9 DEF Effects
    <3>5. th[x].try <= 1 /\ th[x].pc = "write" =>
            applied[This(x)] = 0 /\ Abandoned(This(x))' = {}
      BY <1>0, <2>9, <2>w DEF Effects
    <3>6. th[x].try <= 1 /\ Abandoned(This(x))' # {} => applied[This(x)] = 0
      BY <2>8, <3>4
    <3> QED BY <2>6, <2>9, <3>1, <3>2, <3>3, <3>5, <3>6 DEF Effects
  <2>11. Told(x)'
    <3>1. conn[f].reps # <<>> \/ th[x].pc \in {"body", "ok"} => orphans' = orphans
      <4>1. conn[f].reps # <<>> \/ th[x].pc \in {"body", "ok"} => conn[f].reqs = <<>>
        BY <1>0, <1>f, <2>x DEF Wire
      <4> QED BY <1>1, <2>1, <2>x, <4>1 DEF Unanswered, LeftBehind
    <3>2. ASSUME NEW m, Tells(x, m), orphans' = orphans
          PROVE  /\ th[x].op = "write" => m.code = "OK" /\ applied[This(x)] >= 1
                 /\ m.code = "NOTFOUND" /\ th[x].try <= 1 =>
                        applied[This(x)] = 0 /\ Abandoned(This(x))' = {}
      <4>1. Abandoned(This(x))' = Abandoned(This(x))
        BY <2>6, <3>2, SameCall
      <4> QED BY <3>2, <4>1 DEF Tells
    <3>3. conn[f].reps # <<>> => Tells(x, conn[th[x].fd].reps[1])'
      <4>1. conn[f].reps # <<>> => Tells(x, conn[f].reps[1])
        BY <1>0, <1>f, <2>x DEF Told
      <4> QED BY <2>6, <2>x, <3>1, <3>2, <4>1 DEF Tells
    <3>4. th[x].pc \in {"body", "ok"} => Tells(x, th[x].msg)'
      <4>1. th[x].pc \in {"body", "ok"} => Tells(x, th[x].msg)
        BY <1>0 DEF Told
      <4> QED BY <2>6, <3>1, <3>2, <4>1 DEF Tells
    <3> QED BY <2>6, <2>9, <2>x, <3>3, <3>4 DEF Told
  <2>12. FdInv'
    BY <1>0, HangupFdInv
  <2> QED BY <2>4, <2>5, <2>10, <2>11, <2>12 DEF IInv
<1>3. CASE \A x \in Tx : th[x].fd # f
  <2>1. conn[f].reqs = <<>>
    BY <1>0, <1>f, <1>3 DEF NoLeak, PoolOK
  <2>2. orphans' = orphans
    <3>1. \A i \in DOMAIN conn[f].reqs : FALSE
      BY <2>1
    <3>2. ToSet(conn[f].reqs) = {}
      BY <3>1 DEF ToSet
    <3> QED BY <1>1, <3>2 DEF LeftBehind
  <2>3. FutureOK'
    BY <1>0, <1>1, <2>2 DEF FutureOK, Abandoned
  <2>4. ASSUME NEW y \in Tx PROVE Effects(y)' /\ Told(y)'
    <3>1. th[y].fd # NULL => conn'[th[y].fd] = conn[th[y].fd]
      BY <1>0, <1>1, <1>3, InTry
    <3> QED BY <1>0, <1>1, <2>2, <3>1, SameEffects DEF Control
  <2>5. FdInv'
    BY <1>0, HangupFdInv
  <2> QED BY <2>3, <2>4, <2>5 DEF IInv
<1> QED BY <1>2, <1>3

\* A server carries out a request left behind, which may be of the current call of
\* its thread, still in a later try, or of one before.
LEMMA OrphanIInv ==
  ASSUME IInv, NEW r \in orphans, ServeOrphan(r)
  PROVE  IInv'
<1>0. FdInv /\ Types /\ FutureOK /\ r \in Request
      /\ \A y \in Tx : Effects(y) /\ Told(y) /\ Control(y)
  BY DEF IInv, FdInv, Types
<1> DEFINE c == <<r.id[1], r.id[2]>>
<1>1. UNCHANGED <<th, pool, conn>> /\ orphans' = orphans \ {r} /\ Effect(r)
  BY DEF ServeOrphan
<1>2. r.id \in Ident /\ r.id[1] \in Tx /\ r.id[2] \in 1 .. MaxCalls /\ r.op \in Op
  BY <1>0 DEF Request, Ident
<1>3. /\ c \in Call /\ c[1] = r.id[1] /\ c[2] = r.id[2] /\ applied[c] \in 0 .. MaxTry
      /\ \A d \in Call : d # c => applied'[d] = applied[d]
      /\ applied'[c] = IF r.op = "write" \/ (r.op = "delete" /\ exists)
                       THEN Count(applied[c]) ELSE applied[c]
  BY <1>0, <1>1, EffectDoes DEF Types
<1>4. r \in Abandoned(c)
  BY DEF Abandoned
<1>5. FutureOK'
  <2> SUFFICES ASSUME NEW e \in Call, e[2] > th'[e[1]].call
               PROVE  applied'[e] = 0 /\ Abandoned(e)' = {}
    BY DEF FutureOK
  <2>1. applied[e] = 0 /\ Abandoned(e) = {}
    BY <1>0, <1>1 DEF FutureOK
  <2>2. e # c
    BY <1>4, <2>1
  <2>3. Abandoned(e)' = {}
    BY <1>1, <2>1 DEF Abandoned
  <2> QED BY <1>3, <2>1, <2>2, <2>3
<1>6. ASSUME NEW y \in Tx, y # r.id[1] \/ th[y].call # r.id[2] PROVE Effects(y)' /\ Told(y)'
  <2>1. th[y].call >= 1 => applied'[This(y)] = applied[This(y)]
    <3>1. This(y) # c
      BY <1>6 DEF This
    <3> QED BY <1>0, <1>3, <3>1, ThisCall
  <2> QED BY <1>0, <1>1, <1>6, <2>1, SameEffects DEF Control
<1>7. ASSUME NEW y \in Tx, y = r.id[1], th[y].call = r.id[2] PROVE Effects(y)' /\ Told(y)'
  <2>0. This(y) = c /\ This(y)' = c /\ th'[y] = th[y] /\ th[y].call >= 1
        /\ Unanswered(y)' = Unanswered(y) /\ th[y].try \in Nat
    BY <1>0, <1>1, <1>2, <1>7, InTry, ThreadFields, TryAssumption DEF This, Unanswered
  <2>1. Abandoned(c)' = Abandoned(c) \ {r}
    BY <1>1 DEF Abandoned
  <2>2. \A q \in Abandoned(c) : q.op = th[y].op /\ q.id[3] <= th[y].try
    BY <1>0, <2>0 DEF Effects
  <2>3. r.op = th[y].op
    BY <1>4, <2>2
  <2>4. th[y].try <= 1 =>
            /\ applied[c] = 0 /\ th[y].try # 0 /\ th[y].pc \notin {"fd", "write"} /\ ~ Unanswered(y)
    BY <1>0, <1>4, <2>0 DEF Effects
  <2>5. th[y].try <= 1 => Abandoned(c)' = {}
    <3> SUFFICES ASSUME th[y].try <= 1, NEW q \in Abandoned(c) PROVE q = r
      BY <2>1
    <3>1. q \in Request /\ q.id \in Ident /\ q.id[1] = r.id[1] /\ q.id[2] = r.id[2]
      BY <1>0, <1>3 DEF Abandoned, Types, Request
    <3>2. q.id[3] = 1 /\ r.id[3] = 1
      <4>1. q.id[3] \in 1 .. MaxTry /\ r.id[3] \in 1 .. MaxTry
        BY <1>2, <3>1 DEF Ident
      <4>2. q.id[3] <= th[y].try /\ r.id[3] <= th[y].try
        BY <1>4, <2>2
      <4> QED BY <2>0, <4>1, <4>2
    <3>3. q.id = r.id
      BY <1>2, <3>1, <3>2 DEF Ident
    <3>4. q.op = r.op
      BY <1>4, <2>2
    <3> QED BY <1>0, <3>1, <3>3, <3>4 DEF Request
  <2>6. applied'[c] >= applied[c] /\ applied'[c] \in Nat /\ (applied[c] = 0 => applied'[c] <= 1)
    BY <1>3, TryAssumption DEF Count
  <2>7. th[y].op = "read" => applied'[c] = 0
    BY <1>0, <1>3, <2>0, <2>3 DEF Effects
  <2>8. Abandoned(This(y))' = Abandoned(c)'
    BY <2>0 DEF Abandoned
  <2> HIDE DEF c
  <2>9. Effects(y)'
    BY <2>0, <2>1, <2>2, <2>4, <2>5, <2>6, <2>7, <2>8 DEF Effects
  <2>10. ASSUME NEW m, Tells(y, m)
         PROVE  /\ th[y].op = "write" => m.code = "OK" /\ applied'[c] >= 1
                /\ m.code = "NOTFOUND" /\ th[y].try <= 1 => FALSE
    BY <1>3, <1>4, <2>0, <2>6, <2>10 DEF Tells
  <2>11. Told(y)'
    <3>1. th[y].fd # NULL /\ conn[th[y].fd].reps # <<>> => Tells(y, conn[th[y].fd].reps[1])'
      BY <1>0, <1>1, <2>0, <2>10 DEF Told, Tells
    <3>2. th[y].pc \in {"body", "ok"} => Tells(y, th[y].msg)'
      BY <1>0, <1>1, <2>0, <2>10 DEF Told, Tells
    <3>3. th[y].pc = "done" /\ th[y].op = "write" =>
            th[y].rv # "NOTFOUND" /\ (th[y].rv = "OK" => applied'[c] >= 1)
      BY <1>0, <1>3, <2>0, <2>6 DEF Told
    <3>4. ~ (th[y].pc = "done" /\ th[y].rv = "NOTFOUND" /\ th[y].op = "delete")
      BY <1>0, <1>4, <2>0 DEF Told
    <3> QED BY <1>1, <2>0, <3>1, <3>2, <3>3, <3>4 DEF Told
  <2> QED BY <2>9, <2>11
<1>8. FdInv'
  BY <1>0, OrphanFdInv
<1> QED BY <1>5, <1>6, <1>7, <1>8 DEF IInv

\* IInv holds when no call has begun.
LEMMA InitIInv ==
  ASSUME Init
  PROVE  IInv
<1>1. FdInv
  BY InitFdInv
<1>2. \A x \in Tx : th[x].call = 0 /\ th[x].fd = NULL /\ th[x].pc = "idle"
  BY DEF Init, Locals
<1>3. orphans = {} /\ \A c \in Call : applied[c] = 0
  BY DEF Init
<1>4. FutureOK
  BY <1>3 DEF FutureOK, Abandoned
<1>5. ASSUME NEW x \in Tx PROVE Effects(x) /\ Told(x)
  BY <1>2 DEF Effects, Told
<1> QED BY <1>1, <1>4, <1>5 DEF IInv

\* Every step keeps IInv.
LEMMA NextIInv ==
  ASSUME IInv, [Next]_vars
  PROVE  IInv'
<1>1. CASE UNCHANGED vars
  <2>1. FdInv'
    BY NextFdInv DEF IInv
  <2>2. FutureOK'
    BY <1>1 DEF vars, IInv, FutureOK, Abandoned
  <2>3. ASSUME NEW y \in Tx PROVE Effects(y)' /\ Told(y)'
    BY <1>1, SameEffects DEF vars, IInv, FdInv, Control
  <2> QED BY <2>1, <2>2, <2>3 DEF IInv
<1> QED BY <1>1, ThreadIInv, ServeIInv, HangupIInv, OrphanIInv DEF Next

\* IInv gives the invariant the runs check.
LEMMA HonestFrom ==
  ASSUME IInv
  PROVE  ResultHonest
<1> SUFFICES ASSUME NEW x \in Tx, th[x].pc = "done"
             PROVE  /\ th[x].pol = "ONESHOT" => applied[This(x)] <= 1
                    /\ th[x].op = "write" /\ th[x].rv = "OK" => applied[This(x)] >= 1
                    /\ th[x].rv = "NOTFOUND" => applied[This(x)] = 0
  BY DEF ResultHonest, This
<1>1. Control(x) /\ Effects(x) /\ Told(x) /\ th[x].op \in {"read", "write", "delete"}
  BY InTry, ThreadFields DEF IInv, FdInv, Op
<1> QED BY <1>1 DEF Control, Effects, Told

\* The invariant of the whole specification: descriptors, connections, and what
\* the servers did for each call.
THEOREM Invariance == Spec => []IInv
<1>1. Init => IInv
  BY InitIInv
<1>2. IInv /\ [Next]_vars => IInv'
  BY NextIInv
<1> QED BY <1>1, <1>2, PTL DEF Spec

\* What do_the_full_monte returns is true of the servers, however late they act on
\* requests whose connection was closed: a ONESHOT call took effect at most once,
\* a write that reports success took effect, and a call that reports "not found"
\* did not.
THEOREM ResultHonestHolds == Spec => []ResultHonest
<1>1. IInv => ResultHonest
  BY HonestFrom
<1> QED BY <1>1, Invariance, PTL

=============================================================================
