---------------------------- MODULE Batch_proofs ----------------------------
(***************************************************************************)
(* The safety of Batch for any users, nodes, digests, workers and           *)
(* descriptors.  The inductive invariant IInv says, part by part, where a   *)
(* user can be (Phases) and what there is before the lazy start (Creation), *)
(* who holds a node (Refs), that a descriptor is in one place (Fds, Pools), *)
(* that the work of a call is in one place and is what it waits for (Jobs,  *)
(* Lefts), what is on a connection that a worker reads (Wires), and what a   *)
(* call has been called back for (Calls).                                   *)
(***************************************************************************)
EXTENDS Batch, FiniteSetTheorems, FunctionTheorems, SequenceTheorems, TLAPS

\* Where a batch is before its work is split, and while there is work for it.
Before == {"idle", "start", "create", "node"}
Under == {"push", "wait", "undefined"}
Item(u, n) == [user |-> u, node |-> n]

\* Before the lazy start there are no workers and no queue; one user makes them.
Creation ==
    /\ (~started \/ \E u \in User : pc[u] = "create") =>
          (\A w \in Worker : wpc[w] = "none") /\ ~made /\ bq = <<>> /\ main = "run"
    /\ \A u, v \in User : pc[u] = "create" /\ pc[v] = "create" => u = v
    /\ \A u \in User : pc[u] = "create" => started
    /\ \A w \in Worker : job[w] # STOP <=> wpc[w] \in {"send", "read"}

\* The places of each kind of call, and what its locals are there.
Phase(u) ==
    /\ op[u] = "batch" => pc[u] \in Before \cup Under \cup {"done"}
    /\ op[u] = "scan" => pc[u] \in {"idle", "random", "scan", "scanread", "done"}
    /\ op[u] = "all" =>
          pc[u] \in {"idle", "byname", "reserve", "scan", "scanread", "done", "undefined"}
    /\ Len(nodes[u]) <= MaxDigests
    /\ pc[u] \notin {"node", "scan", "scanread"} \cup Under => nodes[u] = <<>>
    /\ pc[u] \in Under /\ op[u] = "batch" => Len(nodes[u]) = MaxDigests
    /\ pc[u] \in {"scan", "scanread"} => Len(nodes[u]) = 1
    /\ op[u] = "all" /\ pc[u] = "undefined" => nodes[u] = <<>>
    /\ op[u] = "batch" /\ pc[u] \notin {"push", "undefined"} => todo[u] = <<>>
    /\ op[u] = "scan" => todo[u] = <<>>
    /\ pc[u] \in {"push", "byname", "reserve"} => todo[u] # <<>>
    /\ op[u] = "batch" /\ pc[u] \in Before => cq[u] = <<>> /\ rv[u] = "OK"
    /\ op[u] = "batch" /\ pc[u] \in Before => \A d \in Digest : got[u][d] = 0
Phases == \A u \in User : Phase(u)

\* A node's references, counted.
Refs ==
    \A n \in Node :
        refs[n] = Cardinality({n} \cap listed) + leaked[n] + Cardinality(Holders(n))

\* A descriptor that is read from is open, has one reader and is in no pool;
\* nothing is left to be read from one that is not open.
Pooled(f) == \E n \in Node : f \in ToSet(pool[n])
Fds ==
    /\ \A w \in Worker : wpc[w] = "read" => wfd[w] \in open /\ ~Pooled(wfd[w])
    /\ \A u \in User : pc[u] = "scanread" => fd[u] \in open /\ ~Pooled(fd[u])
    /\ \A v, w \in Worker :
          wpc[v] = "read" /\ wpc[w] = "read" /\ wfd[v] = wfd[w] => v = w
    /\ \A u, v \in User :
          pc[u] = "scanread" /\ pc[v] = "scanread" /\ fd[u] = fd[v] => u = v
    /\ \A w \in Worker, u \in User :
          wpc[w] = "read" /\ pc[u] = "scanread" => wfd[w] # fd[u]
    /\ \A f \in Fd : Pooled(f) \/ conn[f] # <<>> => f \in open

\* A descriptor is in one place of one pool.
Pools ==
    \A m, n \in Node : \A j \in DOMAIN pool[m], k \in DOMAIN pool[n] :
        pool[m][j] = pool[n][k] => m = n /\ j = k

\* A work is for a batch under way, for one of its nodes, and has been pushed.
Awaited(k) ==
    /\ op[k.user] = "batch" /\ pc[k.user] \in Under
    /\ k.node \in ToSet(nodes[k.user]) /\ k.node \notin ToSet(todo[k.user])

\* A work is in one place: to be pushed, in the queue, or with a worker.
Jobs ==
    /\ \A j \in DOMAIN bq : bq[j] # STOP =>
        /\ Awaited(bq[j])
        /\ \A i \in DOMAIN bq : bq[i] = bq[j] => i = j
        /\ \A w \in Worker : job[w] # bq[j]
    /\ \A w \in Worker : job[w] # STOP =>
        /\ Awaited(job[w])
        /\ \A v \in Worker : job[v] = job[w] => v = w
    /\ \A u \in User : op[u] = "batch" =>
        /\ ToSet(todo[u]) \subseteq ToSet(nodes[u])
        /\ \A i, j \in DOMAIN todo[u] : todo[u][i] = todo[u][j] => i = j

\* The nodes whose result a batch does not have yet; a call waits for those and
\* for what is in its completion queue.
Pend(u) ==
    ToSet(todo[u]) \cup
    {n \in Node : Item(u, n) \in ToSet(bq) \/ \E w \in Worker : job[w] = Item(u, n)}
Lefts ==
    \A u \in User : op[u] = "batch" /\ pc[u] \in Under =>
        left[u] = Cardinality(Pend(u)) + Len(cq[u])

\* What is left of a reply: all of it, or single messages up to an error.
Whole(c, S) ==
    /\ Len(c) = 1 /\ \A k \in DOMAIN c[1] : c[1][k].is # "error"
    /\ BatchDone(c[1])
    /\ \A d \in Digest : Records(c[1], d) = IF d \in S \cap Found THEN 1 ELSE 0
Parts(c, S) ==
    /\ Len(c) >= 2 /\ c[Len(c) - 1] = <<Msg("error", 0)>>
    /\ c[Len(c)] = <<Msg("last", 0)>>
    /\ \A k \in 1 .. Len(c) - 2 :
        /\ \E d \in S : c[k] = <<Rec(d)>>
        /\ \A j \in 1 .. Len(c) - 2 : c[j] = c[k] => j = k
Reply(c, S) == Whole(c, S) \/ Parts(c, S)

\* A worker reads such a rest, unless a scan left it a reply to read.
Wires ==
    \A w \in Worker : wpc[w] = "read" =>
        \/ wfd[w] \in tainted /\ job[w].user \in spoiled
        \/ Reply(conn[wfd[w]], Asked(job[w].user, job[w].node))

\* A record that is still to come.
Coming(c, d) == \E k \in DOMAIN c : Msg("rec", d) \in ToSet(c[k])
Reads(w, u, n) == wpc[w] = "read" /\ job[w] = Item(u, n)

\* What a batch has been called back for, digest d of node n: nothing when its
\* reply is still to come, nothing that is still on the connection, all that
\* exists at a node whose result is good.
Fetched(u, d, n) ==
    /\ (n \in Pend(u) /\ \A w \in Worker : ~Reads(w, u, n)) => got[u][d] = 0
    /\ \A w \in Worker : Reads(w, u, n) /\ Coming(conn[wfd[w]], d) => got[u][d] = 0
    /\ (n \notin Pend(u) /\ rv[u] = "OK" /\ d \in Found
           /\ \A k \in DOMAIN cq[u] : cq[u][k] = "OK") => got[u][d] = 1
Called(u, d) ==
    /\ got[u][d] <= 1 /\ (d \notin Found => got[u][d] = 0)
    /\ pc[u] \in Under => Fetched(u, d, nodes[u][d])
    /\ pc[u] = "done" /\ rv[u] = "OK" /\ d \in Found => got[u][d] = 1
Calls == \A u \in User \ spoiled : op[u] = "batch" => \A d \in Digest : Called(u, d)

IInv ==
    /\ TypeOK /\ Creation /\ Phases /\ Refs /\ Fds /\ Pools /\ PoolClean
    /\ Jobs /\ Lefts /\ Wires /\ Calls

-----------------------------------------------------------------------------
(* Counting and sequences                                                  *)

\* A subset of a finite set is counted by a number, 0 when it is empty.
LEMMA CountNat ==
  ASSUME NEW S, IsFiniteSet(S), NEW A \in SUBSET S
  PROVE  /\ IsFiniteSet(A) /\ Cardinality(A) \in Nat
         /\ Cardinality(A) = 0 <=> A = {}
  BY FS_Subset, FS_CardinalityType, FS_EmptySet

\* The sets that are counted are finite.
LEMMA Finites ==
  /\ IsFiniteSet(Digest) /\ IsFiniteSet(User) /\ IsFiniteSet(Node)
  /\ IsFiniteSet(User \X Digest) /\ 1 \in Digest /\ MaxDigests \in Nat
<1>1. IsFiniteSet(Digest) /\ 1 \in Digest /\ MaxDigests \in Nat
  <2>1. MaxDigests \in Nat \ {0}
    BY BatchAssumption
  <2>2. IsFiniteSet(1 .. MaxDigests)
    BY <2>1, FS_Interval
  <2> QED BY <2>1, <2>2 DEF Digest
<1> QED BY <1>1, BatchAssumption, FS_Product

\* A sequence of the members of a set has each once.
LEMMA SeqOfSet ==
  ASSUME NEW S, IsFiniteSet(S)
  PROVE  /\ SetToSeq(S) \in Seq(S) /\ ToSet(SetToSeq(S)) = S
         /\ Len(SetToSeq(S)) = Cardinality(S)
         /\ \A i, j \in DOMAIN SetToSeq(S) : SetToSeq(S)[i] = SetToSeq(S)[j] => i = j
<1> DEFINE n == Cardinality(S)
           s == SetToSeq(S)
<1>1. n \in Nat /\ ExistsBijection(1 .. n, S)
  BY FS_CardinalityType
<1>2. PICK f \in Bijection(1 .. n, S) : TRUE
  BY <1>1 DEF ExistsBijection
<1>3. f \in [1 .. n -> S] /\ IsInjective(f)
  BY <1>2 DEF Bijection, Injection, Surjection, IsInjective
<1>4. s \in [1 .. n -> S] /\ IsInjective(s)
  BY <1>3 DEF SetToSeq
<1>5. s \in Injection(1 .. n, S)
  BY <1>4 DEF Injection, IsInjective
<1>6. s \in Surjection(1 .. n, S)
  <2>1. IsFiniteSet(1 .. n) /\ Cardinality(1 .. n) = n
    BY <1>1, FS_Interval
  <2> HIDE DEF n, s
  <2>2. Cardinality(1 .. n) = Cardinality(S)
    BY <2>1 DEF n
  <2> QED BY <1>5, <2>2, FS_Injection
<1> QED BY <1>1, <1>4, <1>6 DEF IsInjective, ToSet, Surjection


\* The tail of a sequence.
LEMMA TailIs ==
  ASSUME NEW T, NEW s \in Seq(T), s # <<>>
  PROVE  /\ Tail(s) \in Seq(T) /\ Head(s) \in T /\ Head(s) = s[1] /\ Len(s) \in Nat \ {0}
         /\ DOMAIN s = 1 .. Len(s) /\ DOMAIN Tail(s) = 1 .. Len(s) - 1
         /\ Len(Tail(s)) = Len(s) - 1 /\ \A k \in 1 .. Len(s) - 1 : Tail(s)[k] = s[k + 1]
         /\ Tail(s) = <<>> <=> Len(s) = 1
<1>1. /\ Tail(s) \in Seq(T) /\ Head(s) \in T /\ Head(s) = s[1] /\ Len(s) \in Nat \ {0}
      /\ DOMAIN s = 1 .. Len(s) /\ DOMAIN Tail(s) = 1 .. Len(s) - 1
      /\ Len(Tail(s)) = Len(s) - 1 /\ \A k \in 1 .. Len(s) - 1 : Tail(s)[k] = s[k + 1]
  OBVIOUS
<1>2. Tail(s) = <<>> <=> Len(Tail(s)) = 0
  BY <1>1, EmptySeq
<1> QED BY <1>1, <1>2

-----------------------------------------------------------------------------
(* What a server sends                                                     *)

\* A message is a record of its code and digest.
LEMMA MsgIs ==
  ASSUME NEW m, NEW d
  PROVE  /\ Msg(m, d).is = m /\ Msg(m, d).digest = d
         /\ \A a, b : Msg(m, d) = Msg(a, b) <=> (a = m /\ b = d)
<1>1. ASSUME NEW a, NEW b, Msg(m, d) = Msg(a, b) PROVE a = m /\ b = d
  <2>1. Msg(m, d).is = m /\ Msg(m, d).digest = d /\ Msg(a, b).is = a /\ Msg(a, b).digest = b
    BY DEF Msg
  <2> QED BY <1>1, <2>1
<1> QED BY <1>1 DEF Msg

\* The types of messages.
LEMMA MsgTypes ==
  /\ \A d \in Digest : Rec(d) \in Msgs
  /\ Msg("error", 0) \in Msgs /\ Msg("last", 0) \in Msgs
  /\ Msg("rec", 0) \in Msgs /\ Msg("notfound", 0) \in Msgs
  BY DEF Rec, Msg, Msgs

\* What a server sends for the digests of a batch: the whole of it, or part of
\* it and an error.
LEMMA RepliesAre ==
  ASSUME NEW S \in SUBSET Digest, NEW rep \in Replies(S)
  PROVE  rep \in Seq(Seq(Msgs)) /\ Reply(rep, S)
<1> DEFINE ds == SetToSeq(S)
           m == Len(ds)
           recs == [k \in DOMAIN ds |-> Rec(ds[k])]
           err == Msg("error", 0)
           last == Msg("last", 0)
<1>1. /\ ds \in Seq(S) /\ ToSet(ds) = S /\ m \in Nat /\ DOMAIN ds = 1 .. m
      /\ \A i, j \in 1 .. m : ds[i] = ds[j] => i = j
  <2>1. IsFiniteSet(S)
    BY Finites, FS_Subset
  <2> QED BY <2>1, SeqOfSet
<1>2. /\ recs \in Seq(Msgs) /\ Len(recs) = m /\ \A k \in 1 .. m : recs[k] = Rec(ds[k])
      /\ \A k \in 1 .. m : ds[k] \in S
  <2> HIDE DEF ds
  <2> QED BY <1>1, MsgTypes
<1>3. err \in Msgs /\ last \in Msgs
  BY MsgTypes
<1>4. rep = <<Append(recs, last)>>
      \/ \E k \in 0 .. m : rep = Split(SubSeq(recs, 1, k) \o <<err, last>>)
  BY <1>2 DEF Replies
<1> HIDE DEF ds, m, recs, err, last
<1>5. CASE rep = <<Append(recs, last)>>
  <2> DEFINE p == Append(recs, last)
  <2>1. /\ p \in Seq(Msgs) /\ DOMAIN p = 1 .. m + 1 /\ p[m + 1] = last
        /\ \A k \in 1 .. m : p[k] = Rec(ds[k])
    BY <1>1, <1>2, <1>3
  <2>2. rep = <<p>>
    BY <1>5
  <2> HIDE DEF p
  <2>3. rep \in Seq(Seq(Msgs)) /\ Len(rep) = 1 /\ rep[1] = p
    BY <2>1, <2>2
  <2>4. \A k \in DOMAIN p : p[k].is # "error"
    <3> TAKE k \in DOMAIN p
    <3>1. last.is = "last"
      BY MsgIs DEF last
    <3>2. \A d : Rec(d).is # "error"
      BY MsgIs DEF Rec
    <3> QED BY <1>1, <2>1, <3>1, <3>2
  <2>5. BatchDone(p)
    BY <1>1, <2>1, MsgIs DEF BatchDone, last
  <2>6. ASSUME NEW d \in Digest
        PROVE  Records(p, d) = IF d \in S \cap Found THEN 1 ELSE 0
    <3> DEFINE R == {k \in DOMAIN p : p[k] = Msg("rec", d)}
    <3>1. \A k \in DOMAIN p : p[k] = Msg("rec", d) <=> k \in 1 .. m /\ ds[k] = d /\ d \in Found
      <4> TAKE k \in DOMAIN p
      <4>1. CASE k = m + 1
        BY <1>1, <2>1, <4>1, MsgIs DEF last
      <4>2. CASE k \in 1 .. m
        <5>1. p[k] = Rec(ds[k])
          BY <2>1, <4>2
        <5> QED BY <4>2, <5>1, MsgIs DEF Rec
      <4> QED BY <1>1, <2>1, <4>1, <4>2
    <3>2. CASE d \in S \cap Found
      <4>1. PICK i \in 1 .. m : ds[i] = d
        BY <1>1, <3>2 DEF ToSet
      <4>2. R = {i}
        BY <1>1, <2>1, <3>1, <3>2, <4>1
      <4> QED BY <3>2, <4>2, FS_Singleton DEF Records
    <3>3. CASE d \notin S \cap Found
      <4>1. R = {}
        BY <1>2, <2>1, <3>1, <3>3
      <4> QED BY <3>3, <4>1, FS_EmptySet DEF Records
    <3> QED BY <3>2, <3>3
  <2> QED BY <2>3, <2>4, <2>5, <2>6 DEF Reply, Whole
<1>6. ASSUME NEW k \in 0 .. m, rep = Split(SubSeq(recs, 1, k) \o <<err, last>>)
      PROVE  rep \in Seq(Seq(Msgs)) /\ Reply(rep, S)
  <2> DEFINE s == SubSeq(recs, 1, k) \o <<err, last>>
  <2>1. /\ s \in Seq(Msgs) /\ Len(s) = k + 2 /\ s[k + 1] = err /\ s[k + 2] = last
        /\ \A i \in 1 .. k : s[i] = Rec(ds[i])
    BY <1>1, <1>2, <1>3
  <2> HIDE DEF s
  <2>2. /\ rep \in Seq(Seq(Msgs)) /\ Len(rep) = k + 2
        /\ \A i \in 1 .. k + 2 : rep[i] = <<s[i]>>
    <3>1. rep = [i \in 1 .. k + 2 |-> <<s[i]>>]
      BY <1>1, <1>6, <2>1 DEF Split, s
    <3>2. \A i \in 1 .. k + 2 : <<s[i]>> \in Seq(Msgs)
      BY <1>1, <2>1
    <3> QED BY <1>1, <3>1, <3>2
  <2>3. rep[k + 1] = <<err>> /\ rep[k + 2] = <<last>> /\ \A i \in 1 .. k : rep[i] = <<Rec(ds[i])>>
    BY <1>1, <2>1, <2>2
  <2>4. \A i \in 1 .. k : ds[i] \in S /\ \A j \in 1 .. k : rep[j] = rep[i] => j = i
    <3> TAKE i \in 1 .. k
    <3>1. ds[i] \in S
      BY <1>1, <1>2
    <3>2. ASSUME NEW j \in 1 .. k, rep[j] = rep[i] PROVE j = i
      <4>1. Rec(ds[i]) = Rec(ds[j])
        BY <2>3, <3>2
      <4>2. ds[i] = ds[j]
        BY <4>1, MsgIs DEF Rec
      <4> QED BY <1>1, <4>2
    <3> QED BY <3>1, <3>2
  <2>5. Parts(rep, S)
    BY <1>1, <2>2, <2>3, <2>4 DEF Parts, err, last
  <2> QED BY <2>2, <2>5 DEF Reply
<1> QED BY <1>4, <1>5, <1>6

\* The type of what a server sends for a scan.
LEMMA ScanRepliesAre ==
  ASSUME NEW rep \in ScanReplies
  PROVE  rep \in Seq(Seq(Msgs))
<1> DEFINE rec == Msg("rec", 0)
           err == Msg("error", 0)
           nf == Msg("notfound", 0)
           last == Msg("last", 0)
<1>1. rec \in Msgs /\ err \in Msgs /\ nf \in Msgs /\ last \in Msgs
  BY MsgTypes
<1>2. rep = <<<<rec, last>>>> \/ rep = Split(<<rec, err, last>>) \/ rep = <<<<nf>>>>
  BY DEF ScanReplies
<1> HIDE DEF rec, err, nf, last
<1>3. Split(<<rec, err, last>>) = <<<<rec>>, <<err>>, <<last>>>>
  BY DEF Split
<1>4. <<<<rec, last>>>> \in Seq(Seq(Msgs))
  BY <1>1
<1>5. <<<<rec>>, <<err>>, <<last>>>> \in Seq(Seq(Msgs))
  BY <1>1
<1>6. <<<<nf>>>> \in Seq(Seq(Msgs))
  BY <1>1
<1> QED BY <1>2, <1>3, <1>4, <1>5, <1>6

-----------------------------------------------------------------------------
(* References                                                              *)

\* The references on a node as pairs of a user and a place of its array.
LEMMA HoldersAre ==
  ASSUME NEW n
  PROVE  /\ Holders(n) = {h \in User \X Digest :
                            h[2] \in DOMAIN nodes[h[1]] /\ nodes[h[1]][h[2]] = n}
         /\ IsFiniteSet(Holders(n)) /\ Cardinality(Holders(n)) \in Nat
         /\ \A u \in User :
              /\ Holds(u, n) = {h \in Holders(n) : h[1] = u}
              /\ IsFiniteSet(Holds(u, n)) /\ Cardinality(Holds(u, n)) \in Nat
              /\ Cardinality(Holders(n) \ Holds(u, n))
                   = Cardinality(Holders(n)) - Cardinality(Holds(u, n))
<1>1. Holders(n) = {h \in User \X Digest :
                      h[2] \in DOMAIN nodes[h[1]] /\ nodes[h[1]][h[2]] = n}
  BY DEF Holders, Holds
<1>2. \A u \in User : Holds(u, n) = {h \in Holders(n) : h[1] = u}
  BY <1>1 DEF Holds
<1>3. IsFiniteSet(Holders(n)) /\ Cardinality(Holders(n)) \in Nat
  <2>1. Holders(n) \in SUBSET (User \X Digest)
    BY <1>1
  <2> QED BY <2>1, Finites, CountNat
<1>4. ASSUME NEW u \in User
      PROVE  /\ IsFiniteSet(Holds(u, n)) /\ Cardinality(Holds(u, n)) \in Nat
             /\ Cardinality(Holders(n) \ Holds(u, n))
                   = Cardinality(Holders(n)) - Cardinality(Holds(u, n))
  <2>1. Holds(u, n) \in SUBSET Holders(n)
    BY <1>2
  <2>2. Holders(n) \cap Holds(u, n) = Holds(u, n)
    BY <2>1
  <2>3. IsFiniteSet(Holds(u, n)) /\ Cardinality(Holds(u, n)) \in Nat
    BY <1>3, <2>1, CountNat
  <2>4. Cardinality(Holders(n) \ Holds(u, n))
          = Cardinality(Holders(n)) - Cardinality(Holders(n) \cap Holds(u, n))
    BY <1>3, <2>3, FS_Difference
  <2> QED BY <2>2, <2>3, <2>4
<1> QED BY <1>1, <1>2, <1>3, <1>4

\* The list's own reference.
LEMMA ListedRef ==
  ASSUME NEW n, NEW L
  PROVE  Cardinality({n} \cap L) = IF n \in L THEN 1 ELSE 0
<1>1. CASE n \in L
  <2>1. {n} \cap L = {n}
    BY <1>1
  <2> QED BY <1>1, <2>1, FS_Singleton
<1>2. CASE n \notin L
  <2>1. {n} \cap L = {}
    BY <1>2
  <2> QED BY <1>2, <2>1, FS_EmptySet
<1> QED BY <1>1, <1>2

\* A node that a call holds has a reference.
LEMMA HeldRef ==
  ASSUME TypeOK, Phases, Refs, NEW u \in User, NEW k \in DOMAIN nodes[u]
  PROVE  k \in Digest /\ nodes[u][k] \in Node /\ refs[nodes[u][k]] > 0
<1> DEFINE n == nodes[u][k]
<1>1. nodes[u] \in Seq(Node) /\ Len(nodes[u]) <= MaxDigests
  BY DEF TypeOK, CallTypes, Phases, Phase
<1>2. k \in Digest /\ n \in Node
  BY <1>1, Finites DEF Digest
<1>3. <<u, k>> \in Holders(n)
  BY <1>2, HoldersAre
<1>4. Cardinality(Holders(n)) > 0
  BY <1>3, HoldersAre, CountNat
<1>5. refs[n] = Cardinality({n} \cap listed) + leaked[n] + Cardinality(Holders(n))
  BY <1>2 DEF Refs
<1>6. Cardinality({n} \cap listed) \in Nat /\ leaked[n] \in Nat
  BY <1>2, ListedRef DEF TypeOK, NodeTypes
<1> QED BY <1>2, <1>4, <1>5, <1>6, HoldersAre

-----------------------------------------------------------------------------
(* Types                                                                   *)

\* The descriptors a connection can be taken from.
LEMMA FdOfIs ==
  ASSUME TypeOK, NEW n \in Node, NEW f \in FdOf(n)
  PROVE  /\ f \in Fd
         /\ \/ pool[n] # <<>> /\ f = Head(pool[n])
            \/ pool[n] = <<>> /\ f \notin open
  BY DEF FdOf, TypeOK, NetTypes

\* The actions of a batch keep the types.
LEMMA TypesBatch ==
  ASSUME IInv, NEW u \in User, Batch(u)
  PROVE  TypeOK'
<1> USE DEF Goto, Result, Rv, workers, results, workQ, nodeState, net
<1>0. /\ Phase(u) /\ MaxDigests \in Nat
      /\ CallTypes /\ ResultTypes /\ WorkerTypes /\ QueueTypes /\ NodeTypes /\ NetTypes
  BY Finites DEF IInv, Phases, TypeOK
<1>1. CASE LazyStart(u)
  <2>1. CallTypes' /\ QueueTypes'
    BY <1>0, <1>1 DEF LazyStart, CallTypes, QueueTypes
  <2> QED BY <1>0, <1>1, <2>1 DEF TypeOK, LazyStart, ResultTypes, WorkerTypes, NodeTypes,
             NetTypes
<1>2. CASE LazyCreate(u)
  <2>1. CallTypes'
    BY <1>0, <1>2 DEF LazyCreate, CallTypes
  <2>2. QueueTypes' /\ WorkerTypes'
    BY <1>0, <1>2 DEF LazyCreate, QueueTypes, WorkerTypes
  <2> QED BY <1>0, <1>2, <2>1, <2>2 DEF TypeOK, LazyCreate, ResultTypes, NodeTypes, NetTypes
<1>3. CASE BatchNode(u)
  <2>1. \A n \in NodesFor(Len(nodes[u]) + 1) : n \in Node
    BY <1>0 DEF NodesFor, NodeTypes
  <2>2. PICK n \in Node : /\ nodes' = [nodes EXCEPT ![u] = Append(@, n)]
                          /\ refs' = [refs EXCEPT ![n] = @ + 1]
    BY <1>3, <2>1 DEF BatchNode
  <2>4. NodeTypes'
    BY <1>0, <1>3, <2>2 DEF NodeTypes, BatchNode
  <2>5. nodes' \in [User -> Seq(Node)]
    BY <1>0, <2>2 DEF CallTypes
  <2>3. CallTypes' /\ NodeTypes'
    BY <1>0, <1>3, <2>4, <2>5 DEF CallTypes, BatchNode
  <2> QED BY <1>0, <1>3, <2>3 DEF TypeOK, BatchNode, ResultTypes, WorkerTypes, QueueTypes,
             NetTypes
<1>4. CASE BatchNoNode(u)
  <2>1. CallTypes'
    BY <1>0, <1>4 DEF BatchNoNode, CallTypes
  <2>2. \A n \in Node : Cardinality(Holds(u, n)) \in Nat
    BY HoldersAre
  <2>3. NodeTypes'
    BY <1>0, <1>4, <2>2 DEF BatchNoNode, NodeTypes
  <2> QED BY <1>0, <1>4, <2>1, <2>3 DEF TypeOK, BatchNoNode, ResultTypes, WorkerTypes,
             QueueTypes, NetTypes
<1>5. CASE BatchSplit(u)
  <2> DEFINE S == ToSet(nodes[u])
  <2>1. S \in SUBSET Node
    BY <1>0 DEF CallTypes, ToSet
  <2>2. IsFiniteSet(S)
    BY <2>1, Finites, FS_Subset
  <2> HIDE DEF S
  <2>3. SetToSeq(S) \in Seq(S) /\ Cardinality(S) \in Nat
    BY <2>2, SeqOfSet, FS_CardinalityType
  <2>4. SetToSeq(S) \in Seq(Node)
    BY <2>1, <2>3
  <2>5. CallTypes'
    BY <1>0, <1>5, <2>3, <2>4 DEF CallTypes, BatchSplit, S
  <2> QED BY <1>0, <1>5, <2>5 DEF TypeOK, BatchSplit, ResultTypes, WorkerTypes,
             QueueTypes, NodeTypes, NetTypes
<1>6. CASE BatchPush(u)
  <2>1. pc[u] = "push" /\ todo[u] \in Seq(Node) /\ todo[u] # <<>>
    BY <1>0, <1>6 DEF CallTypes, BatchPush, Phase
  <2>2. Item(u, Head(todo[u])) \in Works /\ Tail(todo[u]) \in Seq(Node)
    BY <2>1 DEF Item, Works
  <2>5. /\ UNCHANGED <<op, nodes, left, fd, rv>>
        /\ \E p \in {"undefined", "wait", "push"} : pc' = [pc EXCEPT ![u] = p]
        /\ todo' = todo \/ todo' = [todo EXCEPT ![u] = Tail(todo[u])]
    BY <1>6 DEF BatchPush
  <2>3. CallTypes'
    <3>1. /\ op' \in [User -> {"batch", "scan", "all"}]
          /\ nodes' \in [User -> Seq(Node)] /\ left' \in [User -> Nat]
          /\ fd' \in [User -> Fd \cup {NULL}] /\ rv' \in [User -> Rv]
      BY <1>0, <2>5 DEF CallTypes
    <3>2. todo' \in [User -> Seq(Node)]
      BY <1>0, <2>2, <2>5 DEF CallTypes
    <3>3. pc' \in [User -> {"idle", "start", "create", "node", "push", "wait", "random",
                           "byname", "reserve", "scan", "scanread", "done", "undefined"}]
      BY <1>0, <2>5 DEF CallTypes
    <3> QED BY <3>1, <3>2, <3>3 DEF CallTypes
  <2>4. QueueTypes'
    BY <1>0, <1>6, <2>2 DEF QueueTypes, BatchPush, Item
  <2> QED BY <1>0, <1>6, <2>3, <2>4 DEF TypeOK, BatchPush, ResultTypes, WorkerTypes,
             NodeTypes, NetTypes
<1>7. CASE BatchWait(u)
  <2>1. op[u] = "batch" /\ cq[u] \in Seq(Rv) /\ cq[u] # <<>> /\ left[u] \in Nat
    BY <1>0, <1>7 DEF BatchWait, Phase, CallTypes, ResultTypes
  <2>2. left[u] = Cardinality(Pend(u)) + Len(cq[u])
    BY <1>7, <2>1 DEF IInv, Lefts, BatchWait, Under
  <2>3. Cardinality(Pend(u)) \in Nat
    <3>1. Pend(u) \in SUBSET Node
      BY <1>0 DEF Pend, CallTypes, ToSet
    <3> QED BY <3>1, Finites, CountNat
  <2>4. left[u] - 1 \in Nat /\ Head(cq[u]) \in Rv /\ Tail(cq[u]) \in Seq(Rv)
    BY <2>1, <2>2, <2>3
  <2>5. CallTypes' /\ ResultTypes'
    BY <1>0, <1>7, <2>4 DEF CallTypes, ResultTypes, BatchWait
  <2> QED BY <1>0, <1>7, <2>5 DEF TypeOK, BatchWait, WorkerTypes, QueueTypes, NodeTypes,
             NetTypes
<1>8. CASE BatchReturn(u)
  <2>1. ASSUME NEW n \in Node PROVE refs[n] - Cardinality(Holds(u, n)) \in Nat
    <3>0. Holds(u, n) \in SUBSET Holders(n)
      BY DEF Holders
    <3>1. /\ Holds(u, n) \in SUBSET Holders(n)
          /\ IsFiniteSet(Holders(n)) /\ Cardinality(Holders(n)) \in Nat
          /\ Cardinality(Holds(u, n)) \in Nat
      BY <3>0, HoldersAre
    <3>2. Cardinality(Holds(u, n)) <= Cardinality(Holders(n))
      BY <3>1, FS_Subset
    <3>3. refs[n] = Cardinality({n} \cap listed) + leaked[n] + Cardinality(Holders(n))
      BY DEF IInv, Refs
    <3>4. Cardinality({n} \cap listed) \in Nat /\ leaked[n] \in Nat
      BY <1>0, ListedRef DEF NodeTypes
    <3> QED BY <3>1, <3>2, <3>3, <3>4
  <2>2. CallTypes' /\ NodeTypes'
    BY <1>0, <1>8, <2>1 DEF CallTypes, NodeTypes, BatchReturn
  <2> QED BY <1>0, <1>8, <2>2 DEF TypeOK, BatchReturn, ResultTypes, WorkerTypes,
             QueueTypes, NetTypes
<1> QED BY <1>1, <1>2, <1>3, <1>4, <1>5, <1>6, <1>7, <1>8 DEF Batch

\* What taking a connection, writing to it, closing it and reading from it do to
\* the types.
LEMMA NetActions ==
  ASSUME NetTypes, NEW n \in Node, NEW f \in Fd
  PROVE  /\ Take(n) => pool' \in [Node -> Seq(Fd)]
         /\ Pool(n, f) => pool' \in [Node -> Seq(Fd)]
         /\ \A rep \in Seq(Seq(Msgs)) : Write(f, rep) =>
               /\ open' \subseteq Fd /\ tainted' \subseteq open'
               /\ conn' \in [Fd -> Seq(Seq(Msgs))]
         /\ Close(f) => /\ open' \subseteq Fd /\ tainted' \subseteq open'
                        /\ conn' \in [Fd -> Seq(Seq(Msgs))]
         /\ ProtoRead(f) /\ conn[f] # <<>> => conn' \in [Fd -> Seq(Seq(Msgs))]
<1> DEFINE M == Seq(Msgs)
<1>0. /\ pool \in [Node -> Seq(Fd)] /\ open \subseteq Fd
      /\ conn \in [Fd -> Seq(M)] /\ tainted \subseteq open
  BY DEF NetTypes
<1> HIDE DEF M
<1>1. Take(n) => pool' \in [Node -> Seq(Fd)]
  BY <1>0 DEF Take
<1>2. Pool(n, f) => pool' \in [Node -> Seq(Fd)]
  BY <1>0 DEF Pool
<1>3. ASSUME NEW rep \in Seq(M), Write(f, rep)
      PROVE  open' \subseteq Fd /\ tainted' \subseteq open' /\ conn' \in [Fd -> Seq(M)]
  <2>1. conn[f] \o rep \in Seq(M)
    BY <1>0
  <2> QED BY <1>0, <1>3, <2>1 DEF Write
<1>4. Close(f) => /\ open' \subseteq Fd /\ tainted' \subseteq open'
                  /\ conn' \in [Fd -> Seq(M)]
  BY <1>0 DEF Close
<1>5. ProtoRead(f) /\ conn[f] # <<>> => conn' \in [Fd -> Seq(M)]
  BY <1>0 DEF ProtoRead
<1> QED BY <1>1, <1>2, <1>3, <1>4, <1>5 DEF M

\* A work that is being done is one of a user at a node.
LEMMA JobIs ==
  ASSUME WorkerTypes, Creation, NEW w \in Worker, wpc[w] \in {"send", "read"}
  PROVE  job[w] # STOP /\ job[w].user \in User /\ job[w].node \in Node
         /\ job[w] = Item(job[w].user, job[w].node)
<1>1. job[w] # STOP /\ job[w] \in Works
  BY DEF WorkerTypes, Creation
<1>2. job[w] \in [user : User, node : Node]
  BY <1>1 DEF Works
<1> QED BY <1>1, <1>2 DEF Item

\* The end of a work keeps the types.
LEMMA TypesComplete ==
  ASSUME ResultTypes, WorkerTypes, NEW w \in Worker, job[w].user \in User,
         NEW r \in Rv, Complete(w, r)
  PROVE  WorkerTypes' /\ cq' \in [User -> Seq(Rv)]
<1>1. STOP \in Works
  BY DEF Works
<1>2. WorkerTypes'
  BY <1>1 DEF Complete, WorkerTypes
<1>3. cq' \in [User -> Seq(Rv)]
  BY DEF Complete, ResultTypes
<1> QED BY <1>2, <1>3

\* What a worker reads is counted.
LEMMA RecordsNat ==
  ASSUME NEW p \in Seq(Msgs), NEW d
  PROVE  Records(p, d) \in Nat /\ BatchRv(p) \in Rv /\ ScanRv(p) \in Rv
<1> DEFINE A == {k \in DOMAIN p : p[k] = Msg("rec", d)}
<1>1. DOMAIN p = 1 .. Len(p) /\ Len(p) \in Nat /\ IsFiniteSet(1 .. Len(p))
  BY FS_Interval
<1>2. Cardinality(A) \in Nat
  BY <1>1, CountNat
<1> QED BY <1>2 DEF Records, BatchRv, ScanRv, Rv

\* The actions of a worker keep the types.
LEMMA TypesWork ==
  ASSUME IInv, NEW w \in Worker, Work(w)
  PROVE  TypeOK'
<1> USE DEF workers, results, workQ, nodeState, net
<1>0. /\ CallTypes /\ ResultTypes /\ WorkerTypes /\ QueueTypes /\ NodeTypes /\ NetTypes
      /\ Creation /\ Fds /\ STOP \in Works
  BY DEF IInv, TypeOK, Works
<1>1. CASE WorkerPop(w)
  <2>1. bq \in Seq(Works) /\ bq # <<>>
    BY <1>0, <1>1 DEF WorkerPop, QueueTypes
  <2>2. Head(bq) \in Works /\ Tail(bq) \in Seq(Works)
    BY <2>1
  <2>3. WorkerTypes' /\ QueueTypes'
    BY <1>0, <1>1, <2>2 DEF WorkerTypes, QueueTypes, WorkerPop
  <2> QED BY <1>0, <1>1, <2>3 DEF TypeOK, WorkerPop, CallTypes, ResultTypes, NodeTypes,
             NetTypes
<1>2. CASE WorkerSend(w)
  <2> DEFINE n == job[w].node
             u == job[w].user
  <2>1. n \in Node /\ u \in User
    BY <1>0, <1>2, JobIs DEF WorkerSend
  <2>2. CallTypes' /\ QueueTypes' /\ NodeTypes'
    BY <1>0, <1>2 DEF WorkerSend, CallTypes, QueueTypes, NodeTypes
  <2>3. ASSUME NEW f \in FdOf(n), NEW rep \in Replies(Asked(u, n)), Take(n), Write(f, rep),
               wpc' = [wpc EXCEPT ![w] = "read"], wfd' = [wfd EXCEPT ![w] = f],
               spoiled' = IF conn[f] # <<>> THEN spoiled \cup {u} ELSE spoiled,
               UNCHANGED <<job, cq>>, UNCHANGED got
        PROVE  ResultTypes' /\ WorkerTypes' /\ NetTypes'
    <3>1. f \in Fd
      BY <2>1, <2>3, FdOfIs DEF IInv
    <3>2. rep \in Seq(Seq(Msgs))
      BY <2>3, RepliesAre DEF Asked
    <3>3. NetTypes'
      BY <1>0, <2>1, <2>3, <3>1, <3>2, NetActions DEF NetTypes
    <3>4. ResultTypes' /\ WorkerTypes'
      BY <1>0, <2>1, <2>3, <3>1 DEF ResultTypes, WorkerTypes
    <3> QED BY <3>3, <3>4
  <2>4. ASSUME Complete(w, "FAIL"), UNCHANGED <<got, spoiled>>
        PROVE  ResultTypes' /\ WorkerTypes'
    BY <1>0, <2>1, <2>4, TypesComplete DEF ResultTypes, Rv
  <2>5. ASSUME NEW f \in FdOf(n), Take(n), Close(f) PROVE NetTypes'
    <3>1. f \in Fd
      BY <2>1, <2>5, FdOfIs DEF IInv
    <3> QED BY <1>0, <2>1, <2>5, <3>1, NetActions DEF NetTypes
  <2>6. UNCHANGED net => NetTypes'
    BY <1>0 DEF NetTypes
  <2>7. ResultTypes' /\ WorkerTypes' /\ NetTypes'
    BY <1>2, <2>3, <2>4, <2>5, <2>6 DEF WorkerSend
  <2> QED BY <2>2, <2>7 DEF TypeOK
<1>3. CASE WorkerFails(w)
  <2>1. job[w].user \in User /\ job[w].node \in Node /\ wfd[w] \in Fd
    BY <1>0, <1>3, JobIs DEF WorkerFails, Fds, NetTypes
  <2>2. Complete(w, "FAIL") /\ "FAIL" \in Rv
    BY <1>3 DEF WorkerFails, Rv
  <2>3. ResultTypes' /\ WorkerTypes'
    BY <1>0, <1>3, <2>1, <2>2, TypesComplete DEF ResultTypes, WorkerFails
  <2>4. NetTypes'
    BY <1>0, <1>3, <2>1, NetActions DEF NetTypes, WorkerFails
  <2> QED BY <1>0, <1>3, <2>3, <2>4 DEF TypeOK, WorkerFails, CallTypes, QueueTypes,
             NodeTypes
<1>4. CASE WorkerRead(w)
  <2> DEFINE p == Head(conn[wfd[w]])
             u == job[w].user
  <2>1. u \in User /\ job[w].node \in Node /\ wfd[w] \in Fd /\ conn[wfd[w]] # <<>>
    BY <1>0, <1>4, JobIs DEF WorkerRead, Fds, NetTypes
  <2>2. p \in Seq(Msgs)
    BY <1>0, <2>1 DEF NetTypes
  <2> HIDE DEF p
  <2>3. BatchRv(p) \in Rv /\ \A d \in Digest : Records(p, d) \in Nat
    BY <2>2, RecordsNat
  <2>4. got' = [got EXCEPT ![u] = [d \in Digest |-> got[u][d] + Records(p, d)]]
        /\ \/ WorkerEnd(w, BatchRv(p)) /\ Complete(w, BatchRv(p))
           \/ ProtoRead(wfd[w]) /\ UNCHANGED <<workers, cq, pool, open, tainted>>
    BY <1>4 DEF WorkerRead, p
  <2>5. got' \in [User -> [Digest -> Nat]]
    BY <1>0, <2>1, <2>3, <2>4 DEF ResultTypes
  <2>6. CASE ProtoRead(wfd[w]) /\ UNCHANGED <<workers, cq, pool, open, tainted>>
    <3>1. NetTypes'
      BY <1>0, <2>1, <2>6, NetActions DEF NetTypes
    <3> QED BY <1>0, <1>4, <2>5, <2>6, <3>1 DEF TypeOK, WorkerRead, CallTypes,
               ResultTypes, WorkerTypes, QueueTypes, NodeTypes
  <2>7. CASE WorkerEnd(w, BatchRv(p)) /\ Complete(w, BatchRv(p))
    <3>1. NetTypes'
      BY <1>0, <2>1, <2>7, NetActions DEF NetTypes, WorkerEnd
    <3>2. ResultTypes' /\ WorkerTypes'
      BY <1>0, <1>4, <2>1, <2>3, <2>5, <2>7, TypesComplete DEF ResultTypes, WorkerRead
    <3> QED BY <1>0, <1>4, <3>1, <3>2 DEF TypeOK, WorkerRead, CallTypes, QueueTypes,
               NodeTypes
  <2> QED BY <2>4, <2>6, <2>7
<1> QED BY <1>1, <1>2, <1>3, <1>4 DEF Work

\* What follows the scan of a node keeps the types of the caller's variables.
LEMMA TypesScanned ==
  ASSUME CallTypes, UNCHANGED <<op, left>>, NEW u \in User, NEW r \in Rv, Scanned(u, r)
  PROVE  CallTypes'
  BY DEF Scanned, CallTypes, Goto, Result

\* The actions of a scan keep the types.
LEMMA TypesScan ==
  ASSUME IInv, NEW u \in User, Scan(u)
  PROVE  TypeOK'
<1> USE DEF workers, results, workQ, nodeState, net
<1>0. /\ Phase(u) /\ CallTypes /\ ResultTypes /\ WorkerTypes /\ QueueTypes /\ NodeTypes
      /\ NetTypes /\ Fds /\ "FAIL" \in Rv
  BY DEF IInv, Phases, TypeOK, Rv
<1>1. pc[u] \in {"scan", "scanread"} =>
        /\ nodes[u] \in Seq(Node) /\ 1 \in DOMAIN nodes[u]
        /\ nodes[u][1] \in Node /\ refs[nodes[u][1]] > 0
  <2>1. pc[u] \in {"scan", "scanread"} => nodes[u] \in Seq(Node) /\ 1 \in DOMAIN nodes[u]
    BY <1>0 DEF Phase, CallTypes
  <2> QED BY <2>1, HeldRef DEF IInv
<1>2. ASSUME pc[u] \in {"scan", "scanread"}, Leak(u), UNCHANGED <<listed, refs>>
      PROVE  NodeTypes'
  BY <1>0, <1>1, <1>2 DEF Leak, NodeTypes
<1>3. CASE ScanRandom(u)
  <2>0. \A n \in listed : n \in Node /\ <<n>> \in Seq(Node)
    BY <1>0 DEF NodeTypes
  <2>1. CallTypes'
    <3>1. CASE Goto(u, "done") /\ Result(u, "FAIL") /\ UNCHANGED <<nodes, refs>>
      BY <1>0, <1>3, <3>1 DEF CallTypes, ScanRandom, Goto, Result, Rv
    <3>2. ASSUME NEW n \in listed, Goto(u, "scan"), nodes' = [nodes EXCEPT ![u] = <<n>>],
                 UNCHANGED rv
          PROVE  CallTypes'
      BY <1>0, <1>3, <2>0, <3>2 DEF CallTypes, ScanRandom, Goto
    <3> QED BY <1>3, <3>1, <3>2 DEF ScanRandom
  <2>2. NodeTypes'
    BY <1>0, <1>3 DEF NodeTypes, ScanRandom
  <2> QED BY <1>0, <1>3, <2>1, <2>2 DEF TypeOK, ScanRandom, ResultTypes, WorkerTypes,
             QueueTypes, NetTypes
<1>4. CASE ScanByName(u)
  <2>1. CASE Goto(u, "reserve") /\ UNCHANGED <<todo, nodes, fd, rv>>
    <3>1. CallTypes'
      BY <1>0, <1>4, <2>1 DEF CallTypes, ScanByName, Goto
    <3> QED BY <1>0, <1>4, <3>1 DEF TypeOK, ScanByName, ResultTypes, WorkerTypes,
               QueueTypes, NodeTypes, NetTypes
  <2>2. CASE Scanned(u, "FAIL")
    <3>1. CallTypes'
      BY <1>0, <1>4, <2>2, TypesScanned DEF ScanByName
    <3> QED BY <1>0, <1>4, <3>1 DEF TypeOK, ScanByName, ResultTypes, WorkerTypes,
               QueueTypes, NodeTypes, NetTypes
  <2> QED BY <1>4, <2>1, <2>2 DEF ScanByName
<1>5. CASE ScanReserve(u)
  <2>1. Head(todo[u]) \in Node
    <3>1. todo[u] \in Seq(Node) /\ todo[u] # <<>>
      BY <1>0, <1>5 DEF CallTypes, Phase, ScanReserve
    <3> QED BY <3>1
  <2> DEFINE n == Head(todo[u])
  <2>2. n \in Node /\ <<n>> \in Seq(Node)
    BY <2>1
  <2>3. \/ Goto(u, "undefined") /\ UNCHANGED <<nodes, refs>>
        \/ /\ Goto(u, "scan") /\ nodes' = [nodes EXCEPT ![u] = <<n>>]
           /\ refs' = [refs EXCEPT ![n] = @ + 1]
    BY <1>5 DEF ScanReserve
  <2> HIDE DEF n
  <2>4. CallTypes'
    <3>1. UNCHANGED <<op, todo, left, fd, rv>>
      BY <1>5 DEF ScanReserve
    <3>2. CASE Goto(u, "undefined") /\ UNCHANGED <<nodes, refs>>
      BY <1>0, <3>1, <3>2 DEF CallTypes, Goto
    <3>3. CASE Goto(u, "scan") /\ nodes' = [nodes EXCEPT ![u] = <<n>>]
      BY <1>0, <2>2, <3>1, <3>3 DEF CallTypes, Goto
    <3> QED BY <2>3, <3>2, <3>3
  <2>5. NodeTypes'
    BY <1>0, <1>5, <2>2, <2>3 DEF NodeTypes, ScanReserve
  <2> QED BY <1>0, <1>5, <2>4, <2>5 DEF TypeOK, ScanReserve, ResultTypes, WorkerTypes,
             QueueTypes, NetTypes
<1>6. CASE ScanSend(u)
  <2> DEFINE n == nodes[u][1]
  <2>1. n \in Node
    BY <1>1, <1>6 DEF ScanSend
  <2>2. ResultTypes' /\ WorkerTypes' /\ QueueTypes'
    BY <1>0, <1>6 DEF ScanSend, ResultTypes, WorkerTypes, QueueTypes
  <2>3. ASSUME NEW f \in FdOf(n), NEW rep \in ScanReplies, Take(n), Write(f, rep),
               Goto(u, "scanread"), fd' = [fd EXCEPT ![u] = f],
               UNCHANGED <<nodes, todo, rv, leaked>>, UNCHANGED <<op, left, listed, refs>>
        PROVE  CallTypes' /\ NodeTypes' /\ NetTypes'
    <3>1. f \in Fd /\ rep \in Seq(Seq(Msgs))
      BY <2>1, <2>3, FdOfIs, ScanRepliesAre DEF IInv
    <3>2. NetTypes'
      BY <1>0, <2>1, <2>3, <3>1, NetActions DEF NetTypes
    <3>3. CallTypes' /\ NodeTypes'
      BY <1>0, <2>3, <3>1 DEF CallTypes, NodeTypes, Goto
    <3> QED BY <3>2, <3>3
  <2>4. ASSUME Scanned(u, "FAIL"), Leak(u), UNCHANGED <<op, left, listed, refs>>
        PROVE  CallTypes' /\ NodeTypes'
    BY <1>0, <1>2, <1>6, <2>4, TypesScanned DEF ScanSend
  <2>5. ASSUME NEW f \in FdOf(n), Take(n), Close(f) PROVE NetTypes'
    <3>1. f \in Fd
      BY <2>1, <2>5, FdOfIs DEF IInv
    <3> QED BY <1>0, <2>1, <2>5, <3>1, NetActions DEF NetTypes
  <2>6. UNCHANGED net => NetTypes'
    BY <1>0 DEF NetTypes
  <2>7. CallTypes' /\ NodeTypes' /\ NetTypes'
    BY <1>6, <2>3, <2>4, <2>5, <2>6 DEF ScanSend
  <2> QED BY <2>2, <2>7 DEF TypeOK
<1>7. CASE ScanFails(u)
  <2>1. fd[u] \in Fd /\ nodes[u][1] \in Node
    BY <1>0, <1>1, <1>7 DEF ScanFails, Fds, NetTypes
  <2>2. CallTypes' /\ NodeTypes'
    BY <1>0, <1>2, <1>7, TypesScanned DEF ScanFails
  <2>3. NetTypes'
    BY <1>0, <1>7, <2>1, NetActions DEF NetTypes, ScanFails
  <2> QED BY <1>0, <1>7, <2>2, <2>3 DEF TypeOK, ScanFails, ResultTypes, WorkerTypes,
             QueueTypes
<1>8. CASE ScanRead(u)
  <2> DEFINE p == Head(conn[fd[u]])
             n == nodes[u][1]
  <2>1. n \in Node /\ fd[u] \in open /\ fd[u] \in Fd /\ conn[fd[u]] # <<>> /\ refs[n] > 0
    BY <1>0, <1>1, <1>8 DEF ScanRead, Fds, NetTypes
  <2>2. p \in Seq(Msgs)
    BY <1>0, <2>1 DEF NetTypes
  <2>3. ScanRv(p) \in Rv
    BY <2>2, RecordsNat
  <2> HIDE DEF p
  <2>4. CASE /\ ScanEnd(fd[u], n) /\ Scanned(u, ScanRv(p))
             /\ refs' = [refs EXCEPT ![n] = @ - 1]
    <3>1. CallTypes'
      BY <1>0, <1>8, <2>3, <2>4, TypesScanned DEF ScanRead
    <3>2. NodeTypes'
      BY <1>0, <1>8, <2>1, <2>4 DEF NodeTypes, ScanRead
    <3>3. /\ pool' \in [Node -> Seq(Fd)] /\ conn' \in [Fd -> Seq(Seq(Msgs))]
          /\ open' \subseteq Fd /\ tainted' \subseteq open'
      BY <1>0, <2>1, <2>4, NetActions DEF ScanEnd, NetTypes
    <3>4. NetTypes'
      BY <3>3 DEF NetTypes
    <3> QED BY <1>0, <1>8, <3>1, <3>2, <3>4 DEF TypeOK, ScanRead, ResultTypes,
               WorkerTypes, QueueTypes
  <2>5. CASE ProtoRead(fd[u]) /\ UNCHANGED <<pc, nodes, todo, fd, rv, refs, pool, open, tainted>>
    <3>1. NetTypes'
      BY <1>0, <1>8, <2>1, <2>5, NetActions DEF NetTypes, ScanRead
    <3> QED BY <1>0, <1>8, <2>5, <3>1 DEF TypeOK, ScanRead, CallTypes, NodeTypes,
               ResultTypes, WorkerTypes, QueueTypes
  <2> QED BY <1>8, <2>4, <2>5 DEF ScanRead, p
<1> QED BY <1>3, <1>4, <1>5, <1>6, <1>7, <1>8 DEF Scan

\* The other actions keep the types.
LEMMA TypesOthers ==
  ASSUME IInv,
         \/ \E u \in User : Begin(u)
         \/ \E n \in Node : NodeDropped(n)
         \/ Shutdown \/ ShutdownJoin \/ UNCHANGED vars
  PROVE  TypeOK'
<1> USE DEF workers, results, workQ, nodeState, net
<1>0. CallTypes /\ ResultTypes /\ WorkerTypes /\ QueueTypes /\ NodeTypes /\ NetTypes
  BY DEF IInv, TypeOK
<1>1. ASSUME NEW u \in User, Begin(u) PROVE TypeOK'
  <2>1. SetToSeq(listed) \in Seq(Node)
    <3>1. listed \in SUBSET Node /\ IsFiniteSet(listed)
      BY <1>0, Finites, FS_Subset DEF NodeTypes
    <3>2. SetToSeq(listed) \in Seq(listed)
      BY <3>1, SeqOfSet
    <3> QED BY <3>1, <3>2
  <2>3. nodes' \in [User -> Seq(Node)] /\ todo' \in [User -> Seq(Node)]
    BY <1>0, <1>1, <2>1 DEF CallTypes, Begin
  <2>4. /\ pc' \in [User -> {"idle", "start", "create", "node", "push", "wait", "random",
                           "byname", "reserve", "scan", "scanread", "done", "undefined"}]
        /\ op' \in [User -> {"batch", "scan", "all"}] /\ left' \in [User -> Nat]
        /\ fd' \in [User -> Fd \cup {NULL}] /\ rv' \in [User -> Rv]
    BY <1>0, <1>1 DEF CallTypes, Begin, Goto, Result, Rv
  <2>2. CallTypes'
    BY <2>3, <2>4 DEF CallTypes
  <2> QED BY <1>0, <1>1, <2>2 DEF TypeOK, Begin, ResultTypes, WorkerTypes, QueueTypes,
             NodeTypes, NetTypes
<1>2. ASSUME NEW n \in Node, NodeDropped(n) PROVE TypeOK'
  <2>1. refs[n] > 0
    <3>1. Cardinality({n} \cap listed) = 1 /\ leaked[n] \in Nat
      BY <1>0, <1>2, ListedRef DEF NodeDropped, NodeTypes
    <3>2. Cardinality(Holders(n)) \in Nat
      BY HoldersAre
    <3> QED BY <3>1, <3>2 DEF IInv, Refs
  <2>2. NodeTypes'
    BY <1>0, <1>2, <2>1 DEF NodeTypes, NodeDropped
  <2> QED BY <1>0, <1>2, <2>2 DEF TypeOK, NodeDropped, CallTypes, ResultTypes,
             WorkerTypes, QueueTypes, NetTypes
<1>3. CASE Shutdown
  <2>1. bq \o [w \in Worker |-> STOP] \in Seq(Works)
    <3>1. [w \in Worker |-> STOP] \in Seq(Works)
      BY BatchAssumption DEF Worker, Works
    <3> QED BY <1>0, <3>1 DEF QueueTypes
  <2>2. QueueTypes'
    BY <1>0, <1>3, <2>1 DEF QueueTypes, Shutdown
  <2> QED BY <1>0, <1>3, <2>2 DEF TypeOK, Shutdown, CallTypes, ResultTypes, WorkerTypes,
             NodeTypes, NetTypes
<1>4. CASE ShutdownJoin
  BY <1>0, <1>4 DEF TypeOK, ShutdownJoin, CallTypes, ResultTypes, WorkerTypes, QueueTypes,
     NodeTypes, NetTypes
<1>5. CASE UNCHANGED vars
  BY <1>0, <1>5 DEF TypeOK, vars, CallTypes, ResultTypes, WorkerTypes, QueueTypes,
     NodeTypes, NetTypes
<1> QED BY <1>1, <1>2, <1>3, <1>4, <1>5

\* Every step keeps the types.
LEMMA TypesStep ==
  ASSUME IInv, [Next]_vars
  PROVE  TypeOK'
  BY TypesBatch, TypesWork, TypesScan, TypesOthers DEF Next

-----------------------------------------------------------------------------
(* Places                                                                  *)

\* What Phase says of a user is not changed by what another user does.
LEMMA PhaseSame ==
  ASSUME NEW u, Phase(u), op' = op, pc'[u] = pc[u], nodes'[u] = nodes[u],
         todo'[u] = todo[u], rv'[u] = rv[u],
         op[u] = "batch" /\ pc[u] \in Before => cq'[u] = cq[u] /\ got'[u] = got[u]
  PROVE  Phase(u)'
  BY DEF Phase

\* The actions of a batch keep every user in its place.
LEMMA PhasesBatch ==
  ASSUME IInv, NEW u \in User, Batch(u)
  PROVE  Phases'
<1> USE DEF workers, results, workQ, nodeState, net, Goto, Result, Before, Under
<1>a. \A v \in User : Phase(v)
  BY DEF IInv, Phases
<1>0. /\ Phase(u) /\ MaxDigests \in Nat
      /\ CallTypes /\ ResultTypes /\ op[u] \in {"batch", "scan", "all"}
      /\ nodes[u] \in Seq(Node) /\ todo[u] \in Seq(Node)
  BY Finites DEF IInv, Phases, TypeOK, CallTypes
<1>1. /\ op' = op
      /\ \A v \in User \ {u} : /\ pc'[v] = pc[v] /\ nodes'[v] = nodes[v] /\ todo'[v] = todo[v]
                              /\ rv'[v] = rv[v] /\ cq'[v] = cq[v] /\ got'[v] = got[v]
  BY <1>0 DEF Batch, LazyStart, LazyCreate, BatchNode, BatchNoNode, BatchSplit,
     BatchPush, BatchWait, BatchReturn, CallTypes, ResultTypes
<1>2. \A v \in User \ {u} : Phase(v)'
  BY <1>a, <1>1, PhaseSame
<1>3. Phase(u)'
  <2>1. CASE LazyStart(u)
    BY <1>0, <2>1 DEF LazyStart, Phase, CallTypes
  <2>2. CASE LazyCreate(u)
    BY <1>0, <2>2 DEF LazyCreate, Phase, CallTypes
  <2>3. CASE BatchNode(u)
    <3>1. PICK n \in Node : nodes' = [nodes EXCEPT ![u] = Append(@, n)]
      BY <2>3 DEF BatchNode, NodesFor, IInv, TypeOK, NodeTypes
    <3>2. nodes'[u] = Append(nodes[u], n) /\ Len(nodes'[u]) = Len(nodes[u]) + 1
      BY <1>0, <3>1 DEF CallTypes
    <3>3. /\ op' = op /\ pc' = pc /\ todo' = todo /\ rv' = rv /\ cq' = cq /\ got' = got
          /\ Len(nodes[u]) < MaxDigests /\ pc[u] = "node" /\ Len(nodes[u]) \in Nat
      BY <1>0, <2>3 DEF BatchNode
    <3> QED BY <1>0, <3>2, <3>3 DEF Phase
  <2>4. CASE BatchNoNode(u)
    BY <1>0, <2>4 DEF BatchNoNode, Phase, CallTypes
  <2>5. CASE BatchSplit(u)
    <3> DEFINE S == ToSet(nodes[u])
    <3>1. S \in SUBSET Node /\ nodes[u][1] \in S
      BY <1>0, <2>5, BatchAssumption DEF ToSet, BatchSplit
    <3>2. IsFiniteSet(S)
      BY <3>1, Finites, FS_Subset
    <3> HIDE DEF S
    <3>3. SetToSeq(S) \in Seq(S) /\ ToSet(SetToSeq(S)) = S
      BY <3>2, SeqOfSet
    <3>4. SetToSeq(S) # <<>>
      BY <3>1, <3>3 DEF ToSet
    <3> QED BY <1>0, <2>5, <3>4 DEF BatchSplit, Phase, CallTypes, S
  <2>6. CASE BatchPush(u)
    <3>1. todo[u] # <<>>
      BY <1>0, <2>6 DEF BatchPush, Phase
    <3>2. Len(todo[u]) = 1 <=> Tail(todo[u]) = <<>>
      BY <1>0, <3>1, TailIs
    <3>3. /\ op' = op /\ nodes' = nodes /\ rv' = rv /\ cq' = cq /\ got' = got /\ pc[u] = "push"
          /\ \/ pc'[u] = "undefined" /\ todo' = todo
             \/ /\ todo'[u] = Tail(todo[u])
                /\ pc'[u] = IF Len(todo[u]) = 1 THEN "wait" ELSE "push"
      BY <1>0, <2>6 DEF BatchPush, CallTypes
    <3> QED BY <1>0, <3>1, <3>2, <3>3 DEF Phase
  <2>7. CASE BatchWait(u)
    BY <1>0, <2>7 DEF BatchWait, Phase, CallTypes
  <2>8. CASE BatchReturn(u)
    <3>1. /\ op' = op /\ todo' = todo /\ rv' = rv /\ cq' = cq /\ got' = got
          /\ pc[u] = "wait" /\ pc'[u] = "done" /\ nodes'[u] = <<>> /\ Len(nodes'[u]) = 0
      BY <1>0, <2>8 DEF BatchReturn, CallTypes
    <3> QED BY <1>0, <3>1 DEF Phase
  <2> QED BY <2>1, <2>2, <2>3, <2>4, <2>5, <2>6, <2>7, <2>8 DEF Batch
<1> QED BY <1>2, <1>3 DEF Phases

\* The actions of a scan keep every user in its place.
LEMMA PhasesScan ==
  ASSUME IInv, NEW u \in User, Scan(u)
  PROVE  Phases'
<1> USE DEF workers, results, workQ, nodeState, net, Goto, Result, Before, Under
<1>a. \A v \in User : Phase(v)
  BY DEF IInv, Phases
<1>0. /\ Phase(u) /\ MaxDigests \in Nat /\ MaxDigests > 0
      /\ CallTypes /\ ResultTypes /\ op[u] \in {"batch", "scan", "all"}
      /\ nodes[u] \in Seq(Node) /\ todo[u] \in Seq(Node)
  BY BatchAssumption DEF IInv, Phases, TypeOK, CallTypes
<1>1. /\ op' = op
      /\ \A v \in User \ {u} : /\ pc'[v] = pc[v] /\ nodes'[v] = nodes[v] /\ todo'[v] = todo[v]
                              /\ rv'[v] = rv[v] /\ cq'[v] = cq[v] /\ got'[v] = got[v]
  BY <1>0 DEF Scan, ScanRandom, ScanByName, ScanReserve, ScanSend, ScanFails, ScanRead,
     Scanned, CallTypes, ResultTypes
<1>2. \A v \in User \ {u} : Phase(v)'
  BY <1>a, <1>1, PhaseSame
<1>4. /\ pc[u] \in {"random", "byname", "reserve", "scan", "scanread"}
      /\ op[u] \in {"scan", "all"} /\ op'[u] = op[u]
  <2>1. pc[u] \in {"random", "byname", "reserve", "scan", "scanread"}
    BY DEF Scan, ScanRandom, ScanByName, ScanReserve, ScanSend, ScanFails, ScanRead
  <2> QED BY <1>0, <1>1, <2>1 DEF Phase
<1>3. Phase(u)'
  <2>0. ASSUME pc[u] \in {"byname", "scan", "scanread"}, NEW r, Scanned(u, r) PROVE Phase(u)'
    <3>1. pc[u] = "byname" => todo[u] # <<>>
      BY <1>0 DEF Phase
    <3>2. /\ todo[u] # <<>> => (Len(todo[u]) > 1 <=> Tail(todo[u]) # <<>>)
          /\ todo[u] = <<>> <=> Len(todo[u]) = 0
      <4>1. todo[u] = <<>> <=> Len(todo[u]) = 0
        <5>1. todo[u] \in Seq(Node)
          BY <1>0
        <5> QED BY <5>1, EmptySeq
      <4>2. ASSUME todo[u] # <<>>
            PROVE  Len(todo[u]) > 1 <=> Tail(todo[u]) # <<>>
        <5>1. Len(todo[u]) \in Nat \ {0} /\ (Tail(todo[u]) = <<>> <=> Len(todo[u]) = 1)
          BY <1>0, <4>2, TailIs
        <5> DEFINE t == Tail(todo[u])
                   l == Len(todo[u])
        <5>2. l \in Nat \ {0} /\ (t = <<>> <=> l = 1)
          BY <5>1
        <5> HIDE DEF t, l
        <5>3. l > 1 <=> t # <<>>
          BY <5>2
        <5> QED BY <5>3 DEF t, l
      <4> QED BY <4>1, <4>2
    <3>3. /\ pc'[u] = (IF Len(todo[u]) > 1 THEN "byname" ELSE "done")
          /\ todo'[u] = (IF todo[u] = <<>> THEN todo[u] ELSE Tail(todo[u]))
          /\ nodes'[u] = <<>> /\ op'[u] = op[u] /\ Len(nodes'[u]) = 0
      BY <1>0, <1>1, <2>0 DEF Scanned, CallTypes
    <3>4. op[u] = "scan" => todo[u] = <<>>
      BY <1>0 DEF Phase
    <3> QED BY <1>0, <1>4, <2>0, <3>1, <3>2, <3>3, <3>4 DEF Phase
  <2>1. CASE ScanRandom(u)
    <3>1. /\ op' = op /\ todo' = todo /\ pc[u] = "random"
          /\ \/ pc'[u] = "scan" /\ Len(nodes'[u]) = 1
             \/ pc'[u] = "done" /\ nodes' = nodes
      BY <1>0, <2>1 DEF ScanRandom, CallTypes
    <3>2. CASE pc'[u] = "scan" /\ Len(nodes'[u]) = 1
      BY <1>0, <1>4, <3>1, <3>2 DEF Phase
    <3>3. CASE pc'[u] = "done" /\ nodes' = nodes
      BY <1>0, <1>4, <3>1, <3>3 DEF Phase
    <3> QED BY <3>1, <3>2, <3>3
  <2>2. CASE ScanByName(u)
    <3>1. CASE Goto(u, "reserve") /\ UNCHANGED <<todo, nodes>>
      <4>1. /\ pc'[u] = "reserve" /\ nodes' = nodes /\ todo' = todo /\ pc[u] = "byname"
        BY <1>0, <2>2, <3>1 DEF ScanByName, CallTypes
      <4> QED BY <1>0, <1>4, <4>1 DEF Phase
    <3> QED BY <2>0, <2>2, <3>1 DEF ScanByName
  <2>3. CASE ScanReserve(u)
    <3>1. /\ op' = op /\ todo' = todo /\ pc[u] = "reserve"
          /\ \/ pc'[u] = "scan" /\ Len(nodes'[u]) = 1
             \/ pc'[u] = "undefined" /\ nodes' = nodes
      BY <1>0, <2>3 DEF ScanReserve, CallTypes
    <3>2. CASE pc'[u] = "scan" /\ Len(nodes'[u]) = 1
      BY <1>0, <1>4, <3>1, <3>2 DEF Phase
    <3>3. CASE pc'[u] = "undefined" /\ nodes' = nodes
      BY <1>0, <1>4, <3>1, <3>3 DEF Phase
    <3> QED BY <3>1, <3>2, <3>3
  <2>4. CASE ScanSend(u)
    <3>1. CASE Goto(u, "scanread") /\ UNCHANGED <<nodes, todo>>
      <4>1. pc'[u] = "scanread" /\ nodes' = nodes /\ todo' = todo /\ pc[u] = "scan"
        BY <1>0, <2>4, <3>1 DEF ScanSend, CallTypes
      <4> QED BY <1>0, <1>4, <4>1 DEF Phase
    <3> QED BY <2>0, <2>4, <3>1 DEF ScanSend
  <2>5. CASE ScanFails(u)
    BY <2>0, <2>5 DEF ScanFails
  <2>6. CASE ScanRead(u)
    <3>1. CASE UNCHANGED <<pc, nodes, todo>>
      BY <1>0, <1>4, <3>1 DEF Phase
    <3> QED BY <2>0, <2>6, <3>1 DEF ScanRead
  <2> QED BY <2>1, <2>2, <2>3, <2>4, <2>5, <2>6 DEF Scan
<1> QED BY <1>2, <1>3 DEF Phases

\* The other actions keep every user in its place.
LEMMA PhasesOthers ==
  ASSUME IInv,
         \/ \E u \in User : Begin(u)
         \/ \E w \in Worker : Work(w)
         \/ \E n \in Node : NodeDropped(n)
         \/ Shutdown \/ ShutdownJoin \/ UNCHANGED vars
  PROVE  Phases'
<1> USE DEF workers, results, workQ, nodeState, net, Goto, Result, Before, Under
<1>0. /\ \A v \in User : Phase(v)
      /\ CallTypes /\ ResultTypes /\ WorkerTypes /\ Creation
  BY DEF IInv, Phases, TypeOK
<1>1. ASSUME NEW u \in User, Begin(u) PROVE Phases'
  <2>1. /\ op' = op /\ nodes' = nodes /\ cq' = cq /\ got' = got
        /\ \A v \in User \ {u} : pc'[v] = pc[v] /\ todo'[v] = todo[v] /\ rv'[v] = rv[v]
    BY <1>0, <1>1 DEF Begin, CallTypes
  <2>2. \A v \in User \ {u} : Phase(v)'
    BY <1>0, <2>1, PhaseSame
  <2>3. op[u] = "all" /\ listed # {} => SetToSeq(listed) # <<>>
    <3>1. IsFiniteSet(listed)
      BY Finites, FS_Subset DEF IInv, TypeOK, NodeTypes
    <3>2. ToSet(SetToSeq(listed)) = listed
      BY <3>1, SeqOfSet
    <3> QED BY <3>2 DEF ToSet
  <2>4. /\ pc[u] = "idle" /\ Phase(u)
        /\ \/ op[u] = "batch" /\ pc'[u] \in {"node", "start"} /\ UNCHANGED <<todo, rv>>
           \/ op[u] = "scan" /\ pc'[u] = "random" /\ UNCHANGED <<todo, rv>>
           \/ op[u] = "all" /\ pc'[u] = "byname" /\ todo'[u] # <<>>
           \/ op[u] = "all" /\ pc'[u] = "done" /\ UNCHANGED todo
    BY <1>0, <1>1, <2>3 DEF Begin, CallTypes
  <2>5. Phase(u)'
    BY <2>1, <2>4 DEF Phase
  <2> QED BY <2>2, <2>5 DEF Phases
<1>2. ASSUME NEW w \in Worker, Work(w) PROVE Phases'
  <2>1. UNCHANGED <<pc, op, nodes, todo, rv>>
    BY <1>2 DEF Work, WorkerPop, WorkerSend, WorkerFails, WorkerRead
  <2>2. \A v \in User : v # job[w].user => cq'[v] = cq[v] /\ got'[v] = got[v]
    BY <1>0, <1>2 DEF Work, WorkerPop, WorkerSend, WorkerFails, WorkerRead, Complete,
       ResultTypes
  <2>3. wpc[w] \notin {"send", "read"} => cq' = cq /\ got' = got
    BY <1>2 DEF Work, WorkerPop, WorkerSend, WorkerFails, WorkerRead
  <2>4. wpc[w] \in {"send", "read"} => pc[job[w].user] \in Under
    BY <1>0, JobIs DEF IInv, Jobs, Awaited
  <2>5. \A v \in User : pc[v] \in Before => cq'[v] = cq[v] /\ got'[v] = got[v]
    BY <2>2, <2>3, <2>4
  <2> QED BY <1>0, <2>1, <2>5, PhaseSame DEF Phases
<1>3. CASE \/ \E n \in Node : NodeDropped(n)
           \/ Shutdown \/ ShutdownJoin \/ UNCHANGED vars
  <2>1. UNCHANGED <<pc, op, nodes, todo, rv, cq, got>>
    BY <1>3 DEF NodeDropped, Shutdown, ShutdownJoin, vars
  <2> QED BY <1>0, <2>1, PhaseSame DEF Phases
<1> QED BY <1>1, <1>2, <1>3

\* Every step keeps every user in its place.
LEMMA PhasesStep ==
  ASSUME IInv, [Next]_vars
  PROVE  Phases'
  BY PhasesBatch, PhasesScan, PhasesOthers DEF Next

\* One user makes the workers and the queue, once.
LEMMA CreationStep ==
  ASSUME IInv, [Next]_vars
  PROVE  Creation'
<1> USE DEF workers, results, workQ, nodeState, net, Goto
<1>0. Creation /\ CallTypes /\ WorkerTypes /\ QueueTypes
  BY DEF IInv, TypeOK
<1>1. ASSUME NEW u \in User, LazyStart(u) PROVE Creation'
  BY <1>0, <1>1 DEF LazyStart, Creation, CallTypes, QueueTypes
<1>2. ASSUME NEW u \in User, LazyCreate(u) PROVE Creation'
  <2>1. /\ started' /\ job' = job /\ \A w \in Worker : wpc[w] = "none" /\ wpc'[w] = "pop"
        /\ \A v \in User : pc'[v] # "create"
    BY <1>0, <1>2 DEF LazyCreate, Creation, CallTypes, QueueTypes
  <2> QED BY <1>0, <2>1 DEF Creation
<1>3. ASSUME NEW w \in Worker, Work(w) PROVE Creation'
  <2>1. UNCHANGED <<pc, started, made, main>> /\ wpc[w] # "none"
    BY <1>3 DEF Work, WorkerPop, WorkerSend, WorkerFails, WorkerRead
  <2>2. started /\ \A u \in User : pc[u] # "create"
    BY <1>0, <2>1 DEF Creation
  <2>3. \A v \in Worker : job'[v] # STOP <=> wpc'[v] \in {"send", "read"}
    BY <1>0, <1>3 DEF Creation, WorkerTypes, Work, WorkerPop, WorkerSend, WorkerFails,
       WorkerRead, Complete, WorkerEnd
  <2> QED BY <1>0, <2>1, <2>2, <2>3 DEF Creation
<1>4. CASE Shutdown \/ ShutdownJoin
  <2>1. UNCHANGED <<pc, started, wpc, job>> /\ started /\ \A u \in User : pc[u] # "create"
    <3>1. CASE Shutdown
      BY <1>0, <3>1 DEF Shutdown, Creation, QueueTypes
    <3>2. CASE ShutdownJoin
      BY <1>0, <3>2 DEF ShutdownJoin, Creation, QueueTypes
    <3> QED BY <1>4, <3>1, <3>2
  <2> QED BY <1>0, <2>1 DEF Creation
<1>5. ASSUME NEW u \in User, BatchPush(u) PROVE Creation'
  <2>1. /\ UNCHANGED <<started, made, main, wpc, job>>
        /\ \A v \in User : pc'[v] = "create" => pc[v] = "create"
        /\ bq' = bq \/ made
    BY <1>0, <1>5 DEF BatchPush, CallTypes
  <2> QED BY <1>0, <2>1 DEF Creation
<1>6. ASSUME UNCHANGED <<started, made, bq, main, wpc, job>>,
             \A v \in User : pc'[v] = "create" => pc[v] = "create"
      PROVE  Creation'
  BY <1>0, <1>6 DEF Creation
<1>7. ASSUME NEW u \in User,
             \/ BatchNode(u) \/ BatchNoNode(u) \/ BatchSplit(u) \/ BatchWait(u)
             \/ BatchReturn(u) \/ Begin(u) \/ Scan(u)
      PROVE  Creation'
  <2>1. UNCHANGED <<started, made, bq, main, wpc, job>>
    BY <1>7 DEF BatchNode, BatchNoNode, BatchSplit, BatchWait, BatchReturn, Begin,
       Scan, ScanRandom, ScanByName, ScanReserve, ScanSend, ScanFails, ScanRead
  <2>2. \A v \in User : pc'[v] = "create" => pc[v] = "create"
    BY <1>0, <1>7 DEF BatchNode, BatchNoNode, BatchSplit, BatchWait, BatchReturn, Begin,
       Scan, ScanRandom, ScanByName, ScanReserve, ScanSend, ScanFails, ScanRead,
       Scanned, CallTypes
  <2> QED BY <2>1, <2>2, <1>6
<1>8. CASE (\E n \in Node : NodeDropped(n)) \/ UNCHANGED vars
  BY <1>6, <1>8 DEF NodeDropped, vars
<1> QED BY <1>1, <1>2, <1>3, <1>4, <1>5, <1>7, <1>8 DEF Next, Batch

-----------------------------------------------------------------------------
(* References, step by step                                                *)

\* A node that a call takes has one more holder.
LEMMA HoldersTaken ==
  ASSUME NEW u \in User, NEW n, NEW k \in Digest, k \notin DOMAIN nodes[u],
         DOMAIN nodes'[u] = DOMAIN nodes[u] \cup {k}, nodes'[u][k] = n,
         \A j \in DOMAIN nodes[u] : nodes'[u][j] = nodes[u][j],
         \A v \in User \ {u} : nodes'[v] = nodes[v]
  PROVE  \A m : Cardinality(Holders(m)') = Cardinality(Holders(m)) + (IF m = n THEN 1 ELSE 0)
<1> TAKE m
<1> DEFINE A == Holders(m)
           B == Holders(m)'
           h == <<u, k>>
<1>1. /\ A = {x \in User \X Digest : x[2] \in DOMAIN nodes[x[1]] /\ nodes[x[1]][x[2]] = m}
      /\ IsFiniteSet(A) /\ Cardinality(A) \in Nat
  BY HoldersAre
<1>2. B = {x \in User \X Digest : x[2] \in DOMAIN nodes'[x[1]] /\ nodes'[x[1]][x[2]] = m}
  BY DEF Holders, Holds
<1>3. h \in User \X Digest /\ h \notin A /\ (h \in B <=> m = n)
  BY <1>1, <1>2
<1>4. \A x \in User \X Digest : x # h => (x \in B <=> x \in A)
  <2> TAKE x \in User \X Digest
  <2>1. x[1] \in User /\ x[2] \in Digest /\ x = <<x[1], x[2]>>
    OBVIOUS
  <2> QED BY <1>1, <1>2, <2>1
<1>5. B = IF m = n THEN A \cup {h} ELSE A
  <2> HIDE DEF h
  <2>1. A \subseteq User \X Digest /\ B \subseteq User \X Digest
    BY <1>1, <1>2
  <2> HIDE DEF A, B
  <2>2. \A x : x \in B <=> x \in A \/ (x = h /\ m = n)
    BY <1>3, <1>4, <2>1
  <2>3. CASE m = n
    <3>1. B = A \cup {h}
      BY <2>2, <2>3
    <3> QED BY <2>3, <3>1
  <2>4. CASE m # n
    <3>1. B = A
      BY <2>2, <2>4
    <3> QED BY <2>4, <3>1
  <2> QED BY <2>3, <2>4
<1> HIDE DEF A, B, h
<1>6. Cardinality(A \cup {h}) = Cardinality(A) + 1
  BY <1>1, <1>3, FS_AddElement
<1>7. Cardinality(B) = Cardinality(A) + (IF m = n THEN 1 ELSE 0)
  BY <1>1, <1>5, <1>6
<1> QED BY <1>7 DEF A, B

\* A call that is over has no node any more.
LEMMA HoldersGone ==
  ASSUME NEW u \in User, nodes'[u] = <<>>, \A v \in User \ {u} : nodes'[v] = nodes[v]
  PROVE  \A m : Cardinality(Holders(m)') = Cardinality(Holders(m)) - Cardinality(Holds(u, m))
<1> TAKE m
<1>1. Holders(m) = {x \in User \X Digest : x[2] \in DOMAIN nodes[x[1]] /\ nodes[x[1]][x[2]] = m}
  BY HoldersAre
<1>2. Holders(m)' = {x \in User \X Digest : x[2] \in DOMAIN nodes'[x[1]] /\ nodes'[x[1]][x[2]] = m}
  BY DEF Holders, Holds
<1>3. Holds(u, m) = {h \in Holders(m) : h[1] = u}
  BY HoldersAre
<1>4. Holders(m)' = Holders(m) \ Holds(u, m)
  <2>1. ASSUME NEW x \in User \X Digest
        PROVE  x \in Holders(m)' <=> x \in Holders(m) /\ x[1] # u
    <3>1. x[1] \in User /\ x[2] \in Digest
      OBVIOUS
    <3>2. CASE x[1] = u
      BY <1>2, <3>1, <3>2
    <3>3. CASE x[1] # u
      BY <1>1, <1>2, <3>1, <3>3
    <3> QED BY <3>2, <3>3
  <2> QED BY <1>1, <1>2, <1>3, <2>1
<1> QED BY <1>4, HoldersAre

\* A scan holds the one node it reads from.
LEMMA ScanHolds ==
  ASSUME NEW u \in User, nodes[u] \in Seq(Node), Len(nodes[u]) = 1, NEW m
  PROVE  Cardinality(Holds(u, m)) = IF m = nodes[u][1] THEN 1 ELSE 0
<1>1. DOMAIN nodes[u] = {1} /\ 1 \in Digest
  BY Finites
<1>2. CASE m = nodes[u][1]
  <2>1. Holds(u, m) = {<<u, 1>>}
    BY <1>1, <1>2 DEF Holds
  <2> QED BY <1>2, <2>1, FS_Singleton
<1>3. CASE m # nodes[u][1]
  <2>1. Holds(u, m) = {}
    BY <1>1, <1>3 DEF Holds
  <2> QED BY <1>3, <2>1, FS_EmptySet
<1> QED BY <1>2, <1>3

\* Who holds a node is counted; the steps that do not say otherwise.
LEMMA RefsSame ==
  ASSUME Refs, UNCHANGED <<refs, leaked, listed, nodes>>
  PROVE  Refs'
<1>1. \A n : Holders(n)' = Holders(n)
  BY DEF Holders, Holds
<1> QED BY <1>1 DEF Refs

\* The references as numbers.
LEMMA RefsNat ==
  ASSUME TypeOK, NEW n \in Node
  PROVE  /\ Cardinality({n} \cap listed) \in Nat /\ leaked[n] \in Nat /\ refs[n] \in Nat
         /\ Cardinality(Holders(n)) \in Nat
<1>1. Cardinality({n} \cap listed) \in Nat
  BY ListedRef
<1>2. Cardinality(Holders(n)) \in Nat
  BY HoldersAre
<1> QED BY <1>1, <1>2 DEF TypeOK, NodeTypes

\* A node that is taken and counted.
LEMMA RefsTaken ==
  ASSUME TypeOK, Refs, NEW u \in User, NEW n \in Node, NEW k \in Digest, k \notin DOMAIN nodes[u],
         DOMAIN nodes'[u] = DOMAIN nodes[u] \cup {k}, nodes'[u][k] = n,
         \A j \in DOMAIN nodes[u] : nodes'[u][j] = nodes[u][j],
         \A v \in User \ {u} : nodes'[v] = nodes[v],
         refs' = [refs EXCEPT ![n] = @ + 1], UNCHANGED <<leaked, listed>>
  PROVE  Refs'
<1> SUFFICES ASSUME NEW m \in Node
             PROVE  refs'[m] = Cardinality({m} \cap listed) + leaked[m] + Cardinality(Holders(m)')
  BY DEF Refs
<1>1. Cardinality(Holders(m)') = Cardinality(Holders(m)) + (IF m = n THEN 1 ELSE 0)
  BY HoldersTaken
<1>2. refs'[m] = refs[m] + (IF m = n THEN 1 ELSE 0)
  BY DEF TypeOK, NodeTypes
<1>3. refs[m] = Cardinality({m} \cap listed) + leaked[m] + Cardinality(Holders(m))
  BY DEF Refs
<1> QED BY <1>1, <1>2, <1>3, RefsNat

\* A call that gives up its nodes, putting or leaking each reference.
LEMMA RefsGone ==
  ASSUME TypeOK, Refs, NEW u \in User, nodes'[u] = <<>>,
         \A v \in User \ {u} : nodes'[v] = nodes[v], UNCHANGED listed,
         \A m \in Node :
           \/ refs'[m] = refs[m] - Cardinality(Holds(u, m)) /\ leaked'[m] = leaked[m]
           \/ refs'[m] = refs[m] /\ leaked'[m] = leaked[m] + Cardinality(Holds(u, m))
  PROVE  Refs'
<1> SUFFICES ASSUME NEW m \in Node
             PROVE  refs'[m] = Cardinality({m} \cap listed) + leaked'[m] + Cardinality(Holders(m)')
  BY DEF Refs
<1>1. Cardinality(Holders(m)') = Cardinality(Holders(m)) - Cardinality(Holds(u, m))
  BY HoldersGone
<1>2. refs[m] = Cardinality({m} \cap listed) + leaked[m] + Cardinality(Holders(m))
  BY DEF Refs
<1>3. Cardinality(Holds(u, m)) \in Nat
  BY HoldersAre
<1>4. \/ refs'[m] = refs[m] - Cardinality(Holds(u, m)) /\ leaked'[m] = leaked[m]
      \/ refs'[m] = refs[m] /\ leaked'[m] = leaked[m] + Cardinality(Holds(u, m))
  OBVIOUS
<1> QED BY <1>1, <1>2, <1>3, <1>4, RefsNat

\* A scan that is over puts its reference or leaks it.
LEMMA RefsScanned ==
  ASSUME TypeOK, Phases, Refs, NEW u \in User, pc[u] \in {"scan", "scanread"},
         nodes' = [nodes EXCEPT ![u] = <<>>], UNCHANGED listed,
         \/ Leak(u) /\ UNCHANGED refs
         \/ refs' = [refs EXCEPT ![nodes[u][1]] = @ - 1] /\ UNCHANGED leaked
  PROVE  Refs'
<1> DEFINE n == nodes[u][1]
<1>1. nodes[u] \in Seq(Node) /\ Len(nodes[u]) = 1 /\ n \in Node
  <2>1. nodes[u] \in Seq(Node) /\ Len(nodes[u]) = 1
    BY DEF TypeOK, CallTypes, Phases, Phase
  <2> QED BY <2>1
<1>2. nodes'[u] = <<>> /\ \A v \in User \ {u} : nodes'[v] = nodes[v]
  BY DEF TypeOK, CallTypes
<1>3. ASSUME NEW m \in Node
      PROVE  \/ refs'[m] = refs[m] - Cardinality(Holds(u, m)) /\ leaked'[m] = leaked[m]
             \/ refs'[m] = refs[m] /\ leaked'[m] = leaked[m] + Cardinality(Holds(u, m))
  <2>1. Cardinality(Holds(u, m)) = IF m = n THEN 1 ELSE 0
    BY <1>1, ScanHolds
  <2>2. refs[m] \in Nat /\ leaked[m] \in Nat
    BY RefsNat
  <2>3. CASE Leak(u) /\ UNCHANGED refs
    BY <1>1, <2>1, <2>2, <2>3 DEF Leak, TypeOK, NodeTypes
  <2>4. CASE refs' = [refs EXCEPT ![n] = @ - 1] /\ UNCHANGED leaked
    BY <1>1, <2>1, <2>2, <2>4 DEF TypeOK, NodeTypes
  <2> QED BY <2>3, <2>4
<1> QED BY <1>2, <1>3, RefsGone

\* The holders of a node are counted in every step.
LEMMA RefsStep ==
  ASSUME IInv, [Next]_vars
  PROVE  Refs'
<1> USE DEF workers, results, workQ, nodeState, net
<1>0. TypeOK /\ Phases /\ Refs /\ CallTypes /\ NodeTypes
  BY DEF IInv, TypeOK
<1>1. ASSUME NEW u \in User, BatchNode(u) PROVE Refs'
  <2> DEFINE k == Len(nodes[u]) + 1
  <2>1. nodes[u] \in Seq(Node) /\ Len(nodes[u]) \in Nat /\ Len(nodes[u]) < MaxDigests
        /\ UNCHANGED <<leaked, listed>>
    BY <1>0, <1>1 DEF CallTypes, BatchNode
  <2>2. PICK n \in Node : nodes' = [nodes EXCEPT ![u] = Append(@, n)]
                          /\ refs' = [refs EXCEPT ![n] = @ + 1]
    BY <1>0, <1>1 DEF BatchNode, NodesFor, NodeTypes
  <2>3. nodes'[u] = Append(nodes[u], n) /\ \A v \in User \ {u} : nodes'[v] = nodes[v]
    BY <1>0, <2>2 DEF CallTypes
  <2>4. k \in Digest /\ k \notin DOMAIN nodes[u]
    BY <2>1, Finites DEF Digest
  <2>5. /\ DOMAIN nodes'[u] = DOMAIN nodes[u] \cup {k} /\ nodes'[u][k] = n
        /\ \A j \in DOMAIN nodes[u] : nodes'[u][j] = nodes[u][j]
    BY <2>1, <2>3
  <2> HIDE DEF k
  <2> QED BY <1>0, <2>1, <2>2, <2>3, <2>4, <2>5, RefsTaken
<1>2. ASSUME NEW u \in User, BatchNoNode(u) PROVE Refs'
  <2>1. /\ nodes'[u] = <<>> /\ (\A v \in User \ {u} : nodes'[v] = nodes[v]) /\ UNCHANGED listed
        /\ \A m \in Node : refs'[m] = refs[m] /\ leaked'[m] = leaked[m] + Cardinality(Holds(u, m))
    BY <1>0, <1>2 DEF BatchNoNode, CallTypes, NodeTypes
  <2> QED BY <1>0, <2>1, RefsGone
<1>3. ASSUME NEW u \in User, BatchReturn(u) PROVE Refs'
  <2>1. /\ nodes'[u] = <<>> /\ (\A v \in User \ {u} : nodes'[v] = nodes[v]) /\ UNCHANGED listed
        /\ \A m \in Node : refs'[m] = refs[m] - Cardinality(Holds(u, m)) /\ leaked'[m] = leaked[m]
    BY <1>0, <1>3 DEF BatchReturn, CallTypes, NodeTypes
  <2> QED BY <1>0, <2>1, RefsGone
<1>4. ASSUME NEW u \in User, NEW n \in Node, nodes[u] = <<>>, nodes' = [nodes EXCEPT ![u] = <<n>>],
             refs' = [refs EXCEPT ![n] = @ + 1], UNCHANGED <<leaked, listed>>
      PROVE  Refs'
  <2>1. /\ nodes'[u] = <<n>> /\ DOMAIN nodes'[u] = DOMAIN nodes[u] \cup {1} /\ nodes'[u][1] = n
        /\ 1 \notin DOMAIN nodes[u] /\ (\A j \in DOMAIN nodes[u] : nodes'[u][j] = nodes[u][j])
        /\ \A v \in User \ {u} : nodes'[v] = nodes[v]
    BY <1>0, <1>4 DEF CallTypes
  <2> QED BY <1>0, <1>4, <2>1, Finites, RefsTaken
<1>5. ASSUME NEW u \in User, ScanRandom(u) PROVE Refs'
  <2>1. nodes[u] = <<>>
    BY <1>0, <1>5 DEF Phases, Phase, Under, ScanRandom
  <2>2. CASE UNCHANGED <<nodes, refs>>
    BY <1>0, <1>5, <2>2, RefsSame DEF ScanRandom
  <2>3. ASSUME NEW n \in listed, nodes' = [nodes EXCEPT ![u] = <<n>>],
               refs' = [refs EXCEPT ![n] = @ + 1]
        PROVE  Refs'
    <3>1. n \in Node /\ UNCHANGED <<leaked, listed>>
      BY <1>0, <1>5 DEF ScanRandom, NodeTypes
    <3> QED BY <1>4, <2>1, <2>3, <3>1
  <2> QED BY <1>5, <2>2, <2>3 DEF ScanRandom
<1>6. ASSUME NEW u \in User, ScanReserve(u) PROVE Refs'
  <2>1. nodes[u] = <<>> /\ Head(todo[u]) \in Node
    <3>1. nodes[u] = <<>> /\ todo[u] \in Seq(Node) /\ todo[u] # <<>>
      BY <1>0, <1>6 DEF Phases, Phase, Under, ScanReserve, CallTypes
    <3> QED BY <3>1
  <2>2. CASE UNCHANGED <<nodes, refs>>
    BY <1>0, <1>6, <2>2, RefsSame DEF ScanReserve
  <2> QED BY <1>4, <1>6, <2>1, <2>2 DEF ScanReserve
<1>7. ASSUME NEW u \in User, ScanByName(u) PROVE Refs'
  <2>1. nodes[u] = <<>>
    BY <1>0, <1>7 DEF Phases, Phase, Under, ScanByName
  <2>2. UNCHANGED <<nodes, refs, leaked, listed>>
    BY <1>0, <1>7, <2>1 DEF ScanByName, Scanned, CallTypes
  <2> QED BY <1>0, <2>2, RefsSame
<1>8. ASSUME NEW u \in User, ScanSend(u) PROVE Refs'
  <2>1. UNCHANGED <<listed, refs>> /\ pc[u] = "scan"
        /\ \/ UNCHANGED <<nodes, leaked>>
           \/ nodes' = [nodes EXCEPT ![u] = <<>>] /\ Leak(u)
    BY <1>8 DEF ScanSend, Scanned
  <2> QED BY <1>0, <2>1, RefsSame, RefsScanned
<1>9. ASSUME NEW u \in User, ScanFails(u) PROVE Refs'
  <2>1. /\ UNCHANGED <<listed, refs>> /\ pc[u] = "scanread"
        /\ nodes' = [nodes EXCEPT ![u] = <<>>] /\ Leak(u)
    BY <1>9 DEF ScanFails, Scanned
  <2> QED BY <1>0, <2>1, RefsScanned
<1>10. ASSUME NEW u \in User, ScanRead(u) PROVE Refs'
  <2>1. UNCHANGED <<listed, leaked>> /\ pc[u] = "scanread"
        /\ \/ UNCHANGED <<nodes, refs>>
           \/ nodes' = [nodes EXCEPT ![u] = <<>>] /\ refs' = [refs EXCEPT ![nodes[u][1]] = @ - 1]
    BY <1>10 DEF ScanRead, Scanned
  <2> QED BY <1>0, <2>1, RefsSame, RefsScanned
<1>11. ASSUME NEW n \in Node, NodeDropped(n) PROVE Refs'
  <2> SUFFICES ASSUME NEW m \in Node
               PROVE  refs'[m] = Cardinality({m} \cap listed') + leaked'[m] + Cardinality(Holders(m)')
    BY DEF Refs
  <2>1. Holders(m)' = Holders(m)
    BY <1>11 DEF NodeDropped, Holders, Holds
  <2>2. /\ Cardinality({m} \cap listed) = IF m \in listed THEN 1 ELSE 0
        /\ Cardinality({m} \cap listed') = IF m \in listed' THEN 1 ELSE 0
    BY ListedRef
  <2>3. refs[m] = Cardinality({m} \cap listed) + leaked[m] + Cardinality(Holders(m))
    BY <1>0 DEF Refs
  <2>4. /\ refs'[m] = refs[m] - (IF m = n THEN 1 ELSE 0) /\ leaked' = leaked
        /\ n \in listed /\ listed' = listed \ {n}
    BY <1>0, <1>11 DEF NodeDropped, NodeTypes
  <2> QED BY <1>0, <2>1, <2>2, <2>3, <2>4, RefsNat
<1>12. ASSUME NEW u \in User,
              \/ LazyStart(u) \/ LazyCreate(u) \/ BatchSplit(u) \/ BatchPush(u)
              \/ BatchWait(u) \/ Begin(u)
       PROVE  Refs'
  BY <1>0, <1>12, RefsSame DEF LazyStart, LazyCreate, BatchSplit, BatchPush, BatchWait,
     Begin
<1>13. ASSUME NEW w \in Worker, Work(w) PROVE Refs'
  BY <1>0, <1>13, RefsSame DEF Work, WorkerPop, WorkerSend, WorkerFails, WorkerRead
<1>14. CASE Shutdown \/ ShutdownJoin \/ UNCHANGED vars
  BY <1>0, <1>14, RefsSame DEF Shutdown, ShutdownJoin, vars
<1> QED BY <1>1, <1>2, <1>3, <1>5, <1>6, <1>7, <1>8, <1>9, <1>10, <1>11, <1>12, <1>13, <1>14
     DEF Next, Batch, Scan

-----------------------------------------------------------------------------
(* Reading a reply                                                         *)

\* What one proto of a batch's reply brings: a record that was asked for, exists
\* and was still to come; the rest is such a reply again; a good end means that
\* all came.
LEMMA ReplyRead ==
  ASSUME NEW S \in SUBSET Digest, NEW c \in Seq(Seq(Msgs)), c # <<>>, Reply(c, S)
  PROVE  LET p == Head(c)
             t == Tail(c)
         IN /\ \A d \in Digest :
                 /\ Records(p, d) \in {0, 1}
                 /\ Records(p, d) = 1 => d \in S /\ d \in Found /\ Coming(c, d)
                 /\ ~BatchDone(p) /\ Coming(t, d) => Coming(c, d) /\ Records(p, d) = 0
                 /\ BatchDone(p) /\ BatchRv(p) = "OK" /\ d \in S /\ d \in Found
                      => Records(p, d) = 1
            /\ ~BatchDone(p) => Reply(t, S)
            /\ BatchDone(p) /\ BatchRv(p) = "OK" => t = <<>>
<1> DEFINE p == Head(c)
           t == Tail(c)
           n == Len(c)
<1>1. /\ t \in Seq(Seq(Msgs)) /\ p \in Seq(Msgs) /\ p = c[1] /\ n \in Nat \ {0}
      /\ DOMAIN c = 1 .. n /\ DOMAIN t = 1 .. n - 1 /\ Len(t) = n - 1
      /\ \A k \in 1 .. n - 1 : t[k] = c[k + 1]
      /\ Len(c) = n /\ (t = <<>> <=> n = 1)
  BY TailIs
<1>2. \A d \in Digest : Records(p, d) \in Nat /\ (Records(p, d) > 0 => Coming(c, d))
  <2> TAKE d \in Digest
  <2> DEFINE A == {k \in DOMAIN p : p[k] = Msg("rec", d)}
  <2>1. IsFiniteSet(DOMAIN p)
    <3>1. DOMAIN p = 1 .. Len(p) /\ Len(p) \in Nat
      BY <1>1
    <3> QED BY <3>1, FS_Interval
  <2>2. Cardinality(A) \in Nat /\ (Cardinality(A) = 0 <=> A = {})
    BY <2>1, CountNat
  <2>3. A # {} => Msg("rec", d) \in ToSet(c[1])
    BY <1>1 DEF ToSet
  <2>4. 1 \in DOMAIN c
    BY <1>1
  <2> QED BY <2>2, <2>3, <2>4 DEF Records, Coming
<1>3. ASSUME Whole(c, S)
      PROVE  /\ BatchDone(p) /\ t = <<>>
             /\ \A d \in Digest : Records(p, d) = IF d \in S \cap Found THEN 1 ELSE 0
  BY <1>1, <1>3 DEF Whole
<1>4. ASSUME Parts(c, S), n = 2
      PROVE  /\ BatchDone(p) /\ BatchRv(p) = "ERR"
             /\ \A d \in Digest : Records(p, d) = 0
  <2>1. p = <<Msg("error", 0)>>
    BY <1>1, <1>4 DEF Parts
  <2>2. DOMAIN p = {1} /\ p[1] = Msg("error", 0) /\ p[1].is = "error"
    BY <2>1, MsgIs
  <2>3. BatchDone(p) /\ BatchRv(p) = "ERR"
    BY <2>2 DEF BatchDone, BatchRv
  <2>4. ASSUME NEW d \in Digest PROVE Records(p, d) = 0
    <3>1. {k \in DOMAIN p : p[k] = Msg("rec", d)} = {}
      BY <2>2, MsgIs
    <3> QED BY <3>1, FS_EmptySet DEF Records
  <2> QED BY <2>3, <2>4
<1>5. ASSUME Parts(c, S), n > 2
      PROVE  /\ ~BatchDone(p) /\ Parts(t, S)
             /\ \A d \in Digest : Records(p, d) = 1 => d \in S /\ d \in Found
             /\ \A d \in Digest : Records(p, d) \in {0, 1}
             /\ \A d \in Digest : Coming(t, d) => Coming(c, d) /\ Records(p, d) = 0
  <2>0. /\ c[n - 1] = <<Msg("error", 0)>> /\ c[n] = <<Msg("last", 0)>>
        /\ \A k \in 1 .. n - 2 : /\ \E d \in S : c[k] = <<Rec(d)>>
                                 /\ \A j \in 1 .. n - 2 : c[j] = c[k] => j = k
    BY <1>5 DEF Parts
  <2> HIDE DEF p, t, n
  <2>a. \A k \in 1 .. n - 2 : \E d \in S : c[k] = <<Rec(d)>>
    BY <2>0
  <2>b. 1 \in 1 .. n - 2
    BY <1>1, <1>5
  <2>1. PICK e \in S : p = <<Rec(e)>>
    BY <1>1, <2>a, <2>b
  <2>2. DOMAIN p = {1} /\ p[1] = Rec(e) /\ p[1].is \in {"rec", "notfound"}
    BY <2>1, MsgIs DEF Rec
  <2>3. ~BatchDone(p)
    BY <2>2 DEF BatchDone
  <2>4. ASSUME NEW d \in Digest
        PROVE  Records(p, d) = IF d = e /\ d \in Found THEN 1 ELSE 0
    <3>1. CASE d = e /\ d \in Found
      <4>1. {k \in DOMAIN p : p[k] = Msg("rec", d)} = {1}
        BY <2>2, <3>1, MsgIs DEF Rec
      <4> QED BY <3>1, <4>1, FS_Singleton DEF Records
    <3>2. CASE ~(d = e /\ d \in Found)
      <4>1. Rec(e) # Msg("rec", d)
        BY <3>2, MsgIs DEF Rec
      <4>2. {k \in DOMAIN p : p[k] = Msg("rec", d)} = {}
        BY <2>2, <4>1
      <4> QED BY <3>2, <4>2, FS_EmptySet DEF Records
    <3> QED BY <3>1, <3>2
  <2>5. Parts(t, S)
    <3>1. Len(t) >= 2 /\ t[Len(t) - 1] = <<Msg("error", 0)>> /\ t[Len(t)] = <<Msg("last", 0)>>
      BY <1>1, <1>5, <2>0
    <3>2. \A k \in 1 .. Len(t) - 2 : k + 1 \in 1 .. n - 2 /\ t[k] = c[k + 1]
      BY <1>1, <1>5
    <3>3. ASSUME NEW k \in 1 .. Len(t) - 2
          PROVE  /\ \E d \in S : t[k] = <<Rec(d)>>
                 /\ \A j \in 1 .. Len(t) - 2 : t[j] = t[k] => j = k
      <4>1. \E d \in S : t[k] = <<Rec(d)>>
        <5>1. k + 1 \in 1 .. n - 2 /\ t[k] = c[k + 1]
          BY <3>2
        <5>2. \E d \in S : c[k + 1] = <<Rec(d)>>
          BY <2>a, <5>1
        <5> QED BY <5>1, <5>2
      <4>2. ASSUME NEW j \in 1 .. Len(t) - 2, t[j] = t[k] PROVE j = k
        <5>1. j + 1 = k + 1
          BY <2>0, <3>2, <4>2
        <5> QED BY <1>1, <5>1
      <4> QED BY <4>1, <4>2
    <3> QED BY <3>1, <3>3 DEF Parts
  <2>6. ASSUME NEW d \in Digest, Coming(t, d) PROVE Coming(c, d) /\ Records(p, d) = 0
    <3>1. PICK k \in 1 .. n - 1 : Msg("rec", d) \in ToSet(t[k])
      BY <1>1, <2>6 DEF Coming
    <3>2. k + 1 \in 1 .. n /\ Msg("rec", d) \in ToSet(c[k + 1])
      BY <1>1, <3>1
    <3>3. Coming(c, d)
      BY <1>1, <3>2 DEF Coming
    <3>4. k + 1 \in 2 .. n - 2
      <4>1. \A m \in {"error", "last"} : Msg("rec", d) \notin ToSet(<<Msg(m, 0)>>)
        BY MsgIs DEF ToSet
      <4>2. k + 1 # n - 1 /\ k + 1 # n
        BY <2>0, <3>2, <4>1
      <4>3. k \in 1 .. n - 1 /\ n \in Nat
        BY <1>1, <3>1
      <4> QED BY <4>2, <4>3
    <3>0. k + 1 \in 1 .. n - 2
      BY <1>1, <3>4
    <3>5. PICK g \in S : c[k + 1] = <<Rec(g)>>
      BY <2>a, <3>0
    <3>6. Rec(g) = Msg("rec", d)
      BY <3>2, <3>5 DEF ToSet
    <3>7. d # e
      <4>1. ASSUME d = e PROVE FALSE
        <5>1. g = d
          BY <3>6, MsgIs DEF Rec
        <5>2. c[k + 1] = c[1]
          BY <1>1, <2>1, <3>5, <4>1, <5>1
        <5>3. 1 \in 1 .. n - 2
          BY <1>1, <1>5
        <5> QED BY <1>1, <2>0, <3>4, <5>2, <5>3
      <4> QED BY <4>1
    <3> QED BY <2>4, <3>3, <3>7
  <2> QED BY <2>3, <2>4, <2>5, <2>6
<1>6. Whole(c, S) \/ (Parts(c, S) /\ n = 2) \/ (Parts(c, S) /\ n > 2)
  <2>1. Whole(c, S) \/ (Parts(c, S) /\ n >= 2)
    BY <1>1 DEF Reply, Parts
  <2> HIDE DEF n
  <2> QED BY <1>1, <2>1
<1> HIDE DEF p, t, n
<1>7. CASE Whole(c, S)
  <2>1. \A d \in Digest : Records(p, d) = IF d \in S \cap Found THEN 1 ELSE 0
    BY <1>3, <1>7
  <2>2. \A d \in Digest : Records(p, d) = 1 => d \in S /\ d \in Found /\ Coming(c, d)
    BY <1>2, <2>1
  <2> QED BY <1>3, <1>7, <2>1, <2>2 DEF p, t
<1>8. CASE Parts(c, S) /\ n = 2
  BY <1>4, <1>8 DEF p, t
<1>9. CASE Parts(c, S) /\ n > 2
  <2>1. \A d \in Digest : Records(p, d) = 1 => d \in S /\ d \in Found /\ Coming(c, d)
    BY <1>2, <1>5, <1>9
  <2> QED BY <1>5, <1>9, <2>1 DEF p, t, Reply
<1> QED BY <1>6, <1>7, <1>8, <1>9

-----------------------------------------------------------------------------
(* Connections                                                             *)

Net == Fds /\ Pools /\ PoolClean

\* What is read now and was read before, by a worker or by a scan.
KeepsW(w) == wpc[w] = "read" /\ wfd'[w] = wfd[w]
KeepsU(u) == pc[u] = "scanread" /\ fd'[u] = fd[u]

\* What PoolClean says of a descriptor.
LEMMA CleanIs == PoolClean <=> \A f : Pooled(f) => conn[f] = <<>> \/ f \in tainted
  BY DEF PoolClean, Pooled

\* A connection taken from a pool is in no pool any more.
LEMMA PoolTake ==
  ASSUME NetTypes, Pools, Fds, NEW n \in Node, NEW f \in FdOf(n), Take(n)
  PROVE  /\ f \in Fd /\ (Pooled(f) \/ f \notin open)
         /\ Pools' /\ \A g : Pooled(g)' => Pooled(g) /\ g # f
<1>1. /\ pool \in [Node -> Seq(Fd)] /\ open \subseteq Fd
      /\ \A m \in Node \ {n} : pool'[m] = pool[m]
  BY DEF NetTypes, Take
<1>2. CASE pool[n] = <<>>
  <2>1. f \in Fd /\ f \notin open
    BY <1>2 DEF FdOf
  <2>2. \A m \in Node : pool'[m] = pool[m]
    BY <1>1, <1>2 DEF Take
  <2>3. Pools' /\ \A g : Pooled(g)' <=> Pooled(g)
    BY <2>2 DEF Pools, Pooled
  <2>4. ~Pooled(f)
    BY <2>1 DEF Fds
  <2> QED BY <2>1, <2>3, <2>4
<1>3. CASE pool[n] # <<>>
  <2> DEFINE s == pool[n]
             t == pool'[n]
             l == Len(s)
  <2>1. /\ t = Tail(s) /\ s \in Seq(Fd) /\ s # <<>> /\ f = Head(s)
    BY <1>1, <1>3 DEF Take, FdOf
  <2>2. /\ l \in Nat \ {0} /\ DOMAIN s = 1 .. l /\ DOMAIN t = 1 .. l - 1 /\ f = s[1]
        /\ \A k \in 1 .. l - 1 : t[k] = s[k + 1]
        /\ f \in Fd
    BY <2>1, TailIs
  <2>3. ASSUME NEW m \in Node
        PROVE  \A k \in DOMAIN pool'[m] :
                  LET i == IF m = n THEN k + 1 ELSE k
                  IN  i \in DOMAIN pool[m] /\ pool'[m][k] = pool[m][i] /\ (m = n => i # 1)
    <3>1. CASE m = n
      <4> HIDE DEF l
      <4> QED BY <2>2, <3>1
    <3>2. CASE m # n
      BY <1>1, <3>2
    <3> QED BY <3>1, <3>2
  <2>4. Pools'
    <3> SUFFICES ASSUME NEW m \in Node, NEW m2 \in Node, NEW j \in DOMAIN pool'[m],
                        NEW k \in DOMAIN pool'[m2], pool'[m][j] = pool'[m2][k]
                 PROVE  m = m2 /\ j = k
      BY DEF Pools
    <3> DEFINE i == IF m = n THEN j + 1 ELSE j
               i2 == IF m2 = n THEN k + 1 ELSE k
    <3>1. i \in DOMAIN pool[m] /\ i2 \in DOMAIN pool[m2] /\ pool[m][i] = pool[m2][i2]
      BY <2>3
    <3>2. m = m2 /\ i = i2
      BY <3>1 DEF Pools
    <3>3. j \in Nat /\ k \in Nat
      <4>1. DOMAIN pool'[m] \subseteq Nat /\ DOMAIN pool'[m2] \subseteq Nat
        <5>1. \A x \in Node : DOMAIN pool'[x] \subseteq Nat
          <6> TAKE x \in Node
          <6>1. CASE x = n
            BY <2>2, <6>1
          <6>2. CASE x # n
            <7>1. pool'[x] \in Seq(Fd)
              BY <1>1, <6>2
            <7> QED BY <7>1
          <6> QED BY <6>1, <6>2
        <5> QED BY <5>1
      <4> QED BY <4>1
    <3> QED BY <3>2, <3>3
  <2>5. ASSUME NEW g, Pooled(g)' PROVE Pooled(g) /\ g # f
    <3>0. PICK m \in Node : g \in ToSet(pool'[m])
      BY <2>5 DEF Pooled
    <3>1. PICK k \in DOMAIN pool'[m] : pool'[m][k] = g
      BY <3>0 DEF ToSet
    <3> DEFINE i == IF m = n THEN k + 1 ELSE k
    <3>2. i \in DOMAIN pool[m] /\ pool[m][i] = g /\ (m = n => i # 1)
      BY <2>3, <3>1
    <3> HIDE DEF i
    <3>3. Pooled(g)
      BY <3>2 DEF Pooled, ToSet
    <3>4. 1 \in DOMAIN pool[n] /\ pool[n][1] = f
      BY <2>2
    <3>5. g # f
      BY <3>2, <3>4 DEF Pools
    <3> QED BY <3>3, <3>5
  <2>6. Pooled(f)
    <3>1. 1 \in DOMAIN pool[n] /\ pool[n][1] = f
      BY <2>2
    <3> QED BY <3>1 DEF Pooled, ToSet
  <2> QED BY <2>2, <2>4, <2>5, <2>6
<1> QED BY <1>2, <1>3

\* A connection put into a pool is in that place only.
LEMMA PoolPut ==
  ASSUME NetTypes, Pools, NEW n \in Node, NEW f \in Fd, ~Pooled(f), Pool(n, f)
  PROVE  Pools' /\ \A g : Pooled(g)' <=> Pooled(g) \/ g = f
<1> DEFINE s == pool[n]
           t == pool'[n]
           l == Len(s)
<1>1. /\ s \in Seq(Fd) /\ t = Append(s, f)
      /\ \A m \in Node \ {n} : pool'[m] = pool[m]
  BY DEF NetTypes, Pool
<1>2. /\ l \in Nat /\ DOMAIN s = 1 .. l /\ DOMAIN t = 1 .. l + 1 /\ t[l + 1] = f
      /\ \A k \in 1 .. l : t[k] = s[k]
  BY <1>1
<1>3. \A m \in Node : \A k \in DOMAIN pool[m] : pool[m][k] # f
  BY DEF Pooled, ToSet
<1> HIDE DEF l
<1>4. ASSUME NEW m \in Node, NEW k \in DOMAIN pool'[m]
      PROVE  \/ m = n /\ k = l + 1 /\ pool'[m][k] = f
             \/ k \in DOMAIN pool[m] /\ pool'[m][k] = pool[m][k] /\ pool'[m][k] # f
  <2>1. CASE m = n
    <3>1. k \in 1 .. l + 1
      BY <1>2, <2>1
    <3>2. CASE k = l + 1
      BY <1>2, <2>1, <3>2
    <3>3. CASE k # l + 1
      <4>1. k \in 1 .. l
        BY <1>2, <3>1, <3>3
      <4>2. k \in DOMAIN pool[m] /\ pool'[m][k] = pool[m][k]
        BY <1>2, <2>1, <4>1
      <4>3. pool[m][k] # f
        BY <1>3, <4>2
      <4> QED BY <4>2, <4>3
    <3> QED BY <3>2, <3>3
  <2>2. CASE m # n
    <3>1. pool'[m] = pool[m]
      BY <1>1, <2>2
    <3>2. k \in DOMAIN pool[m]
      BY <3>1
    <3>3. pool[m][k] # f
      BY <1>3, <3>2
    <3> QED BY <3>1, <3>2, <3>3
  <2> QED BY <2>1, <2>2
<1>5. Pools'
  BY <1>4 DEF Pools
<1>6. ASSUME NEW g PROVE Pooled(g)' <=> Pooled(g) \/ g = f
  <2>1. Pooled(g)' => Pooled(g) \/ g = f
    BY <1>4 DEF Pooled, ToSet
  <2>2. Pooled(f)'
    <3>1. l + 1 \in DOMAIN pool'[n] /\ pool'[n][l + 1] = f
      BY <1>2
    <3> QED BY <3>1 DEF Pooled, ToSet
  <2>3. ASSUME Pooled(g) PROVE Pooled(g)'
    <3>0. PICK m \in Node : g \in ToSet(pool[m])
      BY <2>3 DEF Pooled
    <3>1. PICK k \in DOMAIN pool[m] : pool[m][k] = g
      BY <3>0 DEF ToSet
    <3>2. k \in DOMAIN pool'[m] /\ pool'[m][k] = g
      <4>1. CASE m = n
        BY <1>2, <3>1, <4>1
      <4>2. CASE m # n
        BY <1>1, <3>1, <4>2
      <4> QED BY <4>1, <4>2
    <3> QED BY <3>2 DEF Pooled, ToSet
  <2> QED BY <2>1, <2>2, <2>3
<1> QED BY <1>5, <1>6

\* A step that leaves the pools alone, reads at most what is not pooled, and has
\* no new reader.
LEMMA NetReads ==
  ASSUME Net, UNCHANGED <<pool, open, tainted>>,
         \A g \in Fd : (Pooled(g) => conn'[g] = conn[g]) /\ (conn'[g] # <<>> => conn[g] # <<>>),
         \A g : Pooled(g) => g \in Fd,
         \A w \in Worker : wpc'[w] = "read" => KeepsW(w),
         \A u \in User : pc'[u] = "scanread" => KeepsU(u)
  PROVE  Net'
<1>1. Pools' /\ \A g : Pooled(g)' <=> Pooled(g)
  BY DEF Net, Pools, Pooled
<1>2. Fds'
  BY <1>1 DEF Net, Fds, KeepsW, KeepsU
<1>3. PoolClean'
  <2>1. \A f : Pooled(f) => conn[f] = <<>> \/ f \in tainted
    BY CleanIs DEF Net
  <2>2. \A f : Pooled(f)' => conn'[f] = <<>> \/ f \in tainted'
    BY <1>1, <2>1
  <2> QED BY <2>2 DEF PoolClean, Pooled
<1> QED BY <1>1, <1>2, <1>3 DEF Net

\* A connection is taken, and read by one new reader or closed.
LEMMA NetTaken ==
  ASSUME NetTypes, Net, NEW n \in Node, NEW f \in FdOf(n), Take(n),
         \A g \in Fd \ {f} : /\ conn'[g] = conn[g] /\ (g \in open' <=> g \in open)
                            /\ (g \in tainted' <=> g \in tainted),
         f \in open' \/ conn'[f] = <<>>,
         NEW w0, NEW u0,
         \A w \in Worker : wpc'[w] = "read" => KeepsW(w) \/ (w = w0 /\ wfd'[w] = f /\ f \in open'),
         \A u \in User : pc'[u] = "scanread" => KeepsU(u) \/ (u = u0 /\ fd'[u] = f /\ f \in open'),
         \/ \A w \in Worker : wpc'[w] = "read" => KeepsW(w)
         \/ \A u \in User : pc'[u] = "scanread" => KeepsU(u)
  PROVE  Net'
<1>1. /\ f \in Fd /\ (Pooled(f) \/ f \notin open)
      /\ Pools' /\ \A g : Pooled(g)' => Pooled(g) /\ g # f
  BY PoolTake DEF Net
<1>2. /\ \A w \in Worker : wpc[w] = "read" => wfd[w] # f /\ wfd[w] \in Fd
      /\ \A u \in User : pc[u] = "scanread" => fd[u] # f /\ fd[u] \in Fd
  BY <1>1 DEF Net, Fds, NetTypes
<1>3. Fds'
  BY <1>1, <1>2 DEF Net, Fds, KeepsW, KeepsU
<1>4. PoolClean'
  <2>1. \A g : Pooled(g) => g \in Fd /\ (conn[g] = <<>> \/ g \in tainted)
    BY CleanIs DEF Net, NetTypes, Pooled, ToSet
  <2>2. \A g : Pooled(g)' => conn'[g] = <<>> \/ g \in tainted'
    BY <1>1, <2>1
  <2> QED BY <2>2 DEF PoolClean, Pooled
<1> QED BY <1>1, <1>3, <1>4 DEF Net

\* A reader closes its connection, or puts it into the pool of a node read dry or
\* marked.
LEMMA NetLeft ==
  ASSUME NetTypes, Net, NEW f \in open, ~Pooled(f),
         \A g \in Fd \ {f} : /\ conn'[g] = conn[g] /\ (g \in open' <=> g \in open)
                            /\ (g \in tainted' <=> g \in tainted),
         \/ UNCHANGED pool /\ conn'[f] = <<>>
         \/ /\ \E n \in Node : Pool(n, f)
            /\ f \in open' /\ (conn'[f] = <<>> \/ f \in tainted'),
         \A w \in Worker : wpc'[w] = "read" => KeepsW(w) /\ wfd[w] # f,
         \A u \in User : pc'[u] = "scanread" => KeepsU(u) /\ fd[u] # f
  PROVE  Net'
<1>0. /\ f \in Fd
      /\ \A w \in Worker : wpc[w] = "read" => wfd[w] \in Fd
      /\ \A u \in User : pc[u] = "scanread" => fd[u] \in Fd
      /\ \A g : Pooled(g) => g \in Fd /\ (conn[g] = <<>> \/ g \in tainted)
  BY CleanIs DEF Net, Fds, NetTypes, Pooled, ToSet
<1>1. CASE UNCHANGED pool /\ conn'[f] = <<>>
  <2>1. Pools' /\ \A g : Pooled(g)' <=> Pooled(g)
    BY <1>1 DEF Net, Pools, Pooled
  <2>2. Fds'
    BY <1>0, <1>1, <2>1 DEF Net, Fds, KeepsW, KeepsU
  <2>3. \A g : Pooled(g)' => conn'[g] = <<>> \/ g \in tainted'
    BY <1>0, <2>1
  <2>4. PoolClean'
    BY <2>3 DEF PoolClean, Pooled
  <2> QED BY <2>1, <2>2, <2>4 DEF Net
<1>2. ASSUME NEW n \in Node, Pool(n, f), f \in open', conn'[f] = <<>> \/ f \in tainted'
      PROVE  Net'
  <2>1. Pools' /\ \A g : Pooled(g)' <=> Pooled(g) \/ g = f
    BY <1>0, <1>2, PoolPut DEF Net
  <2>2. Fds'
    BY <1>0, <1>2, <2>1 DEF Net, Fds, KeepsW, KeepsU
  <2>3. \A g : Pooled(g)' => conn'[g] = <<>> \/ g \in tainted'
    BY <1>0, <1>2, <2>1
  <2>4. PoolClean'
    BY <2>3 DEF PoolClean, Pooled
  <2> QED BY <2>1, <2>2, <2>4 DEF Net
<1> QED BY <1>1, <1>2

\* What closing and writing to a connection leave of the others.
LEMMA NetOthers ==
  ASSUME NetTypes, NEW f \in Fd
  PROVE  /\ \A rep : Write(f, rep) =>
               /\ f \in open'
               /\ \A g \in Fd \ {f} : /\ conn'[g] = conn[g] /\ (g \in open' <=> g \in open)
                                     /\ (g \in tainted' <=> g \in tainted)
         /\ Close(f) =>
               /\ conn'[f] = <<>> /\ f \notin open'
               /\ \A g \in Fd \ {f} : /\ conn'[g] = conn[g] /\ (g \in open' <=> g \in open)
                                     /\ (g \in tainted' <=> g \in tainted)
         /\ ProtoRead(f) => /\ conn'[f] = Tail(conn[f])
                            /\ \A g \in Fd \ {f} : conn'[g] = conn[g]
<1>1. \A rep : Write(f, rep) =>
        /\ f \in open'
        /\ \A g \in Fd \ {f} : /\ conn'[g] = conn[g] /\ (g \in open' <=> g \in open)
                              /\ (g \in tainted' <=> g \in tainted)
  BY DEF Write, NetTypes
<1>2. Close(f) =>
        /\ conn'[f] = <<>> /\ f \notin open'
        /\ \A g \in Fd \ {f} : /\ conn'[g] = conn[g] /\ (g \in open' <=> g \in open)
                              /\ (g \in tainted' <=> g \in tainted)
  BY DEF Close, NetTypes
<1>3. ProtoRead(f) => /\ conn'[f] = Tail(conn[f])
                      /\ \A g \in Fd \ {f} : conn'[g] = conn[g]
  BY DEF ProtoRead, NetTypes
<1> QED BY <1>1, <1>2, <1>3

\* A worker's steps keep the connections apart and the pools clean.
LEMMA NetWork ==
  ASSUME IInv, NEW w \in Worker, Work(w)
  PROVE  Net'
<1> USE DEF workers, results, workQ, nodeState, net
<1>0. /\ TypeOK /\ Net /\ NetTypes /\ WorkerTypes /\ CallTypes /\ Creation /\ Wires
      /\ UNCHANGED <<pc, fd>>
      /\ \A g : Pooled(g) => g \in Fd
  BY DEF IInv, TypeOK, Net, NetTypes, Pooled, ToSet, Work, WorkerPop, WorkerSend,
     WorkerFails, WorkerRead
<1>u. \A u \in User : pc'[u] = "scanread" => KeepsU(u)
  BY <1>0 DEF KeepsU
<1>1. CASE WorkerPop(w)
  <2>1. UNCHANGED net /\ \A v \in Worker : wpc'[v] = "read" => KeepsW(v)
    BY <1>0, <1>1 DEF WorkerPop, KeepsW, WorkerTypes
  <2> QED BY <1>0, <1>u, <2>1, NetReads
<1>c. ASSUME NEW r, Complete(w, r)
      PROVE  \A v \in Worker : wpc'[v] = "read" => KeepsW(v) /\ v # w
  BY <1>0, <1>c DEF Complete, KeepsW, WorkerTypes
<1>2. CASE WorkerSend(w)
  <2> DEFINE n == job[w].node
             u == job[w].user
  <2>1. n \in Node /\ u \in User /\ wpc[w] = "send"
    BY <1>0, <1>2, JobIs DEF WorkerSend
  <2>2. ASSUME NEW f \in FdOf(n), NEW rep \in Replies(Asked(u, n)), Take(n), Write(f, rep),
               wpc' = [wpc EXCEPT ![w] = "read"], wfd' = [wfd EXCEPT ![w] = f]
        PROVE  Net'
    <3>1. f \in Fd
      BY <1>0, <2>1, <2>2, FdOfIs
    <3>2. /\ f \in open'
          /\ \A g \in Fd \ {f} : /\ conn'[g] = conn[g] /\ (g \in open' <=> g \in open)
                                /\ (g \in tainted' <=> g \in tainted)
      BY <1>0, <2>2, <3>1, NetOthers
    <3>3. \A v \in Worker : wpc'[v] = "read" => KeepsW(v) \/ (v = w /\ wfd'[v] = f /\ f \in open')
      BY <1>0, <2>2, <3>2 DEF KeepsW, WorkerTypes
    <3> HIDE DEF n
    <3> QED BY <1>0, <1>u, <2>1, <2>2, <3>2, <3>3, NetTaken
  <2>3. ASSUME NEW f \in FdOf(n), Take(n), Close(f), Complete(w, "FAIL") PROVE Net'
    <3>1. f \in Fd
      BY <1>0, <2>1, <2>3, FdOfIs
    <3>2. /\ conn'[f] = <<>>
          /\ \A g \in Fd \ {f} : /\ conn'[g] = conn[g] /\ (g \in open' <=> g \in open)
                                /\ (g \in tainted' <=> g \in tainted)
      BY <1>0, <2>3, <3>1, NetOthers
    <3>3. \A v \in Worker : wpc'[v] = "read" => KeepsW(v)
      BY <1>c, <2>3
    <3> HIDE DEF n
    <3> QED BY <1>0, <1>u, <2>1, <2>3, <3>2, <3>3, NetTaken
  <2>4. ASSUME UNCHANGED net, Complete(w, "FAIL") PROVE Net'
    BY <1>0, <1>c, <1>u, <2>4, NetReads
  <2> QED BY <1>2, <2>2, <2>3, <2>4 DEF WorkerSend
<1>3. ASSUME wpc[w] = "read"
      PROVE  /\ wfd[w] \in open /\ wfd[w] \in Fd /\ ~Pooled(wfd[w])
             /\ \A v \in Worker : KeepsW(v) /\ v # w => wfd[v] # wfd[w]
             /\ \A u \in User : pc'[u] = "scanread" => KeepsU(u) /\ fd[u] # wfd[w]
             /\ job[w].node \in Node /\ job[w].user \in User
  <2>1. job[w].node \in Node /\ job[w].user \in User
    BY <1>0, <1>3, JobIs
  <2>2. /\ wfd[w] \in open /\ wfd[w] \in Fd /\ ~Pooled(wfd[w])
        /\ \A v \in Worker : KeepsW(v) /\ v # w => wfd[v] # wfd[w]
    BY <1>0, <1>3 DEF Net, Fds, KeepsW, NetTypes
  <2>3. \A u \in User : pc'[u] = "scanread" => KeepsU(u) /\ fd[u] # wfd[w]
    BY <1>0, <1>3, <1>u DEF Net, Fds, KeepsU
  <2> QED BY <2>1, <2>2, <2>3
<1>4. ASSUME wpc[w] = "read", Close(wfd[w]), UNCHANGED pool, NEW r, Complete(w, r) PROVE Net'
  <2> DEFINE f == wfd[w]
  <2>1. /\ conn'[f] = <<>>
        /\ \A g \in Fd \ {f} : /\ conn'[g] = conn[g] /\ (g \in open' <=> g \in open)
                              /\ (g \in tainted' <=> g \in tainted)
    BY <1>0, <1>3, <1>4, NetOthers
  <2>2. \A v \in Worker : wpc'[v] = "read" => KeepsW(v) /\ wfd[v] # f
    BY <1>3, <1>4, <1>c
  <2> HIDE DEF f
  <2>3. f \in open /\ ~Pooled(f) /\ \A u \in User : pc'[u] = "scanread" => KeepsU(u) /\ fd[u] # f
    BY <1>3, <1>4 DEF f
  <2> QED BY <1>0, <1>4, <2>1, <2>2, <2>3, NetLeft
<1>5. CASE WorkerFails(w)
  BY <1>4, <1>5 DEF WorkerFails
<1>6. CASE WorkerRead(w)
  <2> DEFINE f == wfd[w]
             p == Head(conn[f])
             u == job[w].user
             S == Asked(u, job[w].node)
  <2>1. /\ wpc[w] = "read" /\ conn[f] # <<>> /\ f \in open /\ f \in Fd /\ ~Pooled(f)
        /\ job[w].node \in Node
    BY <1>3, <1>6 DEF WorkerRead
  <2>2. CASE ProtoRead(f) /\ UNCHANGED <<workers, pool, open, tainted>>
    <3>1. \A g \in Fd \ {f} : conn'[g] = conn[g]
      BY <1>0, <2>1, <2>2, NetOthers
    <3>2. \A g \in Fd : (Pooled(g) => conn'[g] = conn[g]) /\ (conn'[g] # <<>> => conn[g] # <<>>)
      BY <2>1, <3>1
    <3>3. \A v \in Worker : wpc'[v] = "read" => KeepsW(v)
      BY <2>2 DEF KeepsW
    <3> QED BY <1>0, <1>u, <2>2, <3>2, <3>3, NetReads
  <2>3. CASE BatchDone(p) /\ WorkerEnd(w, BatchRv(p)) /\ Complete(w, BatchRv(p))
    <3>1. CASE Close(f) /\ UNCHANGED pool
      BY <1>4, <2>1, <2>3, <3>1
    <3>2. CASE /\ BatchRv(p) = "OK" /\ Pool(job[w].node, f) /\ ProtoRead(f)
               /\ UNCHANGED <<open, tainted>>
      <4>1. conn'[f] = Tail(conn[f]) /\ \A g \in Fd \ {f} : conn'[g] = conn[g]
        BY <1>0, <2>1, <3>2, NetOthers
      <4>2. f \in tainted \/ Tail(conn[f]) = <<>>
        <5>1. f \in tainted \/ Reply(conn[f], S)
          BY <1>0, <2>1 DEF Wires
        <5>2. conn[f] \in Seq(Seq(Msgs)) /\ S \in SUBSET Digest
          BY <1>0, <2>1 DEF NetTypes, Asked
        <5> HIDE DEF S
        <5> QED BY <2>1, <2>3, <3>2, <5>1, <5>2, ReplyRead
      <4>3. /\ \A v \in Worker : wpc'[v] = "read" => KeepsW(v) /\ wfd[v] # f
            /\ \A v \in User : pc'[v] = "scanread" => KeepsU(v) /\ fd[v] # f
        BY <1>3, <1>c, <2>1, <2>3
      <4>4. /\ \E n \in Node : Pool(n, f)
            /\ f \in open' /\ (conn'[f] = <<>> \/ f \in tainted')
            /\ \A g \in Fd \ {f} : /\ conn'[g] = conn[g] /\ (g \in open' <=> g \in open)
                                  /\ (g \in tainted' <=> g \in tainted)
        BY <2>1, <3>2, <4>1, <4>2
      <4> HIDE DEF f
      <4> QED BY <1>0, <2>1, <4>3, <4>4, NetLeft
    <3> QED BY <2>3, <3>1, <3>2 DEF WorkerEnd
  <2> QED BY <1>6, <2>2, <2>3 DEF WorkerRead
<1> QED BY <1>1, <1>2, <1>5, <1>6 DEF Work

\* A scan's steps do too: it marks a connection it gives back unread.
LEMMA NetScan ==
  ASSUME IInv, NEW u \in User, Scan(u)
  PROVE  Net'
<1> USE DEF workers, results, workQ, nodeState, net
<1>0. /\ TypeOK /\ Net /\ NetTypes /\ CallTypes /\ Phase(u)
      /\ UNCHANGED <<wpc, wfd>>
      /\ \A g : Pooled(g) => g \in Fd
  BY DEF IInv, TypeOK, Phases, Net, NetTypes, Pooled, ToSet, Scan, ScanRandom, ScanByName,
     ScanReserve, ScanSend, ScanFails, ScanRead
<1>w. \A w \in Worker : wpc'[w] = "read" => KeepsW(w)
  BY <1>0 DEF KeepsW
<1>c. ASSUME NEW r, Scanned(u, r)
      PROVE  \A v \in User : pc'[v] = "scanread" => KeepsU(v) /\ v # u
  BY <1>0, <1>c DEF Scanned, KeepsU, CallTypes, Goto
<1>n. pc[u] \in {"scan", "scanread"} => nodes[u][1] \in Node
  <2>1. pc[u] \in {"scan", "scanread"} => nodes[u] \in Seq(Node) /\ Len(nodes[u]) = 1
    BY <1>0 DEF Phase, CallTypes
  <2> QED BY <2>1
<1>1. CASE ScanRandom(u) \/ ScanByName(u) \/ ScanReserve(u)
  <2>1. UNCHANGED net
    BY <1>1 DEF ScanRandom, ScanByName, ScanReserve
  <2>2. CASE \E r : Scanned(u, r)
    BY <1>0, <1>w, <1>c, <2>1, <2>2, NetReads
  <2>3. CASE pc'[u] # "scanread" /\ fd' = fd /\ \A v \in User \ {u} : pc'[v] = pc[v]
    <3>1. \A v \in User : pc'[v] = "scanread" => KeepsU(v)
      BY <2>3 DEF KeepsU
    <3> QED BY <1>0, <1>w, <2>1, <3>1, NetReads
  <2>4. (\E r : Scanned(u, r)) \/ (pc'[u] # "scanread" /\ fd' = fd /\ \A v \in User \ {u} : pc'[v] = pc[v])
    BY <1>0, <1>1 DEF ScanRandom, ScanByName, ScanReserve, Goto, CallTypes
  <2> QED BY <2>2, <2>3, <2>4
<1>2. CASE ScanSend(u)
  <2> DEFINE n == nodes[u][1]
  <2>1. n \in Node
    BY <1>n, <1>2 DEF ScanSend
  <2>2. ASSUME NEW f \in FdOf(n), NEW rep \in ScanReplies, Take(n), Write(f, rep),
               Goto(u, "scanread"), fd' = [fd EXCEPT ![u] = f]
        PROVE  Net'
    <3>1. f \in Fd
      BY <1>0, <2>1, <2>2, FdOfIs
    <3>2. /\ f \in open'
          /\ \A g \in Fd \ {f} : /\ conn'[g] = conn[g] /\ (g \in open' <=> g \in open)
                                /\ (g \in tainted' <=> g \in tainted)
      BY <1>0, <2>2, <3>1, NetOthers
    <3>3. \A v \in User : pc'[v] = "scanread" => KeepsU(v) \/ (v = u /\ fd'[v] = f /\ f \in open')
      BY <1>0, <2>2, <3>2 DEF KeepsU, CallTypes, Goto
    <3> HIDE DEF n
    <3> QED BY <1>0, <1>w, <2>1, <2>2, <3>2, <3>3, NetTaken
  <2>3. ASSUME NEW f \in FdOf(n), Take(n), Close(f), Scanned(u, "FAIL") PROVE Net'
    <3>1. f \in Fd
      BY <1>0, <2>1, <2>3, FdOfIs
    <3>2. /\ conn'[f] = <<>>
          /\ \A g \in Fd \ {f} : /\ conn'[g] = conn[g] /\ (g \in open' <=> g \in open)
                                /\ (g \in tainted' <=> g \in tainted)
      BY <1>0, <2>3, <3>1, NetOthers
    <3>3. \A v \in User : pc'[v] = "scanread" => KeepsU(v)
      BY <1>c, <2>3
    <3> HIDE DEF n
    <3> QED BY <1>0, <1>w, <2>1, <2>3, <3>2, <3>3, NetTaken
  <2>4. ASSUME UNCHANGED net, Scanned(u, "FAIL") PROVE Net'
    BY <1>0, <1>c, <1>w, <2>4, NetReads
  <2> QED BY <1>2, <2>2, <2>3, <2>4 DEF ScanSend
<1>3. ASSUME pc[u] = "scanread"
      PROVE  /\ fd[u] \in open /\ fd[u] \in Fd /\ ~Pooled(fd[u])
             /\ \A v \in User : KeepsU(v) /\ v # u => fd[v] # fd[u]
             /\ \A w \in Worker : wpc'[w] = "read" => KeepsW(w) /\ wfd[w] # fd[u]
  BY <1>0, <1>3, <1>w DEF Net, Fds, KeepsU, KeepsW, NetTypes
<1>4. CASE ScanFails(u)
  <2> DEFINE f == fd[u]
  <2>1. /\ pc[u] = "scanread" /\ Close(f) /\ Scanned(u, "FAIL") /\ UNCHANGED pool
    BY <1>4 DEF ScanFails
  <2>2. /\ conn'[f] = <<>>
        /\ \A g \in Fd \ {f} : /\ conn'[g] = conn[g] /\ (g \in open' <=> g \in open)
                              /\ (g \in tainted' <=> g \in tainted)
    BY <1>0, <1>3, <2>1, NetOthers
  <2>3. \A v \in User : pc'[v] = "scanread" => KeepsU(v) /\ fd[v] # f
    BY <1>3, <1>c, <2>1
  <2>4. f \in open /\ ~Pooled(f) /\ \A w \in Worker : wpc'[w] = "read" => KeepsW(w) /\ wfd[w] # f
    BY <1>3, <2>1
  <2> HIDE DEF f
  <2> QED BY <1>0, <2>1, <2>2, <2>3, <2>4, NetLeft
<1>5. CASE ScanRead(u)
  <2> DEFINE f == fd[u]
             p == Head(conn[f])
             n == nodes[u][1]
  <2>1. /\ pc[u] = "scanread" /\ conn[f] # <<>> /\ f \in open /\ f \in Fd /\ ~Pooled(f)
        /\ n \in Node
    BY <1>3, <1>n, <1>5 DEF ScanRead
  <2>2. ASSUME ProtoRead(f) PROVE conn'[f] = Tail(conn[f]) /\ \A g \in Fd \ {f} : conn'[g] = conn[g]
    BY <1>0, <2>1, <2>2, NetOthers
  <2>3. CASE ProtoRead(f) /\ UNCHANGED <<pc, fd, pool, open, tainted>>
    <3>1. \A g \in Fd : (Pooled(g) => conn'[g] = conn[g]) /\ (conn'[g] # <<>> => conn[g] # <<>>)
      BY <2>1, <2>2, <2>3
    <3>2. \A v \in User : pc'[v] = "scanread" => KeepsU(v)
      BY <2>3 DEF KeepsU
    <3> QED BY <1>0, <1>w, <2>3, <3>1, <3>2, NetReads
  <2>4. ASSUME NEW r, Scanned(u, r)
        PROVE  /\ \A v \in User : pc'[v] = "scanread" => KeepsU(v) /\ fd[v] # f
               /\ \A w \in Worker : wpc'[w] = "read" => KeepsW(w) /\ wfd[w] # f
    BY <1>3, <1>c, <2>1, <2>4
  <2>5. CASE ScanEnd(f, n) /\ Scanned(u, ScanRv(p))
    <3>1. CASE /\ Pool(n, f) /\ ProtoRead(f) /\ UNCHANGED open
               /\ tainted' = IF Len(conn[f]) > 1 THEN tainted \cup {f} ELSE tainted
      <4>1. conn'[f] = <<>> \/ Len(conn[f]) > 1
        <5> DEFINE l == Len(conn[f])
                   t == Tail(conn[f])
        <5>1. conn[f] \in Seq(Seq(Msgs))
          BY <1>0, <2>1 DEF NetTypes
        <5>2. l \in Nat \ {0} /\ (t = <<>> <=> l = 1) /\ conn'[f] = t
          BY <2>1, <2>2, <3>1, <5>1, TailIs
        <5> HIDE DEF l, t
        <5>3. conn'[f] = <<>> \/ l > 1
          BY <5>2
        <5> QED BY <5>3 DEF l
      <4>2. /\ \E m \in Node : Pool(m, f)
            /\ f \in open' /\ (conn'[f] = <<>> \/ f \in tainted')
            /\ \A g \in Fd \ {f} : /\ conn'[g] = conn[g] /\ (g \in open' <=> g \in open)
                                  /\ (g \in tainted' <=> g \in tainted)
        BY <2>1, <2>2, <3>1, <4>1
      <4>3. /\ \A v \in User : pc'[v] = "scanread" => KeepsU(v) /\ fd[v] # f
            /\ \A w \in Worker : wpc'[w] = "read" => KeepsW(w) /\ wfd[w] # f
        BY <2>4, <2>5
      <4> HIDE DEF f
      <4> QED BY <1>0, <2>1, <4>2, <4>3, NetLeft
    <3>2. CASE Close(f) /\ UNCHANGED pool
      <4>1. /\ conn'[f] = <<>>
            /\ \A g \in Fd \ {f} : /\ conn'[g] = conn[g] /\ (g \in open' <=> g \in open)
                                  /\ (g \in tainted' <=> g \in tainted)
        BY <1>0, <2>1, <3>2, NetOthers
      <4>2. /\ \A v \in User : pc'[v] = "scanread" => KeepsU(v) /\ fd[v] # f
            /\ \A w \in Worker : wpc'[w] = "read" => KeepsW(w) /\ wfd[w] # f
        BY <2>4, <2>5
      <4> HIDE DEF f
      <4> QED BY <1>0, <2>1, <3>2, <4>1, <4>2, NetLeft
    <3> QED BY <2>5, <3>1, <3>2 DEF ScanEnd
  <2> QED BY <1>5, <2>3, <2>5 DEF ScanRead
<1> QED BY <1>1, <1>2, <1>4, <1>5 DEF Scan

\* Every step keeps the connections apart and the pools clean.
LEMMA NetStep ==
  ASSUME IInv, [Next]_vars
  PROVE  Net'
<1> USE DEF workers, results, workQ, nodeState, net
<1>0. Net /\ CallTypes /\ WorkerTypes /\ \A g : Pooled(g) => g \in Fd
  BY DEF IInv, TypeOK, Net, NetTypes, Pooled, ToSet
<1>1. ASSUME NEW u \in User, Batch(u) \/ Begin(u) PROVE Net'
  <2>1. UNCHANGED net /\ fd' = fd /\ wfd' = wfd
        /\ \A v \in User : pc'[v] = "scanread" => pc[v] = "scanread"
    BY <1>0, <1>1 DEF Batch, LazyStart, LazyCreate, BatchNode, BatchNoNode, BatchSplit,
       BatchPush,
       BatchWait, BatchReturn, Begin, Goto, CallTypes
  <2>2. \A w \in Worker : wpc'[w] = "read" => wpc[w] = "read"
    BY <1>0, <1>1 DEF Batch, LazyStart, LazyCreate, BatchNode, BatchNoNode, BatchSplit,
       BatchPush,
       BatchWait, BatchReturn, Begin
  <2>3. /\ \A w \in Worker : wpc'[w] = "read" => KeepsW(w)
        /\ \A v \in User : pc'[v] = "scanread" => KeepsU(v)
    BY <2>1, <2>2 DEF KeepsW, KeepsU
  <2> QED BY <1>0, <2>1, <2>3, NetReads
<1>2. CASE (\E n \in Node : NodeDropped(n)) \/ Shutdown \/ ShutdownJoin \/ UNCHANGED vars
  <2>1. UNCHANGED net /\ UNCHANGED <<pc, fd, wpc, wfd>>
    BY <1>2 DEF NodeDropped, Shutdown, ShutdownJoin, vars
  <2>2. /\ \A w \in Worker : wpc'[w] = "read" => KeepsW(w)
        /\ \A v \in User : pc'[v] = "scanread" => KeepsU(v)
    BY <2>1 DEF KeepsW, KeepsU
  <2> QED BY <1>0, <2>1, <2>2, NetReads
<1> QED BY <1>1, <1>2, NetWork, NetScan DEF Next

-----------------------------------------------------------------------------
(* Works                                                                   *)

\* A work is queued, and not only about to be pushed, or is with a worker.
Given(k) == (\E j \in DOMAIN bq : bq[j] = k) \/ \E w \in Worker : job[w] = k

\* A work for a user is not a stop.
LEMMA ItemIs ==
  ASSUME NEW u \in User, NEW n
  PROVE  Item(u, n) # STOP /\ Item(u, n).user = u /\ Item(u, n).node = n
         /\ \A v, m : Item(v, m) = Item(u, n) <=> (v = u /\ m = n)
<1>1. Item(u, n).user = u /\ Item(u, n).node = n /\ STOP.user = NULL
  BY DEF Item, STOP
<1>2. Item(u, n) # STOP
  BY <1>1, BatchAssumption
<1>3. \A v, m : Item(v, m).user = v /\ Item(v, m).node = m
  BY DEF Item
<1> QED BY <1>1, <1>2, <1>3

\* What is in the queue or with a worker is a stop or a work for a user.
LEMMA GivenIs ==
  ASSUME WorkerTypes, QueueTypes, Jobs, NEW k, Given(k), k # STOP
  PROVE  /\ k.user \in User /\ k.node \in Node /\ k = Item(k.user, k.node)
         /\ Awaited(k)
<1>1. k \in Works
  BY DEF Given, WorkerTypes, QueueTypes
<1>2. k \in [user : User, node : Node]
  BY <1>1 DEF Works
<1>3. Awaited(k)
  BY DEF Given, Jobs
<1> QED BY <1>2, <1>3 DEF Item

\* Which nodes a call still waits for.
LEMMA PendIs ==
  ASSUME NEW u
  PROVE  \A n : n \in Pend(u) <=>
                  n \in ToSet(todo[u]) \/ (n \in Node /\ Given(Item(u, n)))
<1>1. \A k : k \in ToSet(bq) <=> \E j \in DOMAIN bq : bq[j] = k
  BY DEF ToSet
<1> QED BY <1>1 DEF Pend, Given

\* ... and in the next state.
LEMMA PendIsNext ==
  ASSUME NEW u
  PROVE  \A n : n \in Pend(u)' <=>
                  n \in ToSet(todo'[u]) \/ (n \in Node /\ Given(Item(u, n))')
<1>1. \A k : k \in ToSet(bq') <=> \E j \in DOMAIN bq' : bq'[j] = k
  BY DEF ToSet
<1> QED BY <1>1 DEF Pend, Given

\* A step that gives out no work keeps the works in their places.
LEMMA JobsKept ==
  ASSUME Jobs, bq' = bq, op' = op, \A w \in Worker : job'[w] \in {job[w], STOP},
         \A k : Given(k) /\ k # STOP => Awaited(k)',
         \A u \in User : op[u] = "batch" =>
             \/ todo'[u] = <<>>
             \/ todo'[u] = todo[u] /\ nodes'[u] = nodes[u]
  PROVE  Jobs'
<1>1. ASSUME NEW j \in DOMAIN bq', NEW k, k = bq'[j], k # STOP
      PROVE  /\ Awaited(k)'
             /\ \A i \in DOMAIN bq' : bq'[i] = k => i = j
             /\ \A w \in Worker : job'[w] # k
  <2>1. Given(k) /\ k = bq[j]
    BY <1>1 DEF Given
  <2> QED BY <1>1, <2>1 DEF Jobs
<1>2. ASSUME NEW w \in Worker, NEW k, k = job'[w], k # STOP
      PROVE  Awaited(k)' /\ \A v \in Worker : job'[v] = k => v = w
  <2>1. Given(k) /\ job[w] = k
    BY <1>2 DEF Given
  <2> QED BY <1>2, <2>1 DEF Jobs
<1>3. ASSUME NEW u \in User, op'[u] = "batch"
      PROVE  /\ ToSet(todo'[u]) \subseteq ToSet(nodes'[u])
             /\ \A i, j \in DOMAIN todo'[u] : todo'[u][i] = todo'[u][j] => i = j
  <2>1. CASE todo'[u] = <<>>
    BY <2>1 DEF ToSet
  <2>2. CASE todo'[u] = todo[u] /\ nodes'[u] = nodes[u]
    BY <1>3, <2>2 DEF Jobs
  <2> QED BY <1>3, <2>1, <2>2
<1> QED BY <1>1, <1>2, <1>3 DEF Jobs

\* A step that keeps what a call has to push, waits for and has in its completion
\* queue keeps the count.
LEMMA LeftsSame ==
  ASSUME Lefts, op' = op,
         \A v \in User : op[v] = "batch" /\ pc'[v] \in Under =>
             /\ pc[v] \in Under /\ left'[v] = left[v] /\ cq'[v] = cq[v]
             /\ todo'[v] = todo[v],
         \A v \in User, n \in Node : Given(Item(v, n))' <=> Given(Item(v, n))
  PROVE  Lefts'
<1> SUFFICES ASSUME NEW v \in User, op[v] = "batch", pc'[v] \in Under
             PROVE  left'[v] = Cardinality(Pend(v)') + Len(cq'[v])
  BY DEF Lefts, Under
<1>1. /\ pc[v] \in Under /\ left'[v] = left[v] /\ cq'[v] = cq[v] /\ todo'[v] = todo[v]
  OBVIOUS
<1>2. Pend(v)' = Pend(v)
  <2>1. \A n : n \in Pend(v)' <=> n \in Pend(v)
    BY <1>1, PendIs, PendIsNext
  <2> QED BY <2>1
<1> QED BY <1>1, <1>2 DEF Lefts

\* A work that ends is for a node that was waited for and is not any more.
LEMMA WorkOver ==
  ASSUME TypeOK, Creation, Jobs, NEW w \in Worker, wpc[w] \in {"send", "read"},
         NEW u, u = job[w].user, NEW n, n = job[w].node,
         job' = [job EXCEPT ![w] = STOP], bq' = bq, todo' = todo
  PROVE  /\ n \in Pend(u) /\ Pend(u)' = Pend(u) \ {n}
         /\ \A v \in User : v # u => Pend(v)' = Pend(v)
<1>1. /\ job[w] # STOP /\ u \in User /\ n \in Node /\ job[w] = Item(u, n)
      /\ WorkerTypes /\ QueueTypes
  BY JobIs DEF TypeOK
<1>2. Given(Item(u, n)) /\ Awaited(Item(u, n))
  BY <1>1 DEF Given, Jobs
<1>3. n \notin ToSet(todo[u])
  BY <1>1, <1>2 DEF Awaited
<1>4. \A k : Given(k)' <=> IF k = Item(u, n) THEN FALSE ELSE k = STOP \/ Given(k)
  <2> TAKE k
  <2>1. \A v \in Worker : job'[v] = IF v = w THEN STOP ELSE job[v]
    BY <1>1 DEF WorkerTypes
  <2>2. CASE k = Item(u, n)
    <3>1. k # STOP /\ k = job[w]
      BY <1>1, <2>2
    <3>2. \A v \in Worker : v # w => job[v] # k
      BY <1>1, <3>1 DEF Jobs
    <3>3. \A j \in DOMAIN bq : bq[j] # k
      BY <1>1, <3>1 DEF Jobs
    <3> QED BY <2>1, <2>2, <3>1, <3>2, <3>3 DEF Given
  <2>3. CASE k # Item(u, n)
    <3>1. job[w] # k
      BY <1>1, <2>3
    <3> QED BY <2>1, <2>3, <3>1 DEF Given
  <2> QED BY <2>2, <2>3
<1>5. \A v \in User, m \in Node : Item(v, m) # STOP /\ (Item(v, m) = Item(u, n) <=> v = u /\ m = n)
  BY <1>1, ItemIs
<1>6. n \in Pend(u)
  BY <1>1, <1>2, PendIs
<1>7. Pend(u)' = Pend(u) \ {n}
  <2>1. \A m : m \in Pend(u)' <=> m \in Pend(u) /\ m # n
    BY <1>1, <1>3, <1>4, <1>5, PendIs, PendIsNext
  <2> QED BY <2>1
<1>8. ASSUME NEW v \in User, v # u PROVE Pend(v)' = Pend(v)
  <2>1. \A m : m \in Pend(v)' <=> m \in Pend(v)
    BY <1>1, <1>4, <1>5, <1>8, PendIs, PendIsNext
  <2> QED BY <2>1
<1> QED BY <1>6, <1>7, <1>8

\* No work is for a call that is not under way.
LEMMA NoWork ==
  ASSUME WorkerTypes, QueueTypes, Jobs, NEW u \in User, pc[u] \notin Under, NEW n
  PROVE  ~Given(Item(u, n))
<1>1. ASSUME Given(Item(u, n)) PROVE FALSE
  <2>1. Item(u, n) # STOP /\ Item(u, n).user = u
    BY ItemIs
  <2>2. Awaited(Item(u, n))
    BY <1>1, <2>1, GivenIs
  <2> QED BY <2>1, <2>2 DEF Awaited
<1> QED BY <1>1

\* What a user does leaves the others alone.
LEMMA Apart ==
  ASSUME TypeOK, NEW u \in User, Batch(u) \/ Scan(u) \/ Begin(u)
  PROVE  /\ op' = op /\ got' = got /\ spoiled' = spoiled /\ job' = job /\ wfd' = wfd
         /\ \A v \in User \ {u} :
              /\ pc'[v] = pc[v] /\ nodes'[v] = nodes[v] /\ todo'[v] = todo[v]
              /\ left'[v] = left[v] /\ fd'[v] = fd[v] /\ rv'[v] = rv[v] /\ cq'[v] = cq[v]
         /\ LazyCreate(u) \/ wpc' = wpc
         /\ BatchWait(u) \/ cq' = cq
         /\ LazyCreate(u) \/ BatchPush(u) \/ bq' = bq
<1> USE DEF workers, results, workQ, nodeState, net, Goto, Result
<1>0. CallTypes /\ ResultTypes
  BY DEF TypeOK
<1>1. CASE Begin(u)
  BY <1>0, <1>1 DEF Begin, CallTypes
<1>2. CASE Batch(u)
  BY <1>0, <1>2 DEF Batch, LazyStart, LazyCreate, BatchNode, BatchNoNode, BatchSplit,
     BatchPush, BatchWait, BatchReturn, CallTypes, ResultTypes
<1>3. CASE Scan(u)
  BY <1>0, <1>3 DEF Scan, ScanRandom, ScanByName, ScanReserve, ScanSend, ScanFails,
     ScanRead,
     Scanned, CallTypes
<1> QED BY <1>1, <1>2, <1>3

\* What the workers, the tender and the shutdown do leaves the calls' locals alone.
LEMMA CallsAlone ==
  ASSUME \/ \E w \in Worker : Work(w)
         \/ \E n \in Node : NodeDropped(n)
         \/ Shutdown \/ ShutdownJoin \/ UNCHANGED vars
  PROVE  UNCHANGED <<pc, op, nodes, todo, left, fd, rv>>
  BY DEF Work, WorkerPop, WorkerSend, WorkerFails, WorkerRead, NodeDropped, Shutdown,
     ShutdownJoin, vars

\* The end of a work, or none.
LEMMA WorkEnds ==
  ASSUME WorkerTypes, NEW w \in Worker, Work(w), ~WorkerPop(w)
  PROVE  /\ wpc[w] \in {"send", "read"} /\ bq' = bq
         /\ \/ job' = job /\ cq' = cq
            \/ \E r : Complete(w, r) /\ job' = [job EXCEPT ![w] = STOP]
  BY DEF Work, WorkerSend, WorkerFails, WorkerRead, Complete, workers, workQ

\* A user's step other than splitting, pushing and returning keeps what a batch
\* under way has to push and the nodes it has.
LEMMA Quiet ==
  ASSUME IInv, NEW u \in User, Batch(u) \/ Scan(u) \/ Begin(u),
         ~BatchSplit(u), ~BatchPush(u), ~BatchReturn(u)
  PROVE  \A v \in User : op[v] = "batch" =>
           /\ pc'[v] \in Under <=> pc[v] \in Under
           /\ pc[v] \in Under => nodes'[v] = nodes[v] /\ todo'[v] = todo[v]
           /\ todo'[v] = <<>> \/ (todo'[v] = todo[v] /\ nodes'[v] = nodes[v])
           /\ BatchWait(u) \/ (left'[v] = left[v] /\ cq'[v] = cq[v])
<1> TAKE v \in User
<1> HAVE op[v] = "batch"
<1>0. CallTypes /\ ResultTypes /\ TypeOK /\ Phase(v)
  BY DEF IInv, TypeOK, Phases
<1>1. CASE v # u
  BY <1>0, <1>1, Apart
<1>2. CASE v = u
  <2> USE DEF workers, results, workQ, nodeState, net, Goto, Under, Before
  <2>1. CASE Begin(u)
    BY <1>0, <1>2, <2>1 DEF Begin, CallTypes
  <2>2. CASE LazyStart(u)
    BY <1>0, <1>2, <2>2 DEF LazyStart, CallTypes
  <2>3. CASE LazyCreate(u)
    BY <1>0, <1>2, <2>3 DEF LazyCreate, CallTypes
  <2>4. CASE BatchNode(u)
    BY <1>0, <1>2, <2>4 DEF BatchNode, CallTypes, Phase
  <2>5. CASE BatchNoNode(u)
    BY <1>0, <1>2, <2>5 DEF BatchNoNode, CallTypes, Phase
  <2>6. CASE BatchWait(u)
    BY <1>0, <1>2, <2>6 DEF BatchWait, CallTypes
  <2>7. ~Scan(u)
    BY <1>0, <1>2 DEF Phase, Scan, ScanRandom, ScanByName, ScanReserve, ScanSend,
       ScanFails, ScanRead
  <2> QED BY <2>1, <2>2, <2>3, <2>4, <2>5, <2>6, <2>7 DEF Batch
<1> QED BY <1>1, <1>2

\* Works stay awaited by calls that keep what they have.
LEMMA AwaitedKept ==
  ASSUME TypeOK, Jobs, op' = op,
         \A v \in User :
             op[v] = "batch" /\ pc[v] \in Under /\ (\E n : Given(Item(v, n))) =>
             pc'[v] \in Under /\ nodes'[v] = nodes[v] /\ todo'[v] = todo[v]
  PROVE  \A k : Given(k) /\ k # STOP => Awaited(k)'
<1> SUFFICES ASSUME NEW k, Given(k), k # STOP PROVE Awaited(k)'
  OBVIOUS
<1>1. k.user \in User /\ Awaited(k) /\ k = Item(k.user, k.node)
  BY GivenIs DEF TypeOK
<1>2. /\ pc'[k.user] \in Under /\ nodes'[k.user] = nodes[k.user] /\ todo'[k.user] = todo[k.user]
  BY <1>1 DEF Awaited
<1> QED BY <1>1, <1>2 DEF Awaited, Under

\* A call that returns has no work left.
LEMMA ReturnDone ==
  ASSUME IInv, NEW u \in User, op[u] = "batch", pc[u] \in Under, left[u] = 0
  PROVE  Pend(u) = {} /\ cq[u] = <<>> /\ \A n \in Node : ~Given(Item(u, n))
<1>1. left[u] = Cardinality(Pend(u)) + Len(cq[u]) /\ CallTypes /\ ResultTypes
  BY DEF IInv, Lefts, TypeOK
<1>2. Pend(u) \in SUBSET Node
  BY <1>1 DEF Pend, CallTypes, ToSet
<1>3. Cardinality(Pend(u)) \in Nat /\ (Cardinality(Pend(u)) = 0 <=> Pend(u) = {})
  BY <1>2, Finites, CountNat
<1>4. cq[u] \in Seq(Rv) /\ Len(cq[u]) \in Nat
  BY <1>1 DEF ResultTypes
<1>5. Cardinality(Pend(u)) = 0 /\ Len(cq[u]) = 0
  BY <1>1, <1>3, <1>4
<1>6. Pend(u) = {} /\ cq[u] = <<>>
  BY <1>3, <1>4, <1>5, EmptySeq
<1> QED BY <1>6, PendIs

\* Every step keeps each work in one place.
LEMMA JobsStep ==
  ASSUME IInv, [Next]_vars
  PROVE  Jobs'
<1> USE DEF workers, results, workQ, nodeState, net
<1>0. /\ TypeOK /\ CallTypes /\ WorkerTypes /\ QueueTypes /\ ResultTypes
      /\ Creation /\ Jobs /\ Phases
  BY DEF IInv, TypeOK
<1>1. ASSUME NEW u \in User, Batch(u) \/ Scan(u) \/ Begin(u),
             ~BatchSplit(u), ~BatchPush(u), ~BatchReturn(u)
      PROVE  Jobs'
  <2>1. op' = op /\ job' = job /\ bq' = bq
    <3>1. LazyCreate(u) => bq' = bq
      BY <1>0 DEF LazyCreate, Creation
    <3> QED BY <1>0, <1>1, <3>1, Apart
  <2>2. \A v \in User : op[v] = "batch" =>
           /\ pc[v] \in Under => pc'[v] \in Under /\ nodes'[v] = nodes[v] /\ todo'[v] = todo[v]
           /\ todo'[v] = <<>> \/ (todo'[v] = todo[v] /\ nodes'[v] = nodes[v])
    BY <1>1, Quiet
  <2>3. \A k : Given(k) /\ k # STOP => Awaited(k)'
    BY <1>0, <2>1, <2>2, AwaitedKept
  <2> QED BY <1>0, <2>1, <2>2, <2>3, JobsKept
<1>2. ASSUME NEW u \in User, BatchReturn(u) PROVE Jobs'
  <2>1. /\ op' = op /\ job' = job /\ bq' = bq /\ todo' = todo /\ pc[u] = "wait" /\ left[u] = 0
        /\ \A v \in User \ {u} : pc'[v] = pc[v] /\ nodes'[v] = nodes[v]
    BY <1>0, <1>2 DEF BatchReturn, Goto, CallTypes
  <2>2. op[u] = "batch" /\ todo[u] = <<>>
    <3>1. Phase(u) /\ op[u] \in {"batch", "scan", "all"}
      BY <1>0 DEF Phases, CallTypes
    <3> QED BY <2>1, <3>1 DEF Phase
  <2>3. \A n \in Node : ~Given(Item(u, n))
    BY <2>1, <2>2, ReturnDone DEF Under
  <2>4. \A n : ~Given(Item(u, n))
    <3> TAKE n
    <3>1. ASSUME Given(Item(u, n)) PROVE n \in Node
      BY <1>0, <3>1, ItemIs, GivenIs
    <3> QED BY <2>3, <3>1
  <2>5. \A k : Given(k) /\ k # STOP => Awaited(k)'
    BY <1>0, <2>1, <2>4, AwaitedKept
  <2> QED BY <1>0, <2>1, <2>2, <2>5, JobsKept
<1>3. ASSUME NEW u \in User, BatchSplit(u) PROVE Jobs'
  <2>1. /\ op' = op /\ job' = job /\ bq' = bq /\ nodes' = nodes /\ pc[u] = "node"
        /\ todo'[u] = SetToSeq(ToSet(nodes[u]))
        /\ \A v \in User \ {u} : pc'[v] = pc[v] /\ todo'[v] = todo[v]
    BY <1>0, <1>3 DEF BatchSplit, Goto, CallTypes
  <2>2. \A k : Given(k) /\ k # STOP => Awaited(k)'
    <3>1. pc[u] \notin Under
      BY <2>1 DEF Under
    <3> QED BY <1>0, <2>1, <3>1, AwaitedKept
  <2>3. /\ ToSet(todo'[u]) = ToSet(nodes[u])
        /\ \A i, j \in DOMAIN todo'[u] : todo'[u][i] = todo'[u][j] => i = j
    <3> DEFINE S == ToSet(nodes[u])
    <3>1. S \in SUBSET Node
      BY <1>0 DEF CallTypes, ToSet
    <3>2. IsFiniteSet(S)
      BY <3>1, Finites, FS_Subset
    <3> HIDE DEF S
    <3>3. /\ ToSet(SetToSeq(S)) = S
          /\ \A i, j \in DOMAIN SetToSeq(S) : SetToSeq(S)[i] = SetToSeq(S)[j] => i = j
      BY <3>2, SeqOfSet
    <3> QED BY <2>1, <3>3 DEF S
  <2>4. \A j \in DOMAIN bq' : \A k : k = bq'[j] /\ k # STOP =>
          /\ Awaited(k)' /\ \A i \in DOMAIN bq' : bq'[i] = k => i = j
          /\ \A w \in Worker : job'[w] # k
    BY <1>0, <2>1, <2>2 DEF Jobs, Given
  <2>5. \A w \in Worker : \A k : k = job'[w] /\ k # STOP =>
          Awaited(k)' /\ \A v \in Worker : job'[v] = k => v = w
    BY <1>0, <2>1, <2>2 DEF Jobs, Given
  <2>6. \A v \in User : op'[v] = "batch" =>
          /\ ToSet(todo'[v]) \subseteq ToSet(nodes'[v])
          /\ \A i, j \in DOMAIN todo'[v] : todo'[v][i] = todo'[v][j] => i = j
    BY <1>0, <2>1, <2>3 DEF Jobs
  <2> QED BY <2>4, <2>5, <2>6 DEF Jobs
<1>4. ASSUME NEW u \in User, BatchPush(u) PROVE Jobs'
  <2>0. pc[u] = "push" /\ op[u] = "batch" /\ todo[u] \in Seq(Node) /\ todo[u] # <<>>
    BY <1>0, <1>4 DEF BatchPush, Phases, Phase, CallTypes
  <2>1. /\ op' = op /\ job' = job /\ nodes' = nodes
        /\ pc'[u] \in Under /\ \A v \in User \ {u} : pc'[v] = pc[v] /\ todo'[v] = todo[v]
    BY <1>0, <1>4 DEF BatchPush, Goto, CallTypes, Under
  <2>2. CASE bq' = bq /\ todo' = todo
    <3>1. \A k : Given(k) /\ k # STOP => Awaited(k)'
      BY <1>0, <2>1, <2>2, AwaitedKept
    <3> QED BY <1>0, <2>1, <2>2, <3>1, JobsKept
  <2>3. CASE bq' = Append(bq, Item(u, Head(todo[u]))) /\ todo'[u] = Tail(todo[u])
    <3>a. PICK n : n = Head(todo[u])
      OBVIOUS
    <3>b. PICK it : it = Item(u, n)
      OBVIOUS
    <3> DEFINE l == Len(bq)
               s == todo[u]
               m == Len(s)
    <3>1. /\ s \in Seq(Node) /\ n \in Node /\ n = s[1] /\ m \in Nat \ {0}
          /\ DOMAIN s = 1 .. m /\ DOMAIN todo'[u] = 1 .. m - 1
          /\ \A k \in 1 .. m - 1 : todo'[u][k] = s[k + 1]
      BY <2>0, <2>3, <3>a, TailIs
    <3>2. /\ l \in Nat /\ DOMAIN bq = 1 .. l /\ DOMAIN bq' = 1 .. l + 1 /\ bq'[l + 1] = it
          /\ \A j \in 1 .. l : bq'[j] = bq[j]
      BY <1>0, <2>3, <3>a, <3>b DEF QueueTypes
    <3> HIDE DEF l, m
    <3>3. /\ \A i, j \in DOMAIN s : s[i] = s[j] => i = j
          /\ ToSet(s) \subseteq ToSet(nodes[u])
      BY <1>0, <2>0 DEF Jobs
    <3> HIDE DEF s
    <3>4. /\ n \in ToSet(s) /\ n \notin ToSet(todo'[u]) /\ ToSet(todo'[u]) \subseteq ToSet(s)
          /\ \A i, j \in DOMAIN todo'[u] : todo'[u][i] = todo'[u][j] => i = j
      <4>1. \A k \in DOMAIN todo'[u] : k + 1 \in DOMAIN s /\ todo'[u][k] = s[k + 1] /\ k + 1 # 1 /\ k \in Nat
        BY <3>1
      <4>2. 1 \in DOMAIN s
        BY <3>1
      <4>3. n \in ToSet(s)
        BY <3>1, <4>2 DEF ToSet
      <4>4. n \notin ToSet(todo'[u])
        <5>1. ASSUME NEW k \in DOMAIN todo'[u], todo'[u][k] = n PROVE FALSE
          BY <3>1, <3>3, <4>1, <4>2, <5>1
        <5> QED BY <5>1 DEF ToSet
      <4>5. ToSet(todo'[u]) \subseteq ToSet(s)
        BY <4>1 DEF ToSet
      <4>6. ASSUME NEW i \in DOMAIN todo'[u], NEW j \in DOMAIN todo'[u], todo'[u][i] = todo'[u][j]
            PROVE  i = j
        <5>1. i + 1 = j + 1 /\ i \in Nat /\ j \in Nat
          BY <3>3, <4>1, <4>6
        <5> QED BY <5>1
      <4> QED BY <4>3, <4>4, <4>5, <4>6
    <3>5. it # STOP /\ it.user = u /\ it.node = n
      BY <3>b, ItemIs
    <3>6. Awaited(it)'
      BY <2>0, <2>1, <3>3, <3>4, <3>5 DEF Awaited, Under
    <3>7. ~Given(it)
      <4>1. ASSUME Given(it) PROVE FALSE
        <5>1. Awaited(it)
          BY <1>0, <3>5, <4>1, GivenIs
        <5> QED BY <3>4, <3>5, <5>1 DEF Awaited, s
      <4> QED BY <4>1
    <3>8. \A k : Given(k) /\ k # STOP => Awaited(k)'
      <4> SUFFICES ASSUME NEW k, Given(k), k # STOP PROVE Awaited(k)'
        OBVIOUS
      <4>1. Awaited(k) /\ k.user \in User
        BY <1>0, GivenIs
      <4>2. CASE k.user = u
        BY <2>0, <2>1, <3>4, <4>1, <4>2 DEF Awaited, s
      <4>3. CASE k.user # u
        BY <2>1, <4>1, <4>3 DEF Awaited
      <4> QED BY <4>2, <4>3
    <3>9. \A j \in DOMAIN bq' : \A k : k = bq'[j] /\ k # STOP =>
            /\ Awaited(k)' /\ \A i \in DOMAIN bq' : bq'[i] = k => i = j
            /\ \A w \in Worker : job'[w] # k
      <4> SUFFICES ASSUME NEW j \in DOMAIN bq', NEW k, k = bq'[j], k # STOP
                   PROVE  /\ Awaited(k)' /\ \A i \in DOMAIN bq' : bq'[i] = k => i = j
                          /\ \A w \in Worker : job'[w] # k
        OBVIOUS
      <4>1. \A i \in DOMAIN bq' : i = l + 1 \/ i \in DOMAIN bq
        BY <3>2
      <4>2. CASE j = l + 1
        <5>1. k = it
          BY <3>2, <4>2
        <5>2. \A i \in DOMAIN bq : bq'[i] # it
          BY <3>2, <3>7 DEF Given
        <5>3. \A w \in Worker : job'[w] # it
          BY <2>1, <3>7 DEF Given
        <5> QED BY <3>6, <4>1, <4>2, <5>1, <5>2, <5>3
      <4>3. CASE j \in DOMAIN bq
        <5>1. k = bq[j] /\ Given(k) /\ k # it
          BY <3>2, <3>7, <4>3 DEF Given
        <5>2. \A i \in DOMAIN bq : bq'[i] = k => i = j
          BY <1>0, <3>2, <4>3, <5>1 DEF Jobs
        <5>3. \A w \in Worker : job'[w] # k
          BY <1>0, <2>1, <4>3, <5>1 DEF Jobs
        <5> QED BY <3>2, <3>8, <4>1, <5>1, <5>2, <5>3
      <4> QED BY <4>1, <4>2, <4>3
    <3>10. \A w \in Worker : \A k : k = job'[w] /\ k # STOP =>
             Awaited(k)' /\ \A v \in Worker : job'[v] = k => v = w
      BY <1>0, <2>1, <3>8 DEF Jobs, Given
    <3>11. \A v \in User : op'[v] = "batch" =>
             /\ ToSet(todo'[v]) \subseteq ToSet(nodes'[v])
             /\ \A i, j \in DOMAIN todo'[v] : todo'[v][i] = todo'[v][j] => i = j
      BY <1>0, <2>1, <3>3, <3>4 DEF Jobs, s
    <3> QED BY <3>9, <3>10, <3>11 DEF Jobs
  <2> QED BY <1>0, <1>4, <2>2, <2>3 DEF BatchPush, Item, CallTypes
<1>5. ASSUME NEW w \in Worker, WorkerPop(w) PROVE Jobs'
  <2> DEFINE l == Len(bq)
  <2>1. /\ UNCHANGED <<pc, op, nodes, todo>> /\ bq \in Seq(Works) /\ bq # <<>>
        /\ bq' = Tail(bq) /\ \A v \in Worker : job'[v] = IF v = w THEN Head(bq) ELSE job[v]
    BY <1>0, <1>5 DEF WorkerPop, WorkerTypes, QueueTypes
  <2>2. /\ Head(bq) = bq[1] /\ l \in Nat \ {0} /\ DOMAIN bq = 1 .. l /\ DOMAIN bq' = 1 .. l - 1
        /\ \A k \in 1 .. l - 1 : bq'[k] = bq[k + 1]
    BY <2>1, TailIs
  <2> HIDE DEF l
  <2>3. 1 \in DOMAIN bq /\ \A k \in DOMAIN bq' : k + 1 \in DOMAIN bq /\ bq'[k] = bq[k + 1] /\ k + 1 # 1 /\ k \in Nat
    BY <2>2
  <2>4. \A k : Given(k) /\ k # STOP => Awaited(k)'
    BY <1>0, <2>1, AwaitedKept
  <2>5. \A j \in DOMAIN bq' : \A k : k = bq'[j] /\ k # STOP =>
          /\ Awaited(k)' /\ \A i \in DOMAIN bq' : bq'[i] = k => i = j
          /\ \A v \in Worker : job'[v] # k
    <3> SUFFICES ASSUME NEW j \in DOMAIN bq', NEW k, k = bq'[j], k # STOP
                 PROVE  /\ Awaited(k)' /\ \A i \in DOMAIN bq' : bq'[i] = k => i = j
                        /\ \A v \in Worker : job'[v] # k
      OBVIOUS
    <3>1. j + 1 \in DOMAIN bq /\ k = bq[j + 1] /\ Given(k)
      BY <2>3 DEF Given
    <3>2. /\ \A i \in DOMAIN bq : bq[i] = k => i = j + 1
          /\ \A v \in Worker : job[v] # k
      BY <1>0, <3>1 DEF Jobs
    <3>3. ASSUME NEW i \in DOMAIN bq', bq'[i] = k PROVE i = j
      <4>1. i + 1 = j + 1 /\ i \in Nat /\ j \in Nat
        BY <2>3, <3>2, <3>3
      <4> QED BY <4>1
    <3>4. bq[1] # k
      BY <2>3, <3>2
    <3> QED BY <2>1, <2>2, <2>4, <3>1, <3>2, <3>3, <3>4
  <2>6. \A v \in Worker : \A k : k = job'[v] /\ k # STOP =>
          Awaited(k)' /\ \A x \in Worker : job'[x] = k => x = v
    <3> SUFFICES ASSUME NEW v \in Worker, NEW k, k = job'[v], k # STOP
                 PROVE  Awaited(k)' /\ \A x \in Worker : job'[x] = k => x = v
      OBVIOUS
    <3>1. CASE v = w
      <4>1. k = bq[1] /\ Given(k)
        BY <2>1, <2>2, <2>3, <3>1 DEF Given
      <4>2. \A x \in Worker : job[x] # k
        BY <1>0, <2>3, <4>1 DEF Jobs
      <4> QED BY <2>1, <2>4, <3>1, <4>1, <4>2
    <3>2. CASE v # w
      <4>1. k = job[v] /\ Given(k)
        BY <2>1, <3>2 DEF Given
      <4>2. bq[1] # k
        BY <1>0, <2>3, <4>1 DEF Jobs
      <4>3. \A x \in Worker : job[x] = k => x = v
        BY <1>0, <4>1 DEF Jobs
      <4> QED BY <2>1, <2>2, <2>4, <3>2, <4>1, <4>2, <4>3
    <3> QED BY <3>1, <3>2
  <2>7. \A v \in User : op'[v] = "batch" =>
          /\ ToSet(todo'[v]) \subseteq ToSet(nodes'[v])
          /\ \A i, j \in DOMAIN todo'[v] : todo'[v][i] = todo'[v][j] => i = j
    BY <1>0, <2>1 DEF Jobs
  <2> QED BY <2>5, <2>6, <2>7 DEF Jobs
<1>6. ASSUME UNCHANGED <<pc, op, nodes, todo, bq>>, \A w \in Worker : job'[w] \in {job[w], STOP}
      PROVE  Jobs'
  <2>1. \A k : Given(k) /\ k # STOP => Awaited(k)'
    BY <1>0, <1>6, AwaitedKept
  <2> QED BY <1>0, <1>6, <2>1, JobsKept
<1>7. ASSUME NEW w \in Worker, Work(w), ~WorkerPop(w) PROVE Jobs'
  <2>1. UNCHANGED <<pc, op, nodes, todo>>
    BY <1>7, CallsAlone
  <2>2. bq' = bq /\ \A v \in Worker : job'[v] \in {job[v], STOP}
    BY <1>0, <1>7, WorkEnds DEF WorkerTypes
  <2> QED BY <1>6, <2>1, <2>2
<1>8. CASE Shutdown
  <2> DEFINE l == Len(bq)
             stops == [w \in Worker |-> STOP]
  <2>1. UNCHANGED <<pc, op, nodes, todo, job>> /\ bq' = bq \o stops
    BY <1>8 DEF Shutdown
  <2>2. /\ l \in Nat /\ DOMAIN bq = 1 .. l
        /\ \A j \in DOMAIN bq' : (j \in DOMAIN bq /\ bq'[j] = bq[j]) \/ bq'[j] = STOP
    <3>1. NThreads \in Nat /\ bq \in Seq(Works) /\ STOP \in Works
      BY <1>0, BatchAssumption DEF QueueTypes, Works
    <3>2. stops \in Seq(Works) /\ Len(stops) = NThreads /\ \A j \in 1 .. NThreads : stops[j] = STOP
      BY <3>1 DEF Worker
    <3> HIDE DEF stops
    <3> QED BY <2>1, <3>1, <3>2
  <2>4. \A k : Given(k) /\ k # STOP => Awaited(k)'
    BY <1>0, <2>1, AwaitedKept
  <2>5. \A j \in DOMAIN bq' : \A k : k = bq'[j] /\ k # STOP =>
          /\ Awaited(k)' /\ \A i \in DOMAIN bq' : bq'[i] = k => i = j
          /\ \A w \in Worker : job'[w] # k
    <3> SUFFICES ASSUME NEW j \in DOMAIN bq', NEW k, k = bq'[j], k # STOP
                 PROVE  /\ Awaited(k)' /\ \A i \in DOMAIN bq' : bq'[i] = k => i = j
                        /\ \A w \in Worker : job'[w] # k
      OBVIOUS
    <3>1. j \in DOMAIN bq /\ k = bq[j] /\ Given(k)
      BY <2>2 DEF Given
    <3>2. /\ \A i \in DOMAIN bq : bq[i] = k => i = j
          /\ \A w \in Worker : job[w] # k
      BY <1>0, <3>1 DEF Jobs
    <3> QED BY <2>1, <2>2, <2>4, <3>1, <3>2
  <2>6. \A w \in Worker : \A k : k = job'[w] /\ k # STOP =>
          Awaited(k)' /\ \A v \in Worker : job'[v] = k => v = w
    BY <1>0, <2>1, <2>4 DEF Jobs, Given
  <2>7. \A v \in User : op'[v] = "batch" =>
          /\ ToSet(todo'[v]) \subseteq ToSet(nodes'[v])
          /\ \A i, j \in DOMAIN todo'[v] : todo'[v][i] = todo'[v][j] => i = j
    BY <1>0, <2>1 DEF Jobs
  <2> QED BY <2>5, <2>6, <2>7 DEF Jobs
<1>9. CASE (\E n \in Node : NodeDropped(n)) \/ ShutdownJoin \/ UNCHANGED vars
  <2>1. UNCHANGED <<pc, op, nodes, todo, bq, job>>
    BY <1>9 DEF NodeDropped, ShutdownJoin, vars
  <2> QED BY <1>6, <2>1
<1>10. ASSUME NEW u \in User, Batch(u) \/ Scan(u) \/ Begin(u) PROVE Jobs'
  BY <1>1, <1>2, <1>3, <1>4, <1>10
<1>11. ASSUME NEW w \in Worker, Work(w) PROVE Jobs'
  BY <1>5, <1>7, <1>11
<1> QED BY <1>8, <1>9, <1>10, <1>11 DEF Next

\* A pop moves a work from the queue to a worker; the shutdown adds stops.
LEMMA GivenKept ==
  ASSUME TypeOK, Creation, (\E w \in Worker : WorkerPop(w)) \/ Shutdown
  PROVE  \A k : k # STOP => (Given(k)' <=> Given(k))
<1>0. WorkerTypes /\ QueueTypes
  BY DEF TypeOK
<1>1. ASSUME NEW w \in Worker, WorkerPop(w), NEW k, k # STOP PROVE Given(k)' <=> Given(k)
  <2> DEFINE l == Len(bq)
  <2>1. /\ bq \in Seq(Works) /\ bq # <<>> /\ job[w] = STOP
        /\ bq' = Tail(bq) /\ \A v \in Worker : job'[v] = IF v = w THEN Head(bq) ELSE job[v]
    BY <1>0, <1>1 DEF WorkerPop, WorkerTypes, QueueTypes, Creation
  <2>2. /\ Head(bq) = bq[1] /\ l \in Nat \ {0} /\ DOMAIN bq = 1 .. l /\ DOMAIN bq' = 1 .. l - 1
        /\ \A j \in 1 .. l - 1 : bq'[j] = bq[j + 1]
    BY <2>1, TailIs
  <2> HIDE DEF l
  <2>3. /\ 1 \in DOMAIN bq
        /\ \A j \in DOMAIN bq' : j + 1 \in DOMAIN bq /\ bq'[j] = bq[j + 1]
        /\ \A j \in DOMAIN bq : j = 1 \/ (j - 1 \in DOMAIN bq' /\ bq'[j - 1] = bq[j])
    BY <2>2
  <2>4. Given(k)' => Given(k)
    BY <2>1, <2>2, <2>3 DEF Given
  <2>5. Given(k) => Given(k)'
    <3>1. ASSUME NEW j \in DOMAIN bq, bq[j] = k PROVE Given(k)'
      <4>1. CASE j = 1
        BY <2>1, <2>2, <3>1, <4>1 DEF Given
      <4>2. CASE j # 1
        BY <2>3, <3>1, <4>2 DEF Given
      <4> QED BY <4>1, <4>2
    <3>2. ASSUME NEW v \in Worker, job[v] = k PROVE Given(k)'
      BY <1>1, <2>1, <3>2 DEF Given
    <3> QED BY <3>1, <3>2 DEF Given
  <2> QED BY <2>4, <2>5
<1>2. ASSUME Shutdown, NEW k, k # STOP PROVE Given(k)' <=> Given(k)
  <2> DEFINE l == Len(bq)
             stops == [w \in Worker |-> STOP]
  <2>1. job' = job /\ bq' = bq \o stops
    BY <1>2 DEF Shutdown, workers
  <2>2. /\ l \in Nat /\ DOMAIN bq = 1 .. l
        /\ \A j \in DOMAIN bq : j \in DOMAIN bq' /\ bq'[j] = bq[j]
        /\ \A j \in DOMAIN bq' : (j \in DOMAIN bq /\ bq'[j] = bq[j]) \/ bq'[j] = STOP
    <3>1. NThreads \in Nat /\ bq \in Seq(Works) /\ STOP \in Works
      BY <1>0, BatchAssumption DEF QueueTypes, Works
    <3>2. stops \in Seq(Works) /\ Len(stops) = NThreads /\ \A j \in 1 .. NThreads : stops[j] = STOP
      BY <3>1 DEF Worker
    <3> HIDE DEF stops
    <3> QED BY <2>1, <3>1, <3>2
  <2> QED BY <1>2, <2>1, <2>2 DEF Given
<1> QED BY <1>1, <1>2

\* A push moves a node from what is to be pushed into the queue.
LEMMA PushPend ==
  ASSUME IInv, NEW u \in User, BatchPush(u)
  PROVE  \A v \in User : Pend(v)' = Pend(v)
<1> USE DEF workers, results, workQ, nodeState, net
<1>0. /\ TypeOK /\ CallTypes /\ WorkerTypes /\ QueueTypes /\ ResultTypes
      /\ Phases
  BY DEF IInv, TypeOK
<1>1. pc[u] = "push" /\ todo[u] \in Seq(Node) /\ todo[u] # <<>>
  BY <1>0 DEF BatchPush, Phases, Phase, CallTypes
<1>2. job' = job /\ \A v \in User \ {u} : todo'[v] = todo[v]
  BY <1>0 DEF BatchPush, CallTypes
<1>3. CASE bq' = bq /\ todo' = todo
  BY <1>2, <1>3 DEF Pend
<1>4. CASE bq' = Append(bq, Item(u, Head(todo[u]))) /\ todo'[u] = Tail(todo[u])
  <2>a. PICK n : n = Head(todo[u])
    OBVIOUS
  <2> DEFINE l == Len(bq)
             s == todo[u]
             m == Len(s)
  <2>1. /\ n \in Node /\ n = s[1] /\ m \in Nat \ {0}
        /\ DOMAIN s = 1 .. m /\ DOMAIN todo'[u] = 1 .. m - 1
        /\ \A k \in 1 .. m - 1 : todo'[u][k] = s[k + 1]
    BY <1>1, <1>4, <2>a, TailIs
  <2>2. /\ l \in Nat /\ DOMAIN bq = 1 .. l /\ DOMAIN bq' = 1 .. l + 1 /\ bq'[l + 1] = Item(u, n)
        /\ \A j \in 1 .. l : bq'[j] = bq[j]
    BY <1>0, <1>4, <2>a DEF QueueTypes
  <2> HIDE DEF l, m
  <2>3. \A k : Given(k)' <=> Given(k) \/ k = Item(u, n)
    <3> TAKE k
    <3>1. (\E j \in DOMAIN bq' : bq'[j] = k) <=> (\E j \in DOMAIN bq : bq[j] = k) \/ k = Item(u, n)
      BY <2>2
    <3> QED BY <1>2, <3>1 DEF Given
  <2>4. \A x : x \in ToSet(s) <=> x \in ToSet(todo'[u]) \/ x = n
    <3>1. \A k \in DOMAIN todo'[u] : k + 1 \in DOMAIN s /\ todo'[u][k] = s[k + 1]
      BY <2>1
    <3>2. 1 \in DOMAIN s /\ s[1] = n
      BY <2>1
    <3>3. \A k \in DOMAIN s : k = 1 \/ (k - 1 \in DOMAIN todo'[u] /\ todo'[u][k - 1] = s[k])
      BY <2>1
    <3> HIDE DEF s
    <3> QED BY <3>1, <3>2, <3>3 DEF ToSet
  <2>5. Pend(u)' = Pend(u)
    <3>1. \A x : x \in Pend(u)' <=> x \in Pend(u)
      <4> TAKE x
      <4>1. x \in Node => (Given(Item(u, x))' <=> Given(Item(u, x)) \/ x = n)
        BY <2>3, ItemIs
      <4> QED BY <2>1, <2>4, <4>1, PendIs, PendIsNext
    <3> QED BY <3>1
  <2>6. ASSUME NEW v \in User, v # u PROVE Pend(v)' = Pend(v)
    <3>1. \A x : x \in Pend(v)' <=> x \in Pend(v)
      <4> TAKE x
      <4>1. Given(Item(v, x))' <=> Given(Item(v, x))
        BY <2>3, <2>6, ItemIs
      <4> QED BY <1>2, <2>6, <4>1, PendIs, PendIsNext
    <3> QED BY <3>1
  <2> QED BY <2>5, <2>6
<1> QED BY <1>0, <1>3, <1>4 DEF BatchPush, Item, CallTypes

\* Every step keeps the count of what a call waits for.
LEMMA LeftsStep ==
  ASSUME IInv, [Next]_vars
  PROVE  Lefts'
<1> USE DEF workers, results, workQ, nodeState, net
<1>0. /\ TypeOK /\ CallTypes /\ WorkerTypes /\ QueueTypes /\ ResultTypes
      /\ Creation /\ Jobs /\ Phases /\ Lefts
  BY DEF IInv, TypeOK
<1>1. ASSUME UNCHANGED <<job, bq>> PROVE \A v \in User, n \in Node : Given(Item(v, n))' <=> Given(Item(v, n))
  BY <1>1 DEF Given
<1>p. ASSUME NEW v \in User
      PROVE  Cardinality(Pend(v)) \in Nat /\ IsFiniteSet(Pend(v)) /\ Len(cq[v]) \in Nat
  <2>1. Pend(v) \in SUBSET Node
    BY <1>0 DEF Pend, CallTypes, ToSet
  <2>2. cq[v] \in Seq(Rv)
    BY <1>0 DEF ResultTypes
  <2> QED BY <2>1, <2>2, Finites, CountNat
<1>2. ASSUME NEW u \in User, Batch(u) \/ Scan(u) \/ Begin(u),
             ~BatchSplit(u), ~BatchPush(u), ~BatchReturn(u)
      PROVE  Lefts'
  <2>1. op' = op /\ job' = job /\ bq' = bq
    <3>1. LazyCreate(u) => bq' = bq
      BY <1>0 DEF LazyCreate, Creation
    <3> QED BY <1>0, <1>2, <3>1, Apart
  <2>2. \A v \in User : op[v] = "batch" =>
           /\ pc'[v] \in Under => pc[v] \in Under /\ todo'[v] = todo[v]
           /\ BatchWait(u) \/ (left'[v] = left[v] /\ cq'[v] = cq[v])
    BY <1>2, Quiet
  <2>3. CASE ~BatchWait(u)
    BY <1>0, <1>1, <2>1, <2>2, <2>3, LeftsSame
  <2>4. CASE BatchWait(u)
    <3> SUFFICES ASSUME NEW v \in User, op[v] = "batch", pc'[v] \in Under
                 PROVE  left'[v] = Cardinality(Pend(v)') + Len(cq'[v])
      BY <2>1 DEF Lefts, Under
    <3>1. pc[v] \in Under /\ todo'[v] = todo[v]
      BY <2>2
    <3>2. Pend(v)' = Pend(v)
      BY <2>1, <3>1 DEF Pend
    <3>3. left[v] = Cardinality(Pend(v)) + Len(cq[v])
      BY <1>0, <3>1 DEF Lefts
    <3>4. CASE v = u
      <4>1. cq[u] \in Seq(Rv) /\ cq[u] # <<>> /\ cq'[u] = Tail(cq[u]) /\ left'[u] = left[u] - 1
        BY <1>0, <2>4 DEF BatchWait, ResultTypes, CallTypes
      <4>2. Len(cq'[u]) = Len(cq[u]) - 1
        BY <4>1
      <4> QED BY <1>p, <3>2, <3>3, <3>4, <4>1, <4>2
    <3>5. CASE v # u
      BY <1>0, <1>2, <3>2, <3>3, <3>5, Apart
    <3> QED BY <3>4, <3>5
  <2> QED BY <2>3, <2>4
<1>3. ASSUME NEW u \in User, BatchReturn(u) PROVE Lefts'
  <2>1. /\ op' = op /\ job' = job /\ bq' = bq /\ todo' = todo /\ left' = left /\ cq' = cq
        /\ \A v \in User : pc'[v] \in Under => pc'[v] = pc[v]
    BY <1>0, <1>3 DEF BatchReturn, Goto, CallTypes, Under
  <2> QED BY <1>0, <1>1, <2>1, LeftsSame
<1>4. ASSUME NEW u \in User, BatchSplit(u) PROVE Lefts'
  <2> DEFINE S == ToSet(nodes[u])
  <2>1. /\ op' = op /\ job' = job /\ bq' = bq /\ cq' = cq /\ pc[u] = "node"
        /\ todo'[u] = SetToSeq(S) /\ left'[u] = Cardinality(S)
        /\ \A v \in User \ {u} : pc'[v] = pc[v] /\ todo'[v] = todo[v] /\ left'[v] = left[v]
    BY <1>0, <1>4 DEF BatchSplit, Goto, CallTypes
  <2>2. pc[u] \notin Under /\ (op[u] = "batch" => cq[u] = <<>>)
    <3>1. Phase(u)
      BY <1>0 DEF Phases
    <3> QED BY <2>1, <3>1 DEF Phase, Under, Before
  <2>3. ToSet(todo'[u]) = S
    <3>1. S \in SUBSET Node
      BY <1>0 DEF CallTypes, ToSet
    <3>2. IsFiniteSet(S)
      BY <3>1, Finites, FS_Subset
    <3> HIDE DEF S
    <3> QED BY <2>1, <3>2, SeqOfSet
  <2>4. \A n : ~Given(Item(u, n))'
    <3>1. \A n : ~Given(Item(u, n))
      BY <1>0, <2>2, NoWork
    <3> QED BY <2>1, <3>1 DEF Given
  <2>5. Pend(u)' = S
    <3> HIDE DEF S
    <3>1. \A n : n \in Pend(u)' <=> n \in S
      BY <2>3, <2>4, PendIsNext
    <3> QED BY <3>1
  <2>6. ASSUME op[u] = "batch" PROVE left'[u] = Cardinality(Pend(u)') + Len(cq'[u])
    <3>1. Len(cq'[u]) = 0 /\ Cardinality(S) \in Nat
      <4>1. S \in SUBSET Node
        BY <1>0 DEF CallTypes, ToSet
      <4> QED BY <2>1, <2>2, <2>6, <4>1, Finites, CountNat
    <3> HIDE DEF S
    <3> QED BY <2>1, <2>5, <3>1
  <2>7. ASSUME NEW v \in User, v # u, op[v] = "batch", pc'[v] \in Under
        PROVE  left'[v] = Cardinality(Pend(v)') + Len(cq'[v])
    <3>1. Pend(v)' = Pend(v)
      BY <2>1, <2>7 DEF Pend
    <3> QED BY <1>0, <2>1, <2>7, <3>1 DEF Lefts
  <2> QED BY <2>1, <2>6, <2>7 DEF Lefts, Under
<1>5. ASSUME NEW u \in User, BatchPush(u) PROVE Lefts'
  <2>1. /\ op' = op /\ left' = left /\ cq' = cq
        /\ pc[u] \in Under /\ \A v \in User \ {u} : pc'[v] = pc[v] /\ todo'[v] = todo[v]
    BY <1>0, <1>5 DEF BatchPush, Goto, CallTypes, Under
  <2>2. \A v \in User : Pend(v)' = Pend(v) /\ (pc'[v] \in Under => pc[v] \in Under)
    BY <1>5, <2>1, PushPend
  <2> QED BY <1>0, <2>1, <2>2 DEF Lefts, Under
<1>6. ASSUME UNCHANGED <<pc, op, todo, left, cq>>,
             \A k : k # STOP => (Given(k)' <=> Given(k))
      PROVE  Lefts'
  <2>1. \A v \in User, n \in Node : Given(Item(v, n))' <=> Given(Item(v, n))
    BY <1>6, ItemIs
  <2> QED BY <1>0, <1>6, <2>1, LeftsSame
<1>7. ASSUME NEW w \in Worker, Work(w) PROVE Lefts'
  <2>1. UNCHANGED <<pc, op, nodes, todo, left>>
    BY <1>7, CallsAlone
  <2>2. CASE WorkerPop(w)
    <3>1. cq' = cq
      BY <2>2 DEF WorkerPop
    <3> QED BY <1>0, <1>6, <2>1, <2>2, <3>1, GivenKept
  <2>3. ASSUME ~WorkerPop(w), job' = job, cq' = cq PROVE Lefts'
    <3>1. bq' = bq
      BY <1>0, <1>7, <2>3, WorkEnds
    <3> QED BY <1>6, <2>1, <2>3, <3>1 DEF Given
  <2>4. ASSUME ~WorkerPop(w), NEW r, Complete(w, r), job' = [job EXCEPT ![w] = STOP] PROVE Lefts'
    <3>1. bq' = bq /\ wpc[w] \in {"send", "read"}
      BY <1>0, <1>7, <2>4, WorkEnds
    <3>2. PICK u \in User : u = job[w].user
      BY <1>0, <3>1, JobIs
    <3>3. PICK n \in Node : n = job[w].node
      BY <1>0, <3>1, JobIs
    <3>4. /\ n \in Pend(u) /\ Pend(u)' = Pend(u) \ {n}
          /\ \A v \in User : v # u => Pend(v)' = Pend(v)
      BY <1>0, <2>1, <2>4, <3>1, <3>2, <3>3, WorkOver
    <3>5. /\ cq'[u] = Append(cq[u], r) /\ \A v \in User : v # u => cq'[v] = cq[v]
      BY <1>0, <2>4, <3>2 DEF Complete, ResultTypes
    <3> SUFFICES ASSUME NEW v \in User, op[v] = "batch", pc[v] \in Under
                 PROVE  left[v] = Cardinality(Pend(v)') + Len(cq'[v])
      BY <2>1 DEF Lefts, Under
    <3>6. left[v] = Cardinality(Pend(v)) + Len(cq[v])
      BY <1>0 DEF Lefts
    <3>7. CASE v = u
      <4>1. Cardinality(Pend(u) \ {n}) = Cardinality(Pend(u)) - 1
        BY <1>p, <3>4, FS_RemoveElement
      <4>2. Len(cq'[u]) = Len(cq[u]) + 1
        <5>1. cq[u] \in Seq(Rv)
          BY <1>0 DEF ResultTypes
        <5> QED BY <3>5, <5>1
      <4>3. Cardinality(Pend(u)') = Cardinality(Pend(u)) - 1
        BY <3>4, <4>1
      <4>4. Cardinality(Pend(u)) \in Nat /\ Len(cq[u]) \in Nat
        BY <1>p
      <4>5. left[u] = Cardinality(Pend(u)') + Len(cq'[u])
        <5> DEFINE a == Cardinality(Pend(u))
                   b == Len(cq[u])
                   x == Cardinality(Pend(u)')
                   y == Len(cq'[u])
        <5>1. a \in Nat /\ b \in Nat /\ x = a - 1 /\ y = b + 1 /\ left[u] = a + b
          BY <3>6, <3>7, <4>2, <4>3, <4>4
        <5> HIDE DEF a, b, x, y
        <5>2. left[u] = x + y
          BY <5>1
        <5> QED BY <5>2 DEF x, y
      <4> QED BY <3>7, <4>5
    <3>8. CASE v # u
      BY <3>4, <3>5, <3>6, <3>8
    <3> QED BY <3>7, <3>8
  <2> QED BY <1>0, <1>7, <2>2, <2>3, <2>4, WorkEnds
<1>8. CASE Shutdown
  <2>1. UNCHANGED <<pc, op, todo, left, cq>>
    BY <1>8 DEF Shutdown
  <2> QED BY <1>0, <1>6, <1>8, <2>1, GivenKept
<1>9. CASE (\E n \in Node : NodeDropped(n)) \/ ShutdownJoin \/ UNCHANGED vars
  <2>1. UNCHANGED <<pc, op, todo, left, cq, bq, job>>
    BY <1>9 DEF NodeDropped, ShutdownJoin, vars
  <2> QED BY <1>6, <2>1 DEF Given
<1>10. ASSUME NEW u \in User, Batch(u) \/ Scan(u) \/ Begin(u) PROVE Lefts'
  BY <1>2, <1>3, <1>4, <1>5, <1>10
<1> QED BY <1>7, <1>8, <1>9, <1>10 DEF Next

\* Only the end of a work changes what a call waits for.
LEMMA PendStays ==
  ASSUME IInv, [Next]_vars, NEW v \in User, op[v] = "batch", pc[v] \in Under, pc'[v] \in Under
  PROVE  \/ Pend(v)' = Pend(v)
         \/ \E w \in Worker : \E r : Work(w) /\ Complete(w, r) /\ job[w].user = v
<1> USE DEF workers, results, workQ, nodeState, net
<1>0. TypeOK /\ CallTypes /\ WorkerTypes /\ Creation /\ Jobs /\ Phases
  BY DEF IInv, TypeOK
<1>1. ASSUME NEW u \in User, Batch(u) \/ Scan(u) \/ Begin(u) PROVE Pend(v)' = Pend(v)
  <2>1. CASE BatchPush(u)
    BY <2>1, PushPend
  <2>2. CASE BatchSplit(u) \/ BatchReturn(u)
    <3>1. v # u
      BY <1>0, <2>2 DEF BatchSplit, BatchReturn, Goto, CallTypes, Under
    <3>2. UNCHANGED <<job, bq>> /\ todo'[v] = todo[v]
      BY <1>0, <2>2, <3>1 DEF BatchSplit, BatchReturn, CallTypes
    <3> QED BY <3>2 DEF Pend
  <2>3. CASE ~BatchPush(u) /\ ~BatchSplit(u) /\ ~BatchReturn(u)
    <3>1. todo'[v] = todo[v]
      BY <1>1, <2>3, Quiet
    <3>2. job' = job /\ bq' = bq
      <4>1. LazyCreate(u) => bq' = bq
        BY <1>0 DEF LazyCreate, Creation
      <4> QED BY <1>0, <1>1, <2>3, <4>1, Apart
    <3> QED BY <3>1, <3>2 DEF Pend
  <2> QED BY <2>1, <2>2, <2>3
<1>2. ASSUME todo' = todo, \A k : k # STOP => (Given(k)' <=> Given(k)) PROVE Pend(v)' = Pend(v)
  <2>1. \A n : n \in Pend(v)' <=> n \in Pend(v)
    BY <1>2, ItemIs, PendIs, PendIsNext
  <2> QED BY <2>1
<1>3. ASSUME NEW w \in Worker, Work(w)
      PROVE  \/ Pend(v)' = Pend(v)
             \/ \E r : Work(w) /\ Complete(w, r) /\ job[w].user = v
  <2>1. todo' = todo
    BY <1>3, CallsAlone
  <2>2. CASE WorkerPop(w)
    BY <1>0, <1>2, <2>1, <2>2, GivenKept
  <2>3. ASSUME ~WorkerPop(w), job' = job PROVE Pend(v)' = Pend(v)
    <3>1. bq' = bq
      BY <1>0, <1>3, <2>3, WorkEnds
    <3> QED BY <2>1, <2>3, <3>1 DEF Pend
  <2>4. ASSUME ~WorkerPop(w), NEW r, Complete(w, r), job' = [job EXCEPT ![w] = STOP],
               job[w].user # v
        PROVE  Pend(v)' = Pend(v)
    <3>1. bq' = bq /\ wpc[w] \in {"send", "read"}
      BY <1>0, <1>3, <2>4, WorkEnds
    <3>2. PICK u : u = job[w].user
      OBVIOUS
    <3>3. PICK n : n = job[w].node
      OBVIOUS
    <3> QED BY <1>0, <2>1, <2>4, <3>1, <3>2, <3>3, WorkOver
  <2> QED BY <1>0, <1>3, <2>2, <2>3, <2>4, WorkEnds
<1>4. CASE Shutdown
  <2>1. todo' = todo
    BY <1>4 DEF Shutdown
  <2> QED BY <1>0, <1>2, <1>4, <2>1, GivenKept
<1>5. CASE (\E n \in Node : NodeDropped(n)) \/ ShutdownJoin \/ UNCHANGED vars
  <2>1. UNCHANGED <<todo, bq, job>>
    BY <1>5 DEF NodeDropped, ShutdownJoin, vars
  <2> QED BY <2>1 DEF Pend
<1> QED BY <1>1, <1>3, <1>4, <1>5 DEF Next

\* The nodes of a call that has work stay.
LEMMA NodesStay ==
  ASSUME IInv, [Next]_vars, NEW k, Given(k), k # STOP
  PROVE  nodes'[k.user] = nodes[k.user]
<1>0. /\ TypeOK /\ CallTypes /\ Jobs /\ Phases
      /\ k.user \in User /\ k.node \in Node /\ k = Item(k.user, k.node) /\ Awaited(k)
  BY GivenIs DEF IInv, TypeOK
<1>1. ASSUME NEW u \in User, Batch(u) \/ Scan(u) \/ Begin(u) PROVE nodes'[k.user] = nodes[k.user]
  <2>1. CASE k.user # u
    BY <1>0, <1>1, <2>1, Apart
  <2>2. CASE k.user = u
    <3>1. op[u] = "batch" /\ pc[u] \in Under
      BY <1>0, <2>2 DEF Awaited
    <3>2. BatchSplit(u) \/ BatchPush(u) => nodes' = nodes
      BY DEF BatchSplit, BatchPush
    <3>3. ~BatchReturn(u)
      <4>1. ASSUME BatchReturn(u) PROVE FALSE
        <5>1. left[u] = 0
          BY <4>1 DEF BatchReturn
        <5>2. ~Given(Item(u, k.node))
          BY <1>0, <3>1, <5>1, ReturnDone
        <5> QED BY <1>0, <2>2, <5>2
      <4> QED BY <4>1
    <3>4. CASE ~BatchSplit(u) /\ ~BatchPush(u) /\ ~BatchReturn(u)
      BY <1>1, <2>2, <3>1, <3>4, Quiet
    <3> QED BY <3>2, <3>3, <3>4
  <2> QED BY <2>1, <2>2
<1> QED BY <1>1, CallsAlone DEF Next

-----------------------------------------------------------------------------
(* Replies                                                                 *)

\* What Wires says of a worker.
Wire(w) ==
    \/ wfd[w] \in tainted /\ job[w].user \in spoiled
    \/ Reply(conn[wfd[w]], Asked(job[w].user, job[w].node))

\* What a connection brings in the next state is told by the rest of a reply.
LEMMA WireNext ==
  ASSUME NEW w, NEW u, u = job'[w].user, NEW n, n = job'[w].node,
         NEW c, c = conn'[wfd'[w]], NEW S, S = Asked(u, n), nodes'[u] = nodes[u], Reply(c, S)
  PROVE  Wire(w)'
<1>1. S = {d \in Digest : d \in DOMAIN nodes'[u] /\ nodes'[u][d] = n}
  BY DEF Asked
<1>2. S = Asked(job[w].user, job[w].node)'
  BY <1>1 DEF Asked
<1>3. Reply(conn'[wfd'[w]], S)
  OBVIOUS
<1>4. Reply(conn[wfd[w]], Asked(job[w].user, job[w].node))'
  BY <1>2, <1>3
<1> QED BY <1>4 DEF Wire

\* It is said again after a step that leaves the worker, its connection and the
\* nodes of its call alone.
LEMMA WireSame ==
  ASSUME NEW w, Wire(w), wfd'[w] = wfd[w], job'[w] = job[w], conn'[wfd[w]] = conn[wfd[w]],
         wfd[w] \in tainted => wfd[w] \in tainted', spoiled \subseteq spoiled',
         nodes'[job[w].user] = nodes[job[w].user]
  PROVE  Wire(w)'
<1>1. CASE wfd[w] \in tainted /\ job[w].user \in spoiled
  BY <1>1 DEF Wire
<1>2. CASE Reply(conn[wfd[w]], Asked(job[w].user, job[w].node))
  BY <1>2, WireNext
<1> QED BY <1>1, <1>2 DEF Wire

\* The work of a worker is for a call whose nodes stay.
LEMMA ReaderIs ==
  ASSUME IInv, [Next]_vars, NEW w \in Worker, wpc[w] = "read"
  PROVE  /\ job[w].user \in User /\ job[w].node \in Node /\ Given(job[w]) /\ job[w] # STOP
         /\ nodes'[job[w].user] = nodes[job[w].user]
         /\ wfd[w] \in open /\ wfd[w] \in Fd /\ ~Pooled(wfd[w]) /\ Wire(w)
<1>1. /\ job[w].user \in User /\ job[w].node \in Node /\ job[w] # STOP
  BY JobIs DEF IInv, TypeOK
<1>2. Given(job[w])
  BY DEF Given
<1>3. wfd[w] \in open /\ wfd[w] \in Fd /\ ~Pooled(wfd[w]) /\ Wire(w)
  BY DEF IInv, TypeOK, NetTypes, Fds, Wires, Wire
<1> QED BY <1>1, <1>2, <1>3, NodesStay

\* A worker that reads on what it read, whoever takes, writes, reads or closes
\* another connection.
Undisturbed(w) ==
    /\ wpc[w] = "read" /\ wfd'[w] = wfd[w] /\ job'[w] = job[w]
    /\ conn'[wfd[w]] = conn[wfd[w]] /\ (wfd[w] \in tainted => wfd[w] \in tainted')

\* What Wires says of such a worker is still true.
LEMMA WireApart ==
  ASSUME IInv, [Next]_vars, NEW w \in Worker, Undisturbed(w), spoiled \subseteq spoiled'
  PROVE  Wire(w)'
<1>1. nodes'[job[w].user] = nodes[job[w].user] /\ Wire(w)
  BY ReaderIs DEF Undisturbed
<1> QED BY <1>1, WireSame DEF Undisturbed

\* Users' steps leave what workers read alone.
LEMMA ReadersUser ==
  ASSUME IInv, [Next]_vars, NEW u \in User, Batch(u) \/ Scan(u) \/ Begin(u),
         NEW w \in Worker, wpc[w] = "read" \/ wpc'[w] = "read"
  PROVE  Undisturbed(w) /\ wpc'[w] = "read"
<1> USE DEF workers, results, workQ, nodeState, net
<1>0. TypeOK /\ NetTypes /\ CallTypes /\ WorkerTypes /\ Phases /\ Pools /\ Fds
  BY DEF IInv, TypeOK
<1>c. Creation
  BY DEF IInv
<1>1. wpc[w] = "read" /\ wpc'[w] = "read" /\ wfd' = wfd /\ job' = job
  <2>1. ~LazyCreate(u)
    <3>1. LazyCreate(u) => wpc[w] = "none" /\ wpc'[w] = "pop"
      BY <1>c DEF LazyCreate, Creation
    <3> QED BY <3>1
  <2> QED BY <1>0, <2>1, Apart
<1>2. wfd[w] \in open /\ wfd[w] \in Fd /\ ~Pooled(wfd[w])
  BY <1>1, ReaderIs
<1>a. ASSUME NEW f \in Fd, f # wfd[w],
             \A g \in Fd \ {f} : conn'[g] = conn[g] /\ (g \in tainted => g \in tainted')
      PROVE  Undisturbed(w)
  BY <1>1, <1>2, <1>a DEF Undisturbed
<1>b. ASSUME UNCHANGED net PROVE Undisturbed(w)
  BY <1>1, <1>b DEF Undisturbed
<1>3. CASE Batch(u) \/ Begin(u)
  <2>1. UNCHANGED net
    BY <1>3 DEF Batch, LazyStart, LazyCreate, BatchNode, BatchNoNode, BatchSplit, BatchPush,
       BatchWait, BatchReturn, Begin
  <2> QED BY <1>1, <1>b, <2>1
<1>n. pc[u] \in {"scan", "scanread"} => nodes[u][1] \in Node
  <2>1. pc[u] \in {"scan", "scanread"} => nodes[u] \in Seq(Node) /\ Len(nodes[u]) = 1
    BY <1>0 DEF Phases, Phase, CallTypes
  <2> QED BY <2>1
<1>4. CASE ScanSend(u)
  <2> DEFINE n == nodes[u][1]
  <2>1. n \in Node
    BY <1>n, <1>4 DEF ScanSend
  <2>2. ASSUME NEW f \in FdOf(n), Take(n), Close(f) \/ \E rep : Write(f, rep) PROVE Undisturbed(w)
    <3>1. f \in Fd /\ (Pooled(f) \/ f \notin open)
      BY <1>0, <2>1, <2>2, PoolTake
    <3>2. \A g \in Fd \ {f} : conn'[g] = conn[g] /\ (g \in tainted => g \in tainted')
      BY <1>0, <2>2, <3>1, NetOthers
    <3> HIDE DEF n
    <3> QED BY <1>2, <1>a, <3>1, <3>2
  <2> QED BY <1>1, <1>4, <1>b, <2>2 DEF ScanSend
<1>5. CASE ScanFails(u) \/ ScanRead(u)
  <2>1. pc[u] = "scanread" /\ fd[u] \in Fd /\ fd[u] # wfd[w]
    BY <1>0, <1>1, <1>5 DEF ScanFails, ScanRead, Fds, NetTypes
  <2>2. \A g \in Fd \ {fd[u]} : conn'[g] = conn[g] /\ (g \in tainted => g \in tainted')
    <3>1. CASE ScanFails(u)
      BY <1>0, <2>1, <3>1, NetOthers DEF ScanFails
    <3>2. CASE ScanRead(u)
      <4>1. (ProtoRead(fd[u]) /\ tainted \subseteq tainted') \/ Close(fd[u])
        BY <3>2 DEF ScanRead, ScanEnd
      <4>2. CASE ProtoRead(fd[u]) /\ tainted \subseteq tainted'
        BY <1>0, <2>1, <4>2, NetOthers
      <4>3. CASE Close(fd[u])
        BY <1>0, <2>1, <4>3, NetOthers
      <4> QED BY <4>1, <4>2, <4>3
    <3> QED BY <1>5, <3>1, <3>2
  <2> QED BY <1>1, <1>a, <2>1, <2>2
<1>6. CASE ScanRandom(u) \/ ScanByName(u) \/ ScanReserve(u)
  <2>1. UNCHANGED net
    BY <1>6 DEF ScanRandom, ScanByName, ScanReserve
  <2> QED BY <1>1, <1>b, <2>1
<1> QED BY <1>1, <1>3, <1>4, <1>5, <1>6 DEF Scan

\* A worker's steps leave what the others read alone.
LEMMA ReadersWork ==
  ASSUME IInv, [Next]_vars, NEW x \in Worker, Work(x),
         NEW w \in Worker, w # x, wpc[w] = "read" \/ wpc'[w] = "read"
  PROVE  Undisturbed(w) /\ wpc'[w] = "read"
<1> USE DEF workers, results, workQ, nodeState, net
<1>0. TypeOK /\ NetTypes /\ WorkerTypes /\ Creation /\ Pools /\ Fds
  BY DEF IInv, TypeOK
<1>1. wpc[w] = "read" /\ wpc'[w] = "read" /\ wfd'[w] = wfd[w] /\ job'[w] = job[w]
  BY <1>0 DEF Work, WorkerPop, WorkerSend, WorkerFails, WorkerRead, Complete, WorkerTypes
<1>2. wfd[w] \in open /\ wfd[w] \in Fd /\ ~Pooled(wfd[w])
  BY <1>1, ReaderIs
<1>a. ASSUME NEW f \in Fd, f # wfd[w],
             \A g \in Fd \ {f} : conn'[g] = conn[g] /\ (g \in tainted => g \in tainted')
      PROVE  Undisturbed(w)
  BY <1>1, <1>2, <1>a DEF Undisturbed
<1>3. CASE UNCHANGED net
  BY <1>1, <1>3 DEF Undisturbed
<1>4. ASSUME NEW n \in Node, NEW f \in FdOf(n), Take(n), Close(f) \/ \E rep : Write(f, rep)
      PROVE  Undisturbed(w)
  <2>1. f \in Fd /\ (Pooled(f) \/ f \notin open)
    BY <1>0, <1>4, PoolTake
  <2>2. \A g \in Fd \ {f} : conn'[g] = conn[g] /\ (g \in tainted => g \in tainted')
    BY <1>0, <1>4, <2>1, NetOthers
  <2> QED BY <1>2, <1>a, <2>1, <2>2
<1>5. ASSUME wpc[x] = "read", Close(wfd[x]) \/ (ProtoRead(wfd[x]) /\ tainted' = tainted)
      PROVE  Undisturbed(w)
  <2>1. wfd[x] \in Fd /\ wfd[x] # wfd[w]
    BY <1>0, <1>1, <1>5 DEF Fds, NetTypes
  <2>2. \A g \in Fd \ {wfd[x]} : conn'[g] = conn[g] /\ (g \in tainted => g \in tainted')
    BY <1>0, <1>5, <2>1, NetOthers
  <2> QED BY <1>a, <2>1, <2>2
<1>6. CASE WorkerSend(x)
  <2>1. PICK n \in Node : n = job[x].node
    BY <1>0, <1>6, JobIs DEF WorkerSend
  <2> QED BY <1>1, <1>3, <1>4, <1>6, <2>1 DEF WorkerSend
<1>7. WorkerPop(x) => UNCHANGED net
  BY DEF WorkerPop
<1>8. WorkerFails(x) => wpc[x] = "read" /\ Close(wfd[x])
  BY DEF WorkerFails
<1>9. CASE WorkerRead(x)
  <2>1. wpc[x] = "read" /\ (Close(wfd[x]) \/ (ProtoRead(wfd[x]) /\ tainted' = tainted))
    BY <1>9 DEF WorkerRead, WorkerEnd
  <2> QED BY <1>1, <1>5, <2>1
<1> QED BY <1>1, <1>3, <1>5, <1>6, <1>7, <1>8, <1>9 DEF Work

\* A worker's steps write and read replies.
LEMMA WiresWork ==
  ASSUME IInv, [Next]_vars, NEW x \in Worker, Work(x), NEW w \in Worker, wpc'[w] = "read"
  PROVE  Wire(w)'
<1> USE DEF workers, results, workQ, nodeState, net
<1>0. /\ TypeOK /\ NetTypes /\ CallTypes /\ WorkerTypes /\ Creation /\ Pools /\ Fds /\ PoolClean
      /\ nodes' = nodes /\ spoiled \subseteq spoiled'
  <2>1. spoiled \subseteq spoiled'
    BY DEF Work, WorkerPop, WorkerSend, WorkerFails, WorkerRead
  <2> QED BY <2>1, CallsAlone DEF IInv, TypeOK
<1>1. CASE w # x
  BY <1>0, <1>1, ReadersWork, WireApart
<1>2. CASE w = x /\ WorkerSend(x)
  <2>0. PICK u \in User : u = job[x].user
    BY <1>0, <1>2, JobIs DEF WorkerSend
  <2>1. PICK n \in Node : n = job[x].node
    BY <1>0, <1>2, JobIs DEF WorkerSend
  <2>2. PICK f \in FdOf(n) : \E rep \in Replies(Asked(u, n)) :
          /\ Take(n) /\ Write(f, rep) /\ wfd' = [wfd EXCEPT ![x] = f] /\ job' = job
          /\ spoiled' = IF conn[f] # <<>> THEN spoiled \cup {u} ELSE spoiled
    <3>1. \A r : ~Complete(x, r)
      BY <1>0, <1>2 DEF Complete, WorkerTypes
    <3> QED BY <1>2, <2>0, <2>1, <3>1 DEF WorkerSend
  <2>3. PICK rep \in Replies(Asked(u, n)) :
          /\ Take(n) /\ Write(f, rep) /\ wfd' = [wfd EXCEPT ![x] = f] /\ job' = job
          /\ spoiled' = IF conn[f] # <<>> THEN spoiled \cup {u} ELSE spoiled
    BY <2>2
  <2>4. wfd'[w] = f /\ job'[w] = job[x]
    BY <1>0, <1>2, <2>3 DEF WorkerTypes
  <2>5. f \in Fd /\ conn[f] \in Seq(Seq(Msgs)) /\ conn'[f] = conn[f] \o rep /\ tainted' = tainted
    BY <1>0, <2>3, FdOfIs DEF Write, NetTypes
  <2>6. CASE conn[f] # <<>>
    <3>1. f \in open
      BY <1>0, <2>5, <2>6 DEF Fds
    <3>2. Pooled(f)
      BY <1>0, <2>3, <3>1, PoolTake
    <3>3. f \in tainted
      BY <1>0, <2>6, <3>2, CleanIs
    <3> QED BY <2>0, <2>3, <2>4, <2>5, <2>6, <3>3 DEF Wire
  <2>7. CASE conn[f] = <<>>
    <3>1. Asked(u, n) \in SUBSET Digest
      BY DEF Asked
    <3>2. rep \in Seq(Seq(Msgs)) /\ Reply(rep, Asked(u, n))
      BY <2>3, <3>1, RepliesAre
    <3>3. conn'[f] = rep
      BY <2>5, <2>7, <3>2
    <3>4. job'[w].user = u /\ job'[w].node = n /\ conn'[wfd'[w]] = rep
      BY <2>0, <2>1, <2>4, <3>3
    <3> QED BY <1>0, <3>2, <3>4, WireNext
  <2> QED BY <2>6, <2>7
<1>3. CASE w = x /\ WorkerRead(x)
  <2> DEFINE p == Head(conn[wfd[x]])
  <2>1. wpc[x] = "read" /\ conn[wfd[x]] # <<>> /\ spoiled' = spoiled
    BY <1>3 DEF WorkerRead
  <2>2. ~BatchDone(p) /\ ProtoRead(wfd[x]) /\ UNCHANGED <<workers, open, tainted>>
    <3>1. \A r : ~Complete(x, r)
      BY <1>0, <1>3 DEF Complete, WorkerTypes
    <3> QED BY <1>3, <3>1 DEF WorkerRead
  <2>3. /\ job[w].user \in User /\ job[w].node \in Node /\ wfd[w] \in Fd /\ Wire(w)
    BY <1>3, <2>1, ReaderIs
  <2>4. conn'[wfd[w]] = Tail(conn[wfd[w]]) /\ conn[wfd[w]] \in Seq(Seq(Msgs))
    BY <1>0, <1>3, <2>2, <2>3, NetOthers DEF NetTypes
  <2>5. CASE wfd[w] \in tainted /\ job[w].user \in spoiled
    BY <2>1, <2>2, <2>5 DEF Wire
  <2>6. CASE Reply(conn[wfd[w]], Asked(job[w].user, job[w].node))
    <3>1. Asked(job[w].user, job[w].node) \in SUBSET Digest
      BY DEF Asked
    <3>2. Reply(Tail(conn[wfd[w]]), Asked(job[w].user, job[w].node))
      BY <1>3, <2>1, <2>2, <2>4, <2>6, <3>1, ReplyRead
    <3>3. /\ conn'[wfd'[w]] = Tail(conn[wfd[w]]) /\ job' = job
          /\ nodes'[job[w].user] = nodes[job[w].user]
      BY <1>0, <2>2, <2>4
    <3> QED BY <3>2, <3>3, WireNext
  <2> QED BY <2>3, <2>5, <2>6 DEF Wire
<1>4. WorkerPop(x) => wpc'[x] # "read"
  BY <1>0 DEF WorkerPop, WorkerTypes
<1>5. WorkerFails(x) => wpc'[x] # "read"
  BY <1>0 DEF WorkerFails, Complete, WorkerTypes
<1> QED BY <1>1, <1>2, <1>3, <1>4, <1>5 DEF Work

\* Every step keeps what workers read replies to what they asked, or marked.
LEMMA WiresStep ==
  ASSUME IInv, [Next]_vars
  PROVE  Wires'
<1> USE DEF workers, results, workQ, nodeState, net
<1> SUFFICES ASSUME NEW w \in Worker, wpc'[w] = "read" PROVE Wire(w)'
  BY DEF Wires, Wire
<1>1. CASE (\E n \in Node : NodeDropped(n)) \/ Shutdown \/ ShutdownJoin \/ UNCHANGED vars
  <2>1. UNCHANGED <<net, wpc, wfd, job, spoiled>>
    BY <1>1 DEF NodeDropped, Shutdown, ShutdownJoin, vars
  <2> QED BY <2>1, ReaderIs, WireSame
<1>2. ASSUME NEW u \in User, Batch(u) \/ Scan(u) \/ Begin(u) PROVE Wire(w)'
  <2>1. Undisturbed(w) /\ spoiled' = spoiled
    BY <1>2, ReadersUser, Apart DEF IInv
  <2> QED BY <2>1, WireApart
<1> QED BY <1>1, <1>2, WiresWork DEF Next

-----------------------------------------------------------------------------
(* Callbacks                                                               *)

\* What Called says of a call in the next state, node by node.
LEMMA CalledNext ==
  ASSUME NEW u, NEW d, NEW n,
         got'[u][d] <= 1, d \notin Found => got'[u][d] = 0,
         pc'[u] \in Under => n = nodes'[u][d] /\ Fetched(u, d, n)',
         pc'[u] = "done" /\ rv'[u] = "OK" /\ d \in Found => got'[u][d] = 1
  PROVE  Called(u, d)'
<1>1. CASE pc'[u] \in Under
  <2>1. Fetched(u, d, nodes[u][d])'
    BY <1>1 DEF Fetched, Reads, Item
  <2> QED BY <1>1, <2>1 DEF Called, Under
<1>2. CASE pc'[u] \notin Under
  BY <1>2 DEF Called, Under
<1> QED BY <1>1, <1>2

\* A step that brings a call nothing and takes nothing from it keeps what it has
\* been called back for.
LEMMA CalledSame ==
  ASSUME NEW u, NEW d, NEW n, Called(u, d), got'[u][d] = got[u][d],
         pc'[u] \in Under =>
             /\ pc[u] \in Under /\ nodes'[u] = nodes[u] /\ n = nodes[u][d]
             /\ n \in Pend(u)' <=> n \in Pend(u)
             /\ (rv'[u] = "OK" /\ \A k \in DOMAIN cq'[u] : cq'[u][k] = "OK") =>
                  (rv[u] = "OK" /\ \A k \in DOMAIN cq[u] : cq[u][k] = "OK")
             /\ \A w \in Worker : Reads(w, u, n)' <=> Reads(w, u, n)
             /\ \A w \in Worker : Reads(w, u, n) => conn'[wfd'[w]] = conn[wfd[w]],
         pc'[u] = "done" /\ rv'[u] = "OK" => pc[u] = "done" /\ rv[u] = "OK"
  PROVE  Called(u, d)'
<1>1. ASSUME pc'[u] \in Under PROVE Fetched(u, d, n)'
  <2>1. Fetched(u, d, n)
    BY <1>1 DEF Called
  <2>2. (n \in Pend(u)' /\ \A w \in Worker : ~Reads(w, u, n)') => got'[u][d] = 0
    BY <1>1, <2>1 DEF Fetched
  <2>3. ASSUME NEW w \in Worker, Reads(w, u, n)', NEW c, c = conn'[wfd'[w]], Coming(c, d)
        PROVE  got'[u][d] = 0
    BY <1>1, <2>1, <2>3 DEF Fetched
  <2>4. (n \notin Pend(u)' /\ rv'[u] = "OK" /\ d \in Found
           /\ \A k \in DOMAIN cq'[u] : cq'[u][k] = "OK") => got'[u][d] = 1
    BY <1>1, <2>1 DEF Fetched
  <2>5. \A w \in Worker : Reads(w, u, n)' /\ Coming(conn[wfd[w]], d)' => got'[u][d] = 0
    BY <2>3
  <2> QED BY <2>2, <2>4, <2>5 DEF Fetched
<1>2. /\ got[u][d] <= 1 /\ (d \notin Found => got[u][d] = 0)
      /\ pc[u] = "done" /\ rv[u] = "OK" /\ d \in Found => got[u][d] = 1
  BY DEF Called
<1>3. pc'[u] \in Under => n = nodes'[u][d]
  OBVIOUS
<1> QED BY <1>1, <1>2, <1>3, CalledNext

\* A call under way reads at its own nodes only; who reads for it stays.
LEMMA ReadsSame ==
  ASSUME IInv, [Next]_vars, NEW u \in User, NEW n, NEW w \in Worker,
         (Undisturbed(w) /\ wpc'[w] = "read") \/ (wpc[w] # "read" /\ wpc'[w] # "read")
  PROVE  /\ Reads(w, u, n)' <=> Reads(w, u, n)
         /\ Reads(w, u, n) => conn'[wfd'[w]] = conn[wfd[w]]
<1>1. Item(u, n)' = Item(u, n)
  BY DEF Item
<1> QED BY <1>1 DEF Undisturbed, Reads, Item

\* What a batch under way has of its digests.
LEMMA UnderIs ==
  ASSUME IInv, NEW u \in User, op[u] = "batch", pc[u] \in Under, NEW d \in Digest
  PROVE  nodes[u] \in Seq(Node) /\ d \in DOMAIN nodes[u] /\ nodes[u][d] \in Node
<1>1. nodes[u] \in Seq(Node) /\ Len(nodes[u]) = MaxDigests
  BY DEF IInv, TypeOK, CallTypes, Phases, Phase
<1>2. DOMAIN nodes[u] = Digest
  BY <1>1 DEF Digest
<1> QED BY <1>1, <1>2

\* Users' steps keep what the batches have been called back for.
LEMMA CallsUser ==
  ASSUME IInv, [Next]_vars, NEW v \in User, Batch(v) \/ Scan(v) \/ Begin(v),
         NEW u \in User \ spoiled, op[u] = "batch", NEW d \in Digest
  PROVE  Called(u, d)'
<1> USE DEF workers, results, workQ, nodeState, net
<1>0. /\ TypeOK /\ CallTypes /\ ResultTypes /\ WorkerTypes /\ Creation /\ Phase(u) /\ Called(u, d)
      /\ got' = got /\ op' = op
  BY Apart DEF IInv, TypeOK, Phases, Calls
<1>1. \A n : \A w \in Worker : /\ Reads(w, u, n)' <=> Reads(w, u, n)
                               /\ Reads(w, u, n) => conn'[wfd'[w]] = conn[wfd[w]]
  <2> TAKE n
  <2> TAKE w \in Worker
  <2>1. (Undisturbed(w) /\ wpc'[w] = "read") \/ (wpc[w] # "read" /\ wpc'[w] # "read")
    BY ReadersUser
  <2> QED BY <2>1, ReadsSame
<1>2. ASSUME pc[u] \in Under, pc'[u] \in Under PROVE Pend(u)' = Pend(u)
  <2>1. \A w \in Worker : \A r : ~Complete(w, r) \/ wpc[w] \notin {"send", "read"}
    <3>1. job' = job
      BY <1>0, Apart
    <3>2. \A w \in Worker : \A r : Complete(w, r) => job'[w] = STOP
      BY <1>0 DEF Complete, WorkerTypes
    <3> QED BY <1>0, <3>1, <3>2 DEF Creation
  <2>2. \A w \in Worker : \A r : Work(w) /\ Complete(w, r) => wpc[w] \in {"send", "read"}
    <3>1. \A w \in Worker : \A r : WorkerPop(w) => ~Complete(w, r)
      BY <1>0 DEF WorkerPop, Complete, WorkerTypes
    <3> QED BY <1>0, <3>1, WorkEnds
  <2> QED BY <1>0, <1>2, <2>1, <2>2, PendStays
<1>3. PICK n : n = nodes[u][d]
  OBVIOUS
<1>4. CASE v # u
  <2>1. /\ pc'[u] = pc[u] /\ nodes'[u] = nodes[u] /\ rv'[u] = rv[u] /\ cq'[u] = cq[u]
    BY <1>0, <1>4, Apart
  <2> QED BY <1>0, <1>1, <1>2, <1>3, <2>1, CalledSame
<1>5. CASE v = u
  <2> USE DEF Goto, Result
  <2>1. ~Scan(u)
    BY <1>0 DEF Phase, Scan, ScanRandom, ScanByName, ScanReserve, ScanSend, ScanFails,
       ScanRead, Before, Under
  <2>2. CASE Begin(u) \/ LazyStart(u) \/ LazyCreate(u) \/ BatchNode(u) \/ BatchNoNode(u)
    <3>1. pc'[u] \notin Under /\ ~(pc'[u] = "done" /\ rv'[u] = "OK")
      BY <1>0, <2>2 DEF Begin, LazyStart, LazyCreate, BatchNode, BatchNoNode, CallTypes,
         Under
    <3> QED BY <1>0, <3>1, CalledSame
  <2>3. CASE BatchSplit(u)
    <3>1. /\ pc[u] = "node" /\ pc'[u] = "push" /\ nodes' = nodes /\ Len(nodes[u]) = MaxDigests
          /\ todo'[u] = SetToSeq(ToSet(nodes[u]))
      BY <1>0, <2>3 DEF BatchSplit, CallTypes
    <3>2. got[u][d] = 0
      BY <1>0, <3>1 DEF Phase, Before
    <3>3. n \in ToSet(nodes[u])
      <4>1. nodes[u] \in Seq(Node) /\ d \in DOMAIN nodes[u]
        BY <1>0, <3>1 DEF CallTypes, Digest
      <4> QED BY <1>3, <4>1 DEF ToSet
    <3>4. n \in ToSet(todo'[u])
      <4> DEFINE S == ToSet(nodes[u])
      <4>1. S \in SUBSET Node
        BY <1>0 DEF CallTypes, ToSet
      <4>2. IsFiniteSet(S)
        BY <4>1, Finites, FS_Subset
      <4>3. n \in S
        BY <3>3
      <4> HIDE DEF S
      <4>4. ToSet(SetToSeq(S)) = S
        BY <4>2, SeqOfSet
      <4> QED BY <3>1, <4>3, <4>4 DEF S
    <3>5. n \in Pend(u)'
      BY <3>4, PendIsNext
    <3>6. Fetched(u, d, n)'
      BY <1>0, <3>2, <3>5 DEF Fetched
    <3> QED BY <1>0, <1>3, <3>1, <3>2, <3>6, CalledNext
  <2>4. CASE BatchPush(u)
    <3>1. /\ pc[u] \in Under /\ pc'[u] # "done" /\ nodes' = nodes /\ rv' = rv /\ cq' = cq
      BY <1>0, <2>4 DEF BatchPush, CallTypes, Under
    <3> QED BY <1>0, <1>1, <1>2, <1>3, <3>1, CalledSame
  <2>5. CASE BatchWait(u)
    <3>1. /\ pc[u] = "wait" /\ pc' = pc /\ nodes' = nodes /\ cq[u] # <<>> /\ cq[u] \in Seq(Rv)
          /\ cq'[u] = Tail(cq[u])
          /\ rv'[u] = IF Head(cq[u]) = "OK" THEN rv[u] ELSE Head(cq[u])
      BY <1>0, <2>5 DEF BatchWait, CallTypes, ResultTypes
    <3> DEFINE l == Len(cq[u])
    <3>2. /\ Head(cq[u]) = cq[u][1] /\ l \in Nat \ {0} /\ DOMAIN cq[u] = 1 .. l
          /\ DOMAIN cq'[u] = 1 .. l - 1 /\ \A k \in 1 .. l - 1 : cq'[u][k] = cq[u][k + 1]
      BY <3>1, TailIs
    <3> HIDE DEF l
    <3>3. ASSUME rv'[u] = "OK", \A k \in DOMAIN cq'[u] : cq'[u][k] = "OK"
          PROVE  rv[u] = "OK" /\ \A k \in DOMAIN cq[u] : cq[u][k] = "OK"
      <4>1. cq[u][1] = "OK" /\ rv[u] = "OK"
        BY <3>1, <3>2, <3>3
      <4>2. ASSUME NEW k \in DOMAIN cq[u] PROVE cq[u][k] = "OK"
        <5>1. CASE k = 1
          BY <4>1, <5>1
        <5>2. CASE k # 1
          <6>1. k - 1 \in DOMAIN cq'[u] /\ cq'[u][k - 1] = cq[u][k]
            BY <3>2, <5>2
          <6> QED BY <3>3, <6>1
        <5> QED BY <5>1, <5>2
      <4> QED BY <4>1, <4>2
    <3>4. pc[u] \in Under /\ pc'[u] \in Under /\ pc'[u] # "done"
      BY <3>1 DEF Under
    <3>5. Pend(u)' = Pend(u)
      BY <1>2, <3>4
    <3> QED BY <1>0, <1>1, <1>3, <3>1, <3>3, <3>4, <3>5, CalledSame
  <2>6. CASE BatchReturn(u)
    <3>1. pc[u] = "wait" /\ pc'[u] = "done" /\ left[u] = 0 /\ rv' = rv
      BY <1>0, <2>6 DEF BatchReturn, CallTypes
    <3>2. Pend(u) = {} /\ cq[u] = <<>>
      BY <3>1, ReturnDone DEF Under
    <3>3. rv[u] = "OK" /\ d \in Found => got[u][d] = 1
      <4>1. Fetched(u, d, nodes[u][d])
        BY <1>0, <3>1 DEF Called, Under
      <4>2. nodes[u][d] \notin Pend(u) /\ \A k \in DOMAIN cq[u] : cq[u][k] = "OK"
        BY <3>2
      <4> QED BY <4>1, <4>2 DEF Fetched
    <3>4. pc'[u] \notin Under
      BY <3>1 DEF Under
    <3>5. got[u][d] <= 1 /\ (d \notin Found => got[u][d] = 0)
      BY <1>0 DEF Called
    <3> QED BY <1>0, <3>1, <3>3, <3>4, <3>5, CalledNext
  <2> QED BY <1>5, <2>1, <2>2, <2>3, <2>4, <2>5, <2>6 DEF Batch
<1> QED BY <1>4, <1>5

\* Who reads for a call stays when one worker does not read for it and the
\* others are left alone.
LEMMA ReadsButOne ==
  ASSUME NEW u, NEW n, NEW x \in Worker,
         wpc[x] # "read" \/ job[x] # Item(u, n), wpc'[x] # "read" \/ job'[x] # Item(u, n),
         \A w \in Worker \ {x} :
             /\ (wpc'[w] = "read" /\ job'[w] = Item(u, n)) <=> Reads(w, u, n)
             /\ Reads(w, u, n) => conn'[wfd'[w]] = conn[wfd[w]]
  PROVE  \A w \in Worker : /\ Reads(w, u, n)' <=> Reads(w, u, n)
                           /\ Reads(w, u, n) => conn'[wfd'[w]] = conn[wfd[w]]
<1> TAKE w \in Worker
<1>1. CASE w # x
  <2>1. Reads(w, u, n)' <=> (wpc'[w] = "read" /\ job'[w] = Item(u, n))
    BY DEF Reads, Item
  <2> QED BY <1>1, <2>1
<1>2. CASE w = x
  <2>1. ~Reads(w, u, n) /\ ~Reads(w, u, n)'
    BY <1>2 DEF Reads, Item
  <2> QED BY <2>1
<1> QED BY <1>1, <1>2

\* A work that goes on or ends with what it reads keeps what its call has been
\* called back for.
LEMMA CallsWork ==
  ASSUME IInv, [Next]_vars, NEW x \in Worker, Work(x),
         NEW u \in User \ spoiled, op[u] = "batch", NEW d \in Digest
  PROVE  Called(u, d)'
<1> USE DEF workers, results, workQ, nodeState, net
<1>0. /\ TypeOK /\ CallTypes /\ ResultTypes /\ WorkerTypes /\ NetTypes /\ Creation /\ Jobs
      /\ Phase(u) /\ Called(u, d)
      /\ pc' = pc /\ op' = op /\ nodes' = nodes /\ rv' = rv
  BY CallsAlone DEF IInv, TypeOK, Phases, Calls
<1>1. PICK n : n = nodes[u][d]
  OBVIOUS
<1>2. \A w \in Worker \ {x} :
          /\ (wpc'[w] = "read" /\ job'[w] = Item(u, n)) <=> Reads(w, u, n)
          /\ Reads(w, u, n) => conn'[wfd'[w]] = conn[wfd[w]]
  <2> TAKE w \in Worker \ {x}
  <2>1. (Undisturbed(w) /\ wpc'[w] = "read") \/ (wpc[w] # "read" /\ wpc'[w] # "read")
    BY ReadersWork
  <2>2. /\ Reads(w, u, n)' <=> Reads(w, u, n)
        /\ Reads(w, u, n) => conn'[wfd'[w]] = conn[wfd[w]]
    BY <2>1, ReadsSame
  <2>3. Reads(w, u, n)' <=> (wpc'[w] = "read" /\ job'[w] = Item(u, n))
    BY DEF Reads, Item
  <2> QED BY <2>2, <2>3
<1>3. ASSUME got'[u][d] = got[u][d], cq'[u] = cq[u], n \in Pend(u)' <=> n \in Pend(u),
             wpc[x] # "read" \/ job[x] # Item(u, n), wpc'[x] # "read" \/ job'[x] # Item(u, n)
      PROVE  Called(u, d)'
  <2>1. \A w \in Worker : /\ Reads(w, u, n)' <=> Reads(w, u, n)
                          /\ Reads(w, u, n) => conn'[wfd'[w]] = conn[wfd[w]]
    BY <1>2, <1>3, ReadsButOne
  <2> QED BY <1>0, <1>1, <1>3, <2>1, CalledSame
<1>4. pc[u] \in Under => n \in Node
  BY <1>1, UnderIs
<1>5. CASE WorkerPop(x)
  <2>1. wpc[x] # "read" /\ wpc'[x] # "read" /\ got' = got /\ cq' = cq
    BY <1>0, <1>5 DEF WorkerPop, WorkerTypes
  <2>3. \A r : ~Complete(x, r)
    BY <1>0, <1>5 DEF WorkerPop, Complete, WorkerTypes
  <2>4. pc[u] \in Under => Pend(u)' = Pend(u)
    <3>1. todo' = todo
      BY CallsAlone
    <3>2. \A k : k # STOP => (Given(k)' <=> Given(k))
      BY <1>0, <1>5, GivenKept
    <3>3. \A m : m \in Pend(u)' <=> m \in Pend(u)
      BY <3>1, <3>2, ItemIs, PendIs, PendIsNext
    <3> QED BY <3>3
  <2>5. \A w \in Worker : /\ Reads(w, u, n)' <=> Reads(w, u, n)
                          /\ Reads(w, u, n) => conn'[wfd'[w]] = conn[wfd[w]]
    BY <1>2, <2>1, ReadsButOne
  <2> QED BY <1>0, <1>1, <2>1, <2>4, <2>5, CalledSame
<1> DEFINE S == Asked(job[x].user, job[x].node)
           c == conn[wfd[x]]
<1>6. ASSUME wpc[x] \in {"send", "read"}
      PROVE  /\ job[x] # STOP /\ job[x].user \in User /\ job[x].node \in Node
             /\ job[x] = Item(job[x].user, job[x].node)
             /\ pc[job[x].user] \in Under /\ job[x].node \in Pend(job[x].user)
             /\ \A w \in Worker : job[w] = job[x] => w = x
  <2>1. /\ job[x] # STOP /\ job[x].user \in User /\ job[x].node \in Node
        /\ job[x] = Item(job[x].user, job[x].node)
    BY <1>0, <1>6, JobIs
  <2>2. Given(job[x]) /\ Awaited(job[x]) /\ \A w \in Worker : job[w] = job[x] => w = x
    BY <1>0, <2>1 DEF Given, Jobs
  <2>3. job[x].node \in Pend(job[x].user)
    BY <2>1, <2>2, PendIs
  <2> QED BY <2>1, <2>2, <2>3 DEF Awaited
<1>7. ASSUME ~WorkerPop(x), job[x].user # u PROVE Called(u, d)'
  <2>1. wpc[x] \in {"send", "read"} /\ bq' = bq
    BY <1>0, <1>7, WorkEnds
  <2>2. job'[x] \in {job[x], STOP}
    BY <1>0, <1>7, WorkEnds DEF WorkerTypes
  <2>3. got'[u] = got[u] /\ cq'[u] = cq[u]
    BY <1>0, <1>7 DEF Work, WorkerSend, WorkerFails, WorkerRead, Complete, ResultTypes
  <2>4. job[x] # Item(u, n) /\ job'[x] # Item(u, n)
    <3>1. Item(u, n).user = u /\ Item(u, n) # STOP
      BY ItemIs
    <3> QED BY <1>7, <2>2, <3>1
  <2>5. \A w \in Worker : \A r : Complete(w, r) /\ Work(w) => job[w].user # u
    <3> TAKE w \in Worker
    <3> TAKE r
    <3> HAVE Complete(w, r) /\ Work(w)
    <3>1. CASE w = x
      BY <1>7, <3>1
    <3>2. CASE w # x
      <4>1. wpc[w] \in {"send", "read"} \/ WorkerPop(w)
        BY <1>0, WorkEnds
      <4>2. wpc'[w] = "pop" /\ job'[w] = STOP
        BY <1>0 DEF Complete, WorkerTypes
      <4>3. ~WorkerPop(w)
        BY <1>0, <4>2 DEF WorkerPop, WorkerTypes
      <4>4. job'[w] = job[w]
        BY <1>0, <1>7, <3>2, WorkEnds DEF WorkerTypes
      <4> QED BY <1>0, <4>1, <4>2, <4>3, <4>4 DEF Creation
    <3> QED BY <3>1, <3>2
  <2>6. pc[u] \in Under => Pend(u)' = Pend(u)
    BY <1>0, <2>5, PendStays
  <2>7. \A w \in Worker : /\ Reads(w, u, n)' <=> Reads(w, u, n)
                          /\ Reads(w, u, n) => conn'[wfd'[w]] = conn[wfd[w]]
    BY <1>2, <2>4, ReadsButOne
  <2> QED BY <1>0, <1>1, <2>3, <2>6, <2>7, CalledSame
<1>8. ASSUME ~WorkerPop(x), job[x].user = u PROVE Called(u, d)'
  <2>0. PICK m \in Node : m = job[x].node
    BY <1>0, <1>6, <1>8, WorkEnds
  <2>1. /\ wpc[x] \in {"send", "read"} /\ job[x] = Item(u, m) /\ pc[u] \in Under
        /\ m \in Pend(u) /\ n \in Node /\ pc'[u] # "done" /\ todo' = todo /\ bq' = bq
    <3>1. wpc[x] \in {"send", "read"} /\ bq' = bq
      BY <1>0, <1>8, WorkEnds
    <3> QED BY <1>0, <1>4, <1>6, <1>8, <2>0, <3>1, CallsAlone DEF Under
  <2>2. /\ Fetched(u, d, n) /\ got[u][d] <= 1 /\ (d \notin Found => got[u][d] = 0)
        /\ got[u] \in [Digest -> Nat]
    BY <1>0, <1>1, <2>1 DEF Called, ResultTypes
  <2>3. \A w \in Worker : Reads(w, u, m) => w = x
    <3>1. \A w \in Worker : job[w] = job[x] => w = x
      BY <1>6, <2>1
    <3> QED BY <2>1, <3>1 DEF Reads
  <2>4. ASSUME NEW r, Complete(x, r)
        PROVE  /\ Pend(u)' = Pend(u) \ {m} /\ cq'[u] = Append(cq[u], r) /\ cq[u] \in Seq(Rv)
               /\ wpc'[x] # "read"
    <3>1. job' = [job EXCEPT ![x] = STOP] /\ wpc'[x] # "read"
      BY <1>0, <2>4 DEF Complete, WorkerTypes
    <3>2. Pend(u)' = Pend(u) \ {m}
      BY <1>0, <1>8, <2>0, <2>1, <3>1, WorkOver
    <3>3. cq'[u] = Append(cq[u], r) /\ cq[u] \in Seq(Rv)
      BY <1>0, <1>8, <2>4 DEF Complete, ResultTypes
    <3> QED BY <3>1, <3>2, <3>3
  <2>5. ASSUME NEW r, Complete(x, r)
        PROVE  (\A k \in DOMAIN cq'[u] : cq'[u][k] = "OK") =>
                  (r = "OK" /\ \A k \in DOMAIN cq[u] : cq[u][k] = "OK")
    <3>1. cq'[u] = Append(cq[u], r) /\ cq[u] \in Seq(Rv)
      BY <2>4, <2>5
    <3> DEFINE l == Len(cq[u])
    <3>2. /\ l \in Nat /\ DOMAIN cq[u] = 1 .. l /\ DOMAIN cq'[u] = 1 .. l + 1
          /\ cq'[u][l + 1] = r /\ \A k \in 1 .. l : cq'[u][k] = cq[u][k]
      BY <3>1
    <3> HIDE DEF l
    <3> QED BY <3>2
  \* The work is for another digest's node.
  <2>6. ASSUME n # m, got'[u][d] = got[u][d],
               \/ \E r : Complete(x, r)
               \/ cq'[u] = cq[u] /\ Pend(u)' = Pend(u) /\ job'[x] = job[x]
        PROVE  Called(u, d)'
    <3>1. n \in Pend(u)' <=> n \in Pend(u)
      BY <2>4, <2>6
    <3>2. (\A k \in DOMAIN cq'[u] : cq'[u][k] = "OK") => \A k \in DOMAIN cq[u] : cq[u][k] = "OK"
      BY <2>5, <2>6
    <3>3. /\ wpc[x] # "read" \/ job[x] # Item(u, n)
          /\ wpc'[x] # "read" \/ job'[x] # Item(u, n)
      <4>1. job[x] # Item(u, n)
        BY <2>1, <2>6, ItemIs
      <4> QED BY <2>4, <2>6, <4>1
    <3>4. \A w \in Worker : /\ Reads(w, u, n)' <=> Reads(w, u, n)
                            /\ Reads(w, u, n) => conn'[wfd'[w]] = conn[wfd[w]]
      BY <1>2, <3>3, ReadsButOne
    <3> QED BY <1>0, <1>1, <2>1, <2>6, <3>1, <3>2, <3>4, CalledSame
  \* The work is for the digest's node, and it ends.
  <2>7. ASSUME n = m, NEW r, Complete(x, r),
               got'[u][d] <= 1, d \notin Found => got'[u][d] = 0,
               r = "OK" /\ d \in Found => got'[u][d] = 1
        PROVE  Called(u, d)'
    <3>1. n \notin Pend(u)'
      BY <2>4, <2>7
    <3>2. ASSUME NEW w \in Worker PROVE ~Reads(w, u, n)'
      <4>1. CASE w = x
        BY <2>4, <2>7, <4>1 DEF Reads
      <4>2. CASE w # x
        <5>1. Reads(w, u, n)' <=> (wpc'[w] = "read" /\ job'[w] = Item(u, n))
          BY DEF Reads, Item
        <5> QED BY <1>2, <2>3, <2>7, <4>2, <5>1
      <4> QED BY <4>1, <4>2
    <3>3. Fetched(u, d, n)'
      BY <2>5, <2>7, <3>1, <3>2 DEF Fetched
    <3> QED BY <1>0, <1>1, <2>1, <2>7, <3>3, CalledNext
  <2>8. CASE WorkerSend(x)
    <3>1. wpc[x] = "send" /\ got' = got
      BY <2>8 DEF WorkerSend
    <3>2. ~Reads(x, u, m)
      BY <3>1 DEF Reads
    <3>3. CASE Complete(x, "FAIL")
      <4>1. CASE n # m
        BY <2>6, <3>1, <3>3, <4>1
      <4>2. CASE n = m
        BY <2>2, <2>7, <3>1, <3>3, <4>2
      <4> QED BY <4>1, <4>2
    <3>4. CASE UNCHANGED <<job, cq>>
      <4>1. Pend(u)' = Pend(u)
        BY <2>1, <3>4 DEF Pend
      <4>2. CASE n # m
        BY <2>6, <3>1, <3>4, <4>1, <4>2
      <4>3. CASE n = m
        <5>1. got[u][d] = 0
          BY <2>1, <2>2, <2>3, <3>2, <4>3 DEF Fetched
        <5>2. Fetched(u, d, n)'
          BY <2>1, <3>1, <4>1, <4>3, <5>1 DEF Fetched
        <5> QED BY <1>0, <1>1, <2>1, <2>2, <3>1, <5>1, <5>2, CalledNext
      <4> QED BY <4>2, <4>3
    <3> QED BY <2>8, <3>3, <3>4 DEF WorkerSend
  <2>9. CASE WorkerFails(x)
    <3>1. Complete(x, "FAIL") /\ got' = got
      BY <2>9 DEF WorkerFails
    <3>2. CASE n # m
      BY <2>6, <3>1, <3>2
    <3>3. CASE n = m
      BY <2>2, <2>7, <3>1, <3>3
    <3> QED BY <3>2, <3>3
  <2>10. CASE WorkerRead(x)
    <3> DEFINE p == Head(c)
               t == Tail(c)
    <3>1. wpc[x] = "read" /\ c # <<>> /\ Reads(x, u, m) /\ wfd[x] \in Fd /\ c \in Seq(Seq(Msgs))
      <4>1. wpc[x] = "read" /\ c # <<>>
        BY <2>10 DEF WorkerRead
      <4>2. wfd[x] \in Fd
        BY <4>1, ReaderIs
      <4> QED BY <1>0, <2>1, <4>1, <4>2 DEF Reads, NetTypes
    <3>2. Reply(c, S) /\ S \in SUBSET Digest
      <4>1. Wire(x)
        BY <3>1, ReaderIs
      <4> QED BY <1>8, <4>1 DEF Wire, Asked
    <3>3. d \in S <=> n = m
      BY <1>1, <1>8, <2>0, <2>1, UnderIs DEF Asked
    <3> HIDE DEF S
    <3>4. /\ Records(p, d) \in {0, 1}
          /\ Records(p, d) = 1 => d \in S /\ d \in Found /\ Coming(c, d)
          /\ ~BatchDone(p) /\ Coming(t, d) => Coming(c, d) /\ Records(p, d) = 0
          /\ BatchDone(p) /\ BatchRv(p) = "OK" /\ d \in S /\ d \in Found => Records(p, d) = 1
      BY <3>1, <3>2, ReplyRead
    <3>5. got'[u][d] = got[u][d] + Records(p, d)
      BY <1>0, <1>8, <2>10 DEF WorkerRead, ResultTypes
    <3>6. \/ BatchDone(p) /\ Complete(x, BatchRv(p))
          \/ /\ ~BatchDone(p) /\ ProtoRead(wfd[x]) /\ UNCHANGED <<workers, cq>>
      BY <2>10 DEF WorkerRead
    <3> DEFINE R == Records(p, d)
               rr == BatchRv(p)
               done == BatchDone(p)
               cc == Coming(c, d)
               ct == Coming(t, d)
    <3> HIDE DEF R, rr, done, cc, ct
    <3>7. n = m /\ cc => got[u][d] = 0
      BY <2>2, <3>1 DEF Fetched, cc
    <3>8. CASE n # m
      <4>1. got'[u][d] = got[u][d]
        BY <2>2, <3>3, <3>4, <3>5, <3>8
      <4>2. CASE ~BatchDone(p) /\ ProtoRead(wfd[x]) /\ UNCHANGED <<workers, cq>>
        <5>1. Pend(u)' = Pend(u) /\ job'[x] = job[x] /\ cq'[u] = cq[u]
          BY <2>1, <4>2 DEF Pend
        <5> QED BY <2>6, <3>8, <4>1, <5>1
      <4> QED BY <2>6, <3>6, <3>8, <4>1, <4>2
    <3>9. CASE n = m
      <4>0. /\ R \in {0, 1} /\ (R = 1 => d \in Found /\ got[u][d] = 0)
            /\ (done /\ rr = "OK" /\ d \in Found => R = 1)
            /\ (~done /\ ct => cc /\ R = 0)
            /\ got'[u][d] = got[u][d] + R /\ got[u][d] \in Nat
        BY <2>2, <3>3, <3>4, <3>5, <3>7, <3>9 DEF R, rr, done, cc, ct
      <4>1. got'[u][d] <= 1 /\ (d \notin Found => got'[u][d] = 0)
        BY <2>2, <4>0
      <4>2. CASE BatchDone(p) /\ Complete(x, BatchRv(p))
        <5>1. BatchRv(p) = "OK" /\ d \in Found => got'[u][d] = 1
          BY <4>0, <4>2 DEF rr, done
        <5> QED BY <2>7, <3>9, <4>1, <4>2, <5>1
      <4>3. CASE ~BatchDone(p) /\ ProtoRead(wfd[x]) /\ UNCHANGED <<workers, cq>>
        <5>1. Pend(u)' = Pend(u) /\ n \in Pend(u)
          BY <2>1, <3>9, <4>3 DEF Pend
        <5>2. Reads(x, u, n)'
          BY <3>1, <3>9, <4>3 DEF Reads, Item
        <5>3. conn'[wfd'[x]] = t
          BY <1>0, <3>1, <4>3, NetOthers
        <5>4. ASSUME NEW w \in Worker, Reads(w, u, n)', Coming(conn'[wfd'[w]], d)
              PROVE  got'[u][d] = 0
          <6>1. w = x
            BY <2>1, <2>3, <3>9, <4>3, <5>4 DEF Reads, Item
          <6>2. ct
            BY <5>3, <5>4, <6>1 DEF ct
          <6>3. cc /\ R = 0 /\ got[u][d] = 0
            BY <3>7, <3>9, <4>0, <4>3, <6>2 DEF done
          <6> QED BY <4>0, <6>3
        <5>5. \A w \in Worker : Reads(w, u, n)' /\ Coming(conn[wfd[w]], d)' => got'[u][d] = 0
          BY <5>4
        <5>6. Fetched(u, d, n)'
          BY <3>1, <5>1, <5>2, <5>5 DEF Fetched
        <5> QED BY <1>0, <1>1, <2>1, <4>1, <5>6, CalledNext
      <4> QED BY <3>6, <4>2, <4>3
    <3> QED BY <3>8, <3>9
  <2> QED BY <1>8, <2>8, <2>9, <2>10 DEF Work
<1> QED BY <1>5, <1>7, <1>8

\* Every step keeps what the batches have been called back for.
LEMMA CallsStep ==
  ASSUME IInv, [Next]_vars
  PROVE  Calls'
<1> USE DEF workers, results, workQ, nodeState, net
<1>1. op' = op /\ spoiled \subseteq spoiled'
  <2>1. ASSUME NEW v \in User, Batch(v) \/ Scan(v) \/ Begin(v) PROVE op' = op /\ spoiled' = spoiled
    BY <2>1, Apart DEF IInv
  <2>2. ASSUME NEW w \in Worker, Work(w) PROVE op' = op /\ spoiled \subseteq spoiled'
    BY <2>2 DEF Work, WorkerPop, WorkerSend, WorkerFails, WorkerRead
  <2> QED BY <2>1, <2>2 DEF Next, NodeDropped, Shutdown, ShutdownJoin, vars
<1> SUFFICES ASSUME NEW u \in User \ spoiled, op[u] = "batch", NEW d \in Digest
             PROVE  Called(u, d)'
  BY <1>1 DEF Calls
<1>2. CASE (\E n \in Node : NodeDropped(n)) \/ Shutdown \/ ShutdownJoin \/ UNCHANGED vars
  <2>0. TypeOK /\ Creation /\ Called(u, d)
    BY DEF IInv, Calls
  <2>1. UNCHANGED <<pc, op, nodes, todo, left, fd, rv>> /\ UNCHANGED <<got, cq, wpc, job, wfd, conn>>
    BY <1>2, CallsAlone DEF NodeDropped, Shutdown, ShutdownJoin, vars
  <2>2. \A w \in Worker : \A n : /\ Reads(w, u, n)' <=> Reads(w, u, n)
                                 /\ Reads(w, u, n) => conn'[wfd'[w]] = conn[wfd[w]]
    BY <2>1 DEF Reads, Item
  <2>3. PICK n : n = nodes[u][d]
    OBVIOUS
  <2>4. n \in Pend(u)' <=> n \in Pend(u)
    <3>1. CASE Shutdown
      <4>1. \A k : k # STOP => (Given(k)' <=> Given(k))
        BY <2>0, <3>1, GivenKept
      <4> QED BY <2>1, <4>1, ItemIs, PendIs, PendIsNext
    <3>2. CASE ~Shutdown
      <4>1. bq' = bq
        BY <1>2, <3>2 DEF NodeDropped, ShutdownJoin, vars
      <4> QED BY <2>1, <4>1 DEF Pend
    <3> QED BY <3>1, <3>2
  <2>5. \A w \in Worker : /\ Reads(w, u, n)' <=> Reads(w, u, n)
                          /\ Reads(w, u, n) => conn'[wfd'[w]] = conn[wfd[w]]
    BY <2>2
  <2> QED BY <2>0, <2>1, <2>3, <2>4, <2>5, CalledSame
<1> QED BY <1>2, CallsUser, CallsWork DEF Next

-----------------------------------------------------------------------------
(* The invariant and the theorems                                          *)

\* Before any call there are the node list's references and nothing else.
LEMMA InitIInv ==
  ASSUME Init
  PROVE  IInv
<1> USE DEF Init
<1>1. TypeOK
  <2>1. op \in [User -> {"batch", "scan", "all"}]
    BY BatchAssumption
  <2>2. CallTypes
    BY <2>1 DEF CallTypes, Rv
  <2>3. ResultTypes
    BY DEF ResultTypes
  <2>4. WorkerTypes
    BY DEF WorkerTypes, Works, STOP
  <2>5. QueueTypes
    <3>1. bq \in Seq(Works)
      OBVIOUS
    <3> QED BY <3>1 DEF QueueTypes
  <2>6. NodeTypes
    BY DEF NodeTypes
  <2>7. NetTypes
    BY DEF NetTypes
  <2> QED BY <2>2, <2>3, <2>4, <2>5, <2>6, <2>7 DEF TypeOK
<1>2. Creation
  BY DEF Creation
<1>3. Phases
  <2> SUFFICES ASSUME NEW u \in User PROVE Phase(u)
    BY DEF Phases
  <2>1. op[u] \in {"batch", "scan", "all"} /\ Len(nodes[u]) <= MaxDigests
    BY <1>1, Finites DEF TypeOK, CallTypes
  <2> QED BY <2>1 DEF Phase, Before, Under
<1>4. Refs
  <2> SUFFICES ASSUME NEW n \in Node
               PROVE  refs[n] = Cardinality({n} \cap listed) + leaked[n] + Cardinality(Holders(n))
    BY DEF Refs
  <2>1. Holders(n) = {}
    BY DEF Holders, Holds
  <2>2. {n} \cap listed = {n} /\ refs[n] = 1 /\ leaked[n] = 0
    OBVIOUS
  <2> DEFINE a == Cardinality({n} \cap listed)
             b == Cardinality(Holders(n))
  <2>3. a = 1
    BY <2>2, FS_Singleton
  <2>4. b = 0
    BY <2>1, FS_EmptySet
  <2> HIDE DEF a, b, Init
  <2>5. refs[n] = a + leaked[n] + b
    BY <2>2, <2>3, <2>4
  <2> QED BY <2>5 DEF a, b
<1>5. Fds /\ Pools /\ PoolClean
  BY DEF Fds, Pools, PoolClean, Pooled, ToSet
<1>6. Jobs
  BY DEF Jobs, ToSet
<1>7. Lefts /\ Wires
  BY DEF Lefts, Wires, Under
<1>8. Calls
  BY DEF Calls, Called, Under
<1> QED BY <1>1, <1>2, <1>3, <1>4, <1>5, <1>6, <1>7, <1>8 DEF IInv

\* The invariant holds in every state: each part is kept by every step.
THEOREM InvariantHolds == Spec => []IInv
<1>1. Init => IInv
  BY InitIInv
<1>2. ASSUME IInv, [Next]_vars PROVE IInv'
  BY <1>2, TypesStep, CreationStep, PhasesStep, RefsStep, NetStep, JobsStep, LeftsStep,
     WiresStep, CallsStep DEF IInv, Net
<1> QED BY <1>1, <1>2, PTL DEF Spec

\* A node's reference count is the number of its holders, the leaked references
\* of the error exits included: what batch and scan put is what they got.
THEOREM NodeRefsHolds == Spec => []NodeRefs
<1>1. IInv => NodeRefs
  BY DEF IInv, Refs, NodeRefs
<1> QED BY <1>1, InvariantHolds, PTL

\* Work that is queued, being done or lost is for a call that still waits for
\* it and that still holds its node: a worker never uses what a call has freed.
THEOREM WorkIsAwaitedHolds == Spec => []WorkIsAwaited
<1>1. ASSUME IInv PROVE WorkIsAwaited
  <2>0. TypeOK /\ WorkerTypes /\ QueueTypes /\ Jobs /\ Phases /\ Refs
    BY <1>1 DEF IInv, TypeOK
  <2> SUFFICES ASSUME NEW k \in (ToSet(bq) \cup {job[w] : w \in Worker}) \ {STOP}
               PROVE  /\ pc[k.user] \in {"push", "wait", "undefined"}
                      /\ refs[k.node] > 0 /\ k.node \in ToSet(nodes[k.user])
    BY DEF WorkIsAwaited
  <2>1. Given(k) /\ k # STOP
    BY DEF Given, ToSet
  <2>2. k.user \in User /\ Awaited(k)
    BY <2>0, <2>1, GivenIs
  <2>3. PICK j \in DOMAIN nodes[k.user] : nodes[k.user][j] = k.node
    BY <2>2 DEF Awaited, ToSet
  <2>4. refs[k.node] > 0
    BY <2>0, <2>2, <2>3, HeldRef
  <2> QED BY <2>2, <2>4 DEF Awaited, Under
<1> QED BY <1>1, InvariantHolds, PTL

\* A connection in a pool has nothing left to be read, unless a scan put it
\* there with the rest of a reply that ended in a code.
THEOREM PoolCleanHolds == Spec => []PoolClean
<1>1. IInv => PoolClean
  BY DEF IInv
<1> QED BY <1>1, InvariantHolds, PTL

\* A batch that returns success has called back exactly once for each record
\* that exists and for no other, unless a scan left it something to read.
THEOREM BatchCompleteHolds == Spec => []BatchComplete
<1>1. ASSUME IInv PROVE BatchComplete
  <2> SUFFICES ASSUME NEW u \in User \ spoiled, op[u] = "batch", pc[u] = "done"
               PROVE  /\ \A d \in Digest : got[u][d] <= 1
                      /\ rv[u] = "OK" => {d \in Digest : got[u][d] > 0} = Found
    BY DEF BatchComplete
  <2>1. \A d \in Digest : Called(u, d)
    BY <1>1 DEF IInv, Calls
  <2>2. \A d \in Digest : /\ got[u][d] <= 1 /\ (d \notin Found => got[u][d] = 0)
                          /\ rv[u] = "OK" /\ d \in Found => got[u][d] = 1
    BY <2>1 DEF Called
  <2>3. Found \subseteq Digest
    BY BatchAssumption DEF Digest
  <2> QED BY <2>2, <2>3
<1> QED BY <1>1, InvariantHolds, PTL

=============================================================================
