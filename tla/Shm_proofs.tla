----------------------------- MODULE Shm_proofs -----------------------------
(***************************************************************************)
(* Theorems about Shm, for any number of processes, nodes and slots, and    *)
(* whatever crashes, fails and changes.                                     *)
(***************************************************************************)
EXTENDS Shm, FiniteSetTheorems, WellFoundedInduction, TLAPS

Step == {"off", "lock", "took", "sleep", "ping", "count", "replicas", "gen"}
Locked == Proc \cup {NULL, DEAD}

SlotRecord == [name : Name, gen : Nat, rep : Nat, lock : Locked]
UpdaterRecord == [pc : Step, i : Node, slot : Slot, add : BOOLEAN, req : Nat, stale : BOOLEAN]
ReadRecord == [pc : {"idle", "found", "stale"}, node : Node, slot : Slot]

\* The types in full.
Types ==
    /\ srv \in [Node -> Nat] /\ says \in [Node -> Name] /\ moved \subseteq Name
    /\ seg \in {"none", "raw", "ready"} /\ ub \in BOOLEAN
    /\ shm \in [count : Nat, lock : Locked, max : Slot]
    /\ slot \in [Slot -> SlotRecord]
    /\ pr \in [Proc -> {"new", "creating", "on", "leaving", "left", "dead"}]
    /\ up \in [Proc -> UpdaterRecord]
    /\ rd \in [Proc -> [Node -> Nat \cup {NULL}]] /\ rt \in [Proc -> ReadRecord]

\* There are as many slots as are counted.
CountOK == shm.count <= shm.max

\* Who updates has the segment's lock.
LockOK == \A p \in Proc : Runs(p) /\ up[p].pc \notin {"off", "lock"} => shm.lock = p

\* A process starts its updater when the segment is there.
RestOK == \A p \in Proc : pr[p] \in {"new", "creating"} => up[p].pc = "off"

\* A server that answers another name than its node's was replaced.
MovedOK == \A n \in Node : says[n] = n \/ (n \in moved /\ says[n] \in moved)

\* The counted slots are named, each differently; of names that servers gave up or
\* took nothing is said, here and below.
NamesOK ==
    \A s, t \in 1 .. shm.count :
        \/ slot[s].name \in moved
        \/ slot[s].name # NULL /\ (slot[s].name = slot[t].name => s = t)

\* The slot an updater has in hand: one that is counted and has the node's name,
\* or the one behind the last, with a name that no counted slot has.
Hand(p) ==
    Runs(p) =>
        /\ up[p].pc \in {"count", "replicas", "gen"} =>
            /\ slot[up[p].slot].name = up[p].i \/ (up[p].i \in moved /\ slot[up[p].slot].name \in moved)
            /\ up[p].i \in moved \/ up[p].req <= srv[up[p].i]
            /\ up[p].slot <= shm.count \/ (up[p].pc = "count" /\ up[p].add)
        /\ up[p].pc = "count" /\ up[p].add =>
            /\ up[p].slot = shm.count + 1 /\ up[p].slot <= shm.max
            /\ up[p].i \in moved \/ \A s \in 1 .. shm.count : slot[s].name # up[p].i
        /\ up[p].pc = "gen" => up[p].i \in moved \/ up[p].req <= slot[up[p].slot].rep
HandOK == \A p \in Proc : Hand(p)

\* What is written in a slot: generation, replicas and server are in that order,
\* and a slot that is not counted has neither.
OrderOK ==
    \A s \in Slot :
        /\ s > shm.count => slot[s].gen = 0 /\ slot[s].rep = 0
        /\ \/ slot[s].name \in moved
           \/ /\ slot[s].gen <= slot[s].rep
              /\ s <= shm.count => slot[s].rep <= srv[slot[s].name]

\* Until the creator has initialised the lock, a segment that is not locked is
\* as it was created.
BlankOK ==
    seg # "ready" /\ shm.lock = NULL => shm.count = 0 /\ \A s \in Slot : slot[s] = Fresh

IInv ==
    /\ Types /\ CountOK /\ MovedOK
    /\ ~ ub => LockOK /\ RestOK /\ NamesOK /\ HandOK /\ OrderOK /\ BlankOK

-----------------------------------------------------------------------------

\* An updater's record: the types of its fields, and what storing into it gives.
LEMMA UpRecord ==
  ASSUME NEW u \in UpdaterRecord
  PROVE  /\ u.pc \in Step /\ u.i \in Node /\ u.slot \in Slot /\ u.add \in BOOLEAN
         /\ u.req \in Nat /\ u.stale \in BOOLEAN
         /\ \A c \in Step : LET v == [u EXCEPT !.pc = c] IN
              /\ v \in UpdaterRecord /\ v.pc = c /\ v.i = u.i /\ v.slot = u.slot /\ v.add = u.add
              /\ v.req = u.req /\ v.stale = u.stale
         /\ \A g \in Nat, s \in Slot, a \in BOOLEAN, b \in BOOLEAN :
              LET v == [u EXCEPT !.pc = "count", !.req = g, !.slot = s, !.add = a, !.stale = b] IN
              /\ v \in UpdaterRecord /\ v.pc = "count" /\ v.i = u.i /\ v.slot = s /\ v.add = a
              /\ v.req = g /\ v.stale = b
<1>1. /\ u.pc \in Step /\ u.i \in Node /\ u.slot \in Slot /\ u.add \in BOOLEAN
      /\ u.req \in Nat /\ u.stale \in BOOLEAN
  BY DEF UpdaterRecord
<1>2. ASSUME NEW c \in Step
      PROVE  LET v == [u EXCEPT !.pc = c] IN
              /\ v \in UpdaterRecord /\ v.pc = c /\ v.i = u.i /\ v.slot = u.slot /\ v.add = u.add
              /\ v.req = u.req /\ v.stale = u.stale
  BY DEF UpdaterRecord
<1>3. ASSUME NEW g \in Nat, NEW s \in Slot, NEW a \in BOOLEAN, NEW b \in BOOLEAN
      PROVE  LET v == [u EXCEPT !.pc = "count", !.req = g, !.slot = s, !.add = a, !.stale = b] IN
              /\ v \in UpdaterRecord /\ v.pc = "count" /\ v.i = u.i /\ v.slot = s /\ v.add = a
              /\ v.req = g /\ v.stale = b
  <2> DEFINE v == [u EXCEPT !.pc = "count", !.req = g, !.slot = s, !.add = a, !.stale = b]
  <2>1. "count" \in Step
    BY DEF Step
  <2>2. v \in UpdaterRecord
    BY <2>1 DEF UpdaterRecord
  <2>3. v.pc = "count" /\ v.i = u.i
    BY DEF UpdaterRecord
  <2>4. v.slot = s /\ v.req = g
    BY DEF UpdaterRecord
  <2>5. v.add = a
    BY DEF UpdaterRecord
  <2>6. v.stale = b
    BY DEF UpdaterRecord
  <2> QED BY <2>2, <2>3, <2>4, <2>5, <2>6
<1> QED BY <1>1, <1>2, <1>3

\* Who stores the step alone keeps the other fields.
LEMMA UpStep ==
  ASSUME NEW u \in UpdaterRecord, NEW c \in Step
  PROVE  LET v == [u EXCEPT !.pc = c] IN
         v.pc = c /\ v.i = u.i /\ v.slot = u.slot /\ v.req = u.req
  BY DEF UpdaterRecord

\* The answer to the first request.
LEMMA UpAnswer ==
  ASSUME NEW u \in UpdaterRecord, NEW g \in Nat, NEW s \in Slot, NEW a \in BOOLEAN, NEW b \in BOOLEAN
  PROVE  LET v == [u EXCEPT !.pc = "count", !.req = g, !.slot = s, !.add = a, !.stale = b] IN
         v.pc = "count" /\ v.i = u.i /\ v.slot = s /\ v.add = a /\ v.req = g
<1> DEFINE v == [u EXCEPT !.pc = "count", !.req = g, !.slot = s, !.add = a, !.stale = b]
<1>1. v.pc = "count" /\ v.i = u.i
  BY DEF UpdaterRecord
<1>2. v.slot = s /\ v.req = g
  BY DEF UpdaterRecord
<1>3. v.add = a
  BY DEF UpdaterRecord
<1> QED BY <1>1, <1>2, <1>3

\* A slot: the types of its fields, and what storing into it gives.
LEMMA SlotFields ==
  ASSUME NEW r \in SlotRecord
  PROVE  r.name \in Name /\ r.gen \in Nat /\ r.rep \in Nat /\ r.lock \in Locked
  BY DEF SlotRecord

\* Taking or releasing the lock of a slot changes nothing else in it.
LEMMA SlotLock ==
  ASSUME NEW r \in SlotRecord, NEW l \in Locked
  PROVE  LET v == [r EXCEPT !.lock = l] IN
         v \in SlotRecord /\ v.name = r.name /\ v.gen = r.gen /\ v.rep = r.rep /\ v.lock = l
  BY DEF SlotRecord

\* Naming a slot changes its name and its lock only.
LEMMA SlotName ==
  ASSUME NEW r \in SlotRecord, NEW n \in Name, NEW l \in Locked
  PROVE  LET v == [r EXCEPT !.name = n, !.lock = l] IN
         v \in SlotRecord /\ v.name = n /\ v.gen = r.gen /\ v.rep = r.rep /\ v.lock = l
  BY DEF SlotRecord

\* Storing the replica map's generation changes it and the lock only.
LEMMA SlotRep ==
  ASSUME NEW r \in SlotRecord, NEW g \in Nat, NEW l \in Locked
  PROVE  LET v == [[r EXCEPT !.rep = g] EXCEPT !.lock = l] IN
         v \in SlotRecord /\ v.name = r.name /\ v.gen = r.gen /\ v.rep = g /\ v.lock = l
  BY DEF SlotRecord

\* Storing the partition generation changes it and the lock only.
LEMMA SlotGen ==
  ASSUME NEW r \in SlotRecord, NEW g \in Nat, NEW l \in Locked
  PROVE  LET v == [[r EXCEPT !.gen = g] EXCEPT !.lock = l] IN
         v \in SlotRecord /\ v.name = r.name /\ v.gen = g /\ v.rep = r.rep /\ v.lock = l
  BY DEF SlotRecord

\* What a step leaves behind has its type.
LEMMA ConstTypes ==
  /\ Off \in UpdaterRecord /\ Fresh \in SlotRecord /\ Unread \in [Node -> Nat \cup {NULL}]
  /\ Idle \in ReadRecord
  /\ \A u \in UpdaterRecord : Onward(u) \in UpdaterRecord /\ Onward(u).pc \in {"ping", "sleep"}
  /\ \A p \in Proc : Types => Orphaned(p) \in Locked
<1>1. Off \in UpdaterRecord
  BY NodesAssumption DEF Off, UpdaterRecord, Step, Node, Slot
<1>2. Fresh \in SlotRecord /\ Unread \in [Node -> Nat \cup {NULL}]
  BY DEF Fresh, SlotRecord, Unread, Locked, Name
<1>5. Idle \in ReadRecord
  BY NodesAssumption DEF Idle, ReadRecord, Node, Slot
<1>3. ASSUME NEW u \in UpdaterRecord PROVE Onward(u) \in UpdaterRecord /\ Onward(u).pc \in {"ping", "sleep"}
  <2>1. u.i \in Node
    BY UpRecord
  <2>2. CASE u.i < NNodes
    <3>1. u.i + 1 \in Node
      BY <2>1, <2>2, NodesAssumption DEF Node
    <3> QED BY <1>1, <2>2, <3>1 DEF Onward, Off, UpdaterRecord, Step
  <2>3. CASE ~ (u.i < NNodes)
    BY <1>1, <2>3 DEF Onward, Off, UpdaterRecord, Step
  <2> QED BY <2>2, <2>3
<1>4. ASSUME NEW p \in Proc, Types PROVE Orphaned(p) \in Locked
  BY <1>4 DEF Orphaned, Types, Locked
<1> QED BY <1>1, <1>2, <1>3, <1>4, <1>5

\* A set of naturals has a least member.
LEMMA Least ==
  ASSUME NEW S, S \subseteq Nat, S # {}
  PROVE  \E x \in S : \A y \in S : x <= y
<1> DEFINE R == {ss \in Nat \X Nat : ss[1] < ss[2]}
<1>1. IsWellFoundedOn(R, Nat)
  BY NatLessThanWellFounded DEF OpToRel
<1>2. PICK x \in S : \A y \in S : ~ (<<y, x>> \in R)
  <2> HIDE DEF R
  <2> QED BY <1>1, WFMin
<1>3. ASSUME NEW y \in S PROVE x <= y
  <2>1. x \in Nat /\ y \in Nat /\ <<y, x>> \notin R
    BY <1>2
  <2>2. ~ (y < x)
    BY <2>1
  <2> QED BY <2>1, <2>2
<1> QED BY <1>3

\* The slot for a node is one of the counted slots that has its name, or the one
\* behind the last.
LEMMA PlaceOK ==
  ASSUME IInv, NEW n \in Node, Room(n)
  PROVE  /\ Place(n) \in Slot
         /\ Named(n) # {} => Place(n) \in Named(n)
         /\ Named(n) = {} => Place(n) = shm.count + 1 /\ shm.count + 1 <= shm.max
<1>0. shm.count \in Nat /\ shm.max \in Slot /\ shm.count <= shm.max
  BY DEF IInv, Types, CountOK
<1>1. CASE Named(n) = {}
  BY <1>0, <1>1, NodesAssumption DEF Place, Room, Slot
<1>2. CASE Named(n) # {}
  <2>1. Named(n) \subseteq Nat
    BY <1>0 DEF Named
  <2>2. \E s \in Named(n) : \A t \in Named(n) : s <= t
    BY <1>2, <2>1, Least
  <2>3. Place(n) \in Named(n)
    BY <1>2, <2>2 DEF Place
  <2> QED BY <1>0, <1>2, <2>3, NodesAssumption DEF Named, Slot
<1> QED BY <1>1, <1>2

\* Storing into one of several records.
LEMMA StoreOne ==
  ASSUME Types
  PROVE  /\ \A p \in Proc : up[p] \in UpdaterRecord
         /\ \A s \in Slot : slot[s] \in SlotRecord
         /\ \A p \in Proc : \A v \in UpdaterRecord : [up EXCEPT ![p] = v] \in [Proc -> UpdaterRecord]
         /\ \A p \in Proc : \A c \in Step : [up EXCEPT ![p].pc = c] \in [Proc -> UpdaterRecord]
         /\ \A s \in Slot : \A v \in SlotRecord : [slot EXCEPT ![s] = v] \in [Slot -> SlotRecord]
         /\ \A s \in Slot : \A l \in Locked :
              [slot EXCEPT ![s].lock = l] \in [Slot -> SlotRecord]
<1>1. up \in [Proc -> UpdaterRecord] /\ slot \in [Slot -> SlotRecord]
  BY DEF Types
<1>2. \A p \in Proc : up[p] \in UpdaterRecord /\ \A c \in Step : [up[p] EXCEPT !.pc = c] \in UpdaterRecord
  BY <1>1, UpRecord
<1>3. \A s \in Slot : slot[s] \in SlotRecord /\ \A l \in Locked : [slot[s] EXCEPT !.lock = l] \in SlotRecord
  BY <1>1, SlotLock
<1>4. \A p \in Proc : \A v \in UpdaterRecord : [up EXCEPT ![p] = v] \in [Proc -> UpdaterRecord]
  BY <1>1
<1>5. \A s \in Slot : \A v \in SlotRecord : [slot EXCEPT ![s] = v] \in [Slot -> SlotRecord]
  BY <1>1
<1> QED BY <1>2, <1>3, <1>4, <1>5

\* Every step keeps the types, and counts no more slots than there are.
LEMMA TypesNext ==
  ASSUME IInv, [Next]_vars
  PROVE  Types' /\ CountOK'
<1>0. Types /\ CountOK /\ shm.count \in Nat /\ shm.max \in Slot
  BY DEF IInv, Types
<1>s. {"lock", "took", "sleep", "ping", "count", "replicas", "gen"} \subseteq Step
       /\ {NULL, DEAD} \subseteq Locked /\ Proc \subseteq Locked
  BY DEF Step, Locked
<1> USE <1>0, <1>s DEF Types, CountOK, server
<1>1. ASSUME NEW p \in Proc, Create(p) PROVE Types' /\ CountOK'
  BY <1>1 DEF Create
<1>2. ASSUME NEW p \in Proc, CreateInit(p) PROVE Types' /\ CountOK'
  <2>1. up' \in [Proc -> UpdaterRecord]
    BY <1>2, StoreOne DEF CreateInit
  <2> QED BY <1>2, <2>1 DEF CreateInit
<1>3. ASSUME NEW p \in Proc, Attach(p) PROVE Types' /\ CountOK'
  <2>1. up' \in [Proc -> UpdaterRecord]
    BY <1>3, StoreOne DEF Attach
  <2> QED BY <1>3, <2>1 DEF Attach
<1>4. ASSUME NEW p \in Proc, UpdaterLocks(p) PROVE Types' /\ CountOK'
  <2>1. up' \in [Proc -> UpdaterRecord]
    BY <1>4, StoreOne DEF UpdaterLocks
  <2>2. shm' \in [count : Nat, lock : Locked, max : Slot] /\ CountOK'
    BY <1>4 DEF UpdaterLocks
  <2> QED BY <1>4, <2>1, <2>2 DEF UpdaterLocks
<1>5. ASSUME NEW p \in Proc, UpdaterTook(p) PROVE Types' /\ CountOK'
  <2>1. up' \in [Proc -> UpdaterRecord]
    BY <1>5, StoreOne DEF UpdaterTook
  <2> QED BY <1>5, <2>1 DEF UpdaterTook
<1>6. ASSUME NEW p \in Proc, UpdaterWakes(p) PROVE Types' /\ CountOK'
  <2>1. CASE pr[p] = "leaving"
    <3>1. shm' \in [count : Nat, lock : Locked, max : Slot] /\ CountOK'
      BY <1>6, <2>1, ConstTypes DEF UpdaterWakes
    <3>2. /\ pr' \in [Proc -> {"new", "creating", "on", "leaving", "left", "dead"}]
          /\ ub' \in BOOLEAN
      BY <1>6, <2>1 DEF UpdaterWakes, Unmap
    <3>3. /\ up' = [up EXCEPT ![p] = Off] /\ rt' = [rt EXCEPT ![p] = Idle]
          /\ rd' = [rd EXCEPT ![p] = Unread]
      BY <1>6, <2>1 DEF UpdaterWakes, Gone
    <3>4. up' \in [Proc -> UpdaterRecord] /\ rt' \in [Proc -> ReadRecord]
      BY <3>3, ConstTypes
    <3>5. rd' \in [Proc -> [Node -> Nat \cup {NULL}]]
      BY <3>3, ConstTypes
    <3>6. UNCHANGED <<server, seg, slot, events>>
      BY <1>6 DEF UpdaterWakes
    <3> QED BY <3>1, <3>2, <3>4, <3>5, <3>6
  <2>2. CASE pr[p] # "leaving"
    <3>1. up' \in [Proc -> UpdaterRecord]
      BY <1>6, <2>2, StoreOne DEF UpdaterWakes
    <3> QED BY <1>6, <2>2, <3>1 DEF UpdaterWakes
  <2> QED BY <2>1, <2>2
<1>7. ASSUME NEW p \in Proc, PingInfo(p) PROVE Types' /\ CountOK'
  <2> DEFINE n == up[p].i
             s == Place(n)
  <2>0. n \in Node /\ ~ ub /\ srv[n] \in Nat /\ up[p] \in UpdaterRecord
    BY <1>7, StoreOne, UpRecord DEF PingInfo, At
  <2>1. CASE ~ Room(n)
    <3>1. up' = [up EXCEPT ![p] = Onward(up[p])] /\ UNCHANGED slot
      BY <1>7, <2>1 DEF PingInfo, Skip
    <3>2. Onward(up[p]) \in UpdaterRecord
      BY <2>0, ConstTypes
    <3>3. up' \in [Proc -> UpdaterRecord]
      BY <3>1, <3>2, StoreOne
    <3>4. UNCHANGED <<server, seg, shm, pr, rd, rt, events, ub>>
      BY <1>7 DEF PingInfo
    <3> QED BY <3>1, <3>3, <3>4
  <2>2. CASE Room(n)
    <3>1. s \in Slot
      BY <2>0, <2>2, PlaceOK
    <3> DEFINE a == Named(n) = {}
               b == Stale(s, srv[n])
               v == [slot[s] EXCEPT !.name = says[n], !.lock = NULL]
               w == [up[p] EXCEPT !.pc = "count", !.req = srv[n], !.slot = s,
                                  !.add = a, !.stale = b]
    <3>2. slot' = [slot EXCEPT ![s] = v] /\ up' = [up EXCEPT ![p] = w]
      BY <1>7, <2>2 DEF PingInfo
    <3>3. v \in SlotRecord
      <4>1. says[n] \in Name /\ slot[s] \in SlotRecord /\ NULL \in Locked
        BY <2>0, <3>1, StoreOne
      <4> HIDE DEF s, n
      <4> QED BY <4>1, SlotName
    <3>4. a \in BOOLEAN /\ b \in BOOLEAN
      BY DEF Stale
    <3> HIDE DEF a, b, s
    <3>5. w \in UpdaterRecord
      <4>1. \A u \in UpdaterRecord : \A g \in Nat, k \in Slot, x \in BOOLEAN, y \in BOOLEAN :
                [u EXCEPT !.pc = "count", !.req = g, !.slot = k, !.add = x, !.stale = y]
                  \in UpdaterRecord
        BY UpRecord
      <4> HIDE DEF n
      <4> QED BY <2>0, <3>1, <3>4, <4>1, Zenon
    <3> HIDE DEF v, w
    <3>6. slot' \in [Slot -> SlotRecord] /\ up' \in [Proc -> UpdaterRecord]
      BY <3>1, <3>2, <3>3, <3>5, StoreOne
    <3>7. UNCHANGED <<server, seg, shm, pr, rd, rt, events, ub>>
      BY <1>7 DEF PingInfo
    <3> QED BY <3>6, <3>7
  <2> QED BY <2>1, <2>2
<1>8. ASSUME NEW p \in Proc, PingFails(p) PROVE Types' /\ CountOK'
  BY <1>8, ConstTypes DEF PingFails, Skip
<1>9. ASSUME NEW p \in Proc, PingCount(p) PROVE Types' /\ CountOK'
  <2>1. up' \in [Proc -> UpdaterRecord]
    <3>1. CASE up[p].stale
      <4>1. up' = [up EXCEPT ![p].pc = "replicas"]
        BY <1>9, <3>1 DEF PingCount
      <4> QED BY <4>1, StoreOne
    <3>2. CASE ~ up[p].stale
      BY <1>9, <3>2, ConstTypes DEF PingCount, Skip
    <3> QED BY <3>1, <3>2
  <2>2. up[p].add => shm.count + 1 <= shm.max
    BY <1>9 DEF PingCount, At, IInv, HandOK, Hand
  <2>3. shm.max \in Nat
    BY NodesAssumption DEF Slot
  <2>4. /\ shm'.count = IF up[p].add THEN shm.count + 1 ELSE shm.count
        /\ shm'.max = shm.max /\ shm' \in [count : Nat, lock : Locked, max : Slot]
    BY <1>9 DEF PingCount
  <2>5. CountOK'
    BY <2>2, <2>3, <2>4
  <2> QED BY <1>9, <2>1, <2>4, <2>5 DEF PingCount
<1>10. ASSUME NEW p \in Proc, PingReplicas(p) PROVE Types' /\ CountOK'
  <2>1. up[p].slot \in Slot /\ up[p].i \in Node /\ srv[up[p].i] \in Nat
    BY StoreOne, UpRecord
  <2>2. [[slot[up[p].slot] EXCEPT !.rep = srv[up[p].i]] EXCEPT !.lock = p] \in SlotRecord
    BY <2>1, StoreOne, SlotFields, SlotLock, SlotName, SlotRep, SlotGen
  <2>3. slot' \in [Slot -> SlotRecord]
    BY <1>10, <2>1, <2>2, StoreOne DEF PingReplicas, Writes
  <2>4. up' \in [Proc -> UpdaterRecord]
    BY <1>10, StoreOne DEF PingReplicas
  <2> QED BY <1>10, <2>3, <2>4 DEF PingReplicas
<1>11. ASSUME NEW p \in Proc, PingGen(p) PROVE Types' /\ CountOK'
  <2>1. up[p].slot \in Slot /\ up[p].req \in Nat
    BY StoreOne, UpRecord
  <2>2. [[slot[up[p].slot] EXCEPT !.gen = up[p].req] EXCEPT !.lock = NULL] \in SlotRecord
    BY <2>1, StoreOne, SlotFields, SlotGen
  <2>3. slot' = [slot EXCEPT ![up[p].slot] =
                    [[slot[up[p].slot] EXCEPT !.gen = up[p].req] EXCEPT !.lock = NULL]]
    BY <1>11 DEF PingGen, Writes
  <2>4. slot' \in [Slot -> SlotRecord]
    BY <2>1, <2>2, <2>3, StoreOne
  <2>5. up' \in [Proc -> UpdaterRecord]
    BY <1>11, ConstTypes DEF PingGen, Skip
  <2> QED BY <1>11, <2>4, <2>5 DEF PingGen
<1>12. ASSUME NEW p \in Proc, NEW n \in Node, Look(p, n) PROVE Types' /\ CountOK'
  <2>1. CASE ReadFind(p, n)
    <3>1. Place(n) \in Slot
      BY <2>1, PlaceOK DEF ReadFind, Room
    <3>2. [pc |-> "found", node |-> n, slot |-> Place(n)] \in ReadRecord
      BY <3>1 DEF ReadRecord
    <3>3. rt' \in [Proc -> ReadRecord]
      BY <2>1, <3>2 DEF ReadFind
    <3> QED BY <2>1, <3>3 DEF ReadFind
  <2>2. CASE ReadServer(p, n)
    <3>1. rd[p] \in [Node -> Nat \cup {NULL}] /\ srv[n] \in Nat
      OBVIOUS
    <3>2. [rd[p] EXCEPT ![n] = srv[n]] \in [Node -> Nat \cup {NULL}]
      BY <3>1
    <3>3. rd' = [rd EXCEPT ![p] = [rd[p] EXCEPT ![n] = srv[n]]]
      BY <2>2 DEF ReadServer
    <3>4. rd' \in [Proc -> [Node -> Nat \cup {NULL}]]
      BY <3>2, <3>3
    <3> QED BY <2>2, <3>4 DEF ReadServer
  <2> QED BY <1>12, <2>1, <2>2 DEF Look
<1>13. ASSUME NEW p \in Proc, ReadCheck(p) \/ ReadReplicas(p) PROVE Types' /\ CountOK'
  <2>1. rt[p] \in ReadRecord
    OBVIOUS
  <2>2. rt[p].slot \in Slot /\ rt[p].node \in Node /\ [rt[p] EXCEPT !.pc = "stale"] \in ReadRecord
    BY <2>1 DEF ReadRecord
  <2>3. slot' = [slot EXCEPT ![rt[p].slot] = [slot[rt[p].slot] EXCEPT !.lock = NULL]]
    BY <1>13 DEF ReadCheck, ReadReplicas
  <2>7. [slot[rt[p].slot] EXCEPT !.lock = NULL] \in SlotRecord
    BY <2>2, StoreOne, SlotLock
  <2>8. slot' \in [Slot -> SlotRecord]
    BY <2>2, <2>3, <2>7, StoreOne
  <2>4. rt' \in [Proc -> ReadRecord]
    BY <1>13, <2>1, <2>2, ConstTypes DEF ReadCheck, ReadReplicas
  <2>5. slot[rt[p].slot].rep \in Nat
    BY <2>2, StoreOne, SlotFields
  <2>6. rd' \in [Proc -> [Node -> Nat \cup {NULL}]]
    <3>1. CASE ReadCheck(p)
      BY <3>1 DEF ReadCheck
    <3>2. CASE ReadReplicas(p)
      <4> DEFINE n == rt[p].node
                 g == IF slot[rt[p].slot].rep # 0 THEN slot[rt[p].slot].rep ELSE rd[p][n]
      <4>1. rd[p] \in [Node -> Nat \cup {NULL}] /\ n \in Node
        BY <2>2
      <4>2. g \in Nat \cup {NULL}
        BY <2>5, <4>1
      <4>3. rd' = [rd EXCEPT ![p] = [rd[p] EXCEPT ![n] = g]]
        BY <3>2 DEF ReadReplicas
      <4> HIDE DEF n, g
      <4>4. [rd[p] EXCEPT ![n] = g] \in [Node -> Nat \cup {NULL}]
        BY <4>1, <4>2
      <4> QED BY <4>3, <4>4
    <3> QED BY <1>13, <3>1, <3>2
  <2> QED BY <1>13, <2>4, <2>6, <2>8 DEF ReadCheck, ReadReplicas
<1>14. ASSUME NEW p \in Proc, ShmFree(p) PROVE Types' /\ CountOK'
  <2>1. up' \in [Proc -> UpdaterRecord] /\ rt' \in [Proc -> ReadRecord]
    BY <1>14, ConstTypes DEF ShmFree, Gone
  <2>2. rd' \in [Proc -> [Node -> Nat \cup {NULL}]]
    BY <1>14, ConstTypes DEF ShmFree, Gone
  <2>3. /\ pr' \in [Proc -> {"new", "creating", "on", "leaving", "left", "dead"}]
        /\ ub' \in BOOLEAN
    BY <1>14 DEF ShmFree, Unmap
  <2> QED BY <1>14, <2>1, <2>2, <2>3 DEF ShmFree
<1>18. ASSUME NEW p \in Proc, StrayEnds(p) PROVE Types' /\ CountOK'
  <2>1. up' \in [Proc -> UpdaterRecord]
    BY <1>18, ConstTypes DEF StrayEnds
  <2>2. shm' \in [count : Nat, lock : Locked, max : Slot] /\ CountOK'
    BY <1>18 DEF StrayEnds
  <2> QED BY <1>18, <2>1, <2>2 DEF StrayEnds
<1>15. ASSUME NEW p \in Proc, Crash(p) PROVE Types' /\ CountOK'
  <2>1. \A s \in Slot : [slot[s] EXCEPT !.lock = IF @ = p THEN DEAD ELSE @] \in SlotRecord
    BY StoreOne, SlotFields, SlotLock, SlotName, SlotRep, SlotGen
  <2>2. slot' \in [Slot -> SlotRecord]
    BY <1>15, <2>1 DEF Crash
  <2> QED BY <1>15, <2>2, ConstTypes DEF Crash, Gone
<1>16. ASSUME NEW n \in Moving, Revote(n) PROVE Types' /\ CountOK'
  BY <1>16, NodesAssumption DEF Revote
<1>19. ASSUME NEW n \in Moving, NEW m \in NewNames, Replace(n, m) PROVE Types' /\ CountOK'
  <2>1. n \in Node /\ m \in Name /\ n \in Name
    BY NodesAssumption, ReadersAssumption DEF Name
  <2> QED BY <1>19, <2>1 DEF Replace
<1>17. CASE UNCHANGED vars
  BY <1>17 DEF vars
<1> QED BY <1>1, <1>2, <1>3, <1>4, <1>5, <1>6, <1>7, <1>8, <1>9, <1>10, <1>11, <1>12, <1>13, <1>14,
  <1>15, <1>16, <1>17, <1>18, <1>19, ReadersAssumption DEF Next, Updater, Ping, Tender

\* A name that is not the node's own comes with the replacement of its server.
LEMMA MovedNext ==
  ASSUME IInv, [Next]_vars
  PROVE  MovedOK'
<1>0. MovedOK /\ says \in [Node -> Name]
  BY DEF IInv, Types
<1>1. CASE UNCHANGED server
  BY <1>0, <1>1 DEF MovedOK, server
<1>2. ASSUME NEW n \in Moving, NEW m \in NewNames, Replace(n, m) PROVE MovedOK'
  BY <1>0, <1>2 DEF MovedOK, Replace
<1>3. ASSUME NEW n \in Moving, Revote(n) PROVE MovedOK'
  BY <1>0, <1>3 DEF MovedOK, Revote
<1>4. ASSUME NEW p \in Proc, Updater(p) \/ PingFails(p) PROVE UNCHANGED server
  BY <1>4 DEF Updater, Ping, UpdaterLocks, UpdaterTook, UpdaterWakes, PingInfo, PingFails, PingCount,
    PingReplicas, PingGen
<1>5. ASSUME NEW p \in Proc,
             Create(p) \/ CreateInit(p) \/ Attach(p) \/ ShmFree(p) \/ StrayEnds(p) \/ Crash(p)
      PROVE  UNCHANGED server
  BY <1>5 DEF Create, CreateInit, Attach, ShmFree, StrayEnds, Crash
<1>6. ASSUME NEW p \in Proc, Tender(p) PROVE UNCHANGED server
  BY <1>6 DEF Tender, Look, ReadFind, ReadServer, ReadCheck, ReadReplicas
<1>7. CASE UNCHANGED vars
  BY <1>1, <1>7 DEF vars, server
<1>8. CASE Next
  <2>1. CASE \E p \in Proc : \/ Create(p) \/ CreateInit(p) \/ Attach(p)
                             \/ Updater(p) \/ PingFails(p)
                             \/ ShmFree(p) \/ StrayEnds(p) \/ Crash(p)
    BY <1>1, <1>4, <1>5, <2>1
  <2>2. CASE \E p \in Readers : Tender(p)
    BY <1>1, <1>6, <2>2, ReadersAssumption
  <2>3. CASE \E n \in Moving : Revote(n) \/ \E m \in NewNames : Replace(n, m)
    BY <1>2, <1>3, <2>3
  <2> QED BY <1>8, <2>1, <2>2, <2>3 DEF Next
<1> QED BY <1>1, <1>7, <1>8

-----------------------------------------------------------------------------
\* While one process updates, no other does.
LEMMA Alone ==
  ASSUME IInv, ~ ub, NEW p \in Proc, Runs(p), up[p].pc \notin {"off", "lock"}
  PROVE  /\ shm.lock = p
         /\ \A q \in Proc : q # p => ~ Runs(q) \/ up[q].pc \in {"off", "lock"}
  BY DEF IInv, LockOK

\* A step that leaves alone what the slots hold, their number, and the answers
\* of the servers, unless these become newer or the server is replaced.
Quiet ==
    /\ shm'.count = shm.count /\ shm'.max = shm.max
    /\ \A s \in Slot :
        slot'[s].name = slot[s].name /\ slot'[s].gen = slot[s].gen /\ slot'[s].rep = slot[s].rep
    /\ moved \subseteq moved'
    /\ \A n \in Node : n \in moved' \/ srv[n] <= srv'[n]

\* It keeps what is said of the slots, and of an updater that does not move.
LEMMA QuietKeeps ==
  ASSUME IInv, ~ ub, Types', Quiet
  PROVE  /\ NamesOK' /\ OrderOK'
         /\ \A q \in Proc : up'[q] = up[q] /\ (Runs(q)' => Runs(q)) => Hand(q)'
<1>0. Types /\ NamesOK /\ OrderOK /\ HandOK
  BY DEF IInv
<1>1. /\ shm.count \in Nat /\ shm.max \in Nat /\ 1 .. shm.count \subseteq Slot
      /\ \A s \in Slot : slot[s] \in SlotRecord
      /\ \A n \in Node : srv[n] \in Nat /\ srv'[n] \in Nat
  BY NodesAssumption DEF IInv, Types, CountOK, Slot
<1>2. NamesOK'
  BY <1>0, <1>1 DEF Quiet, NamesOK
<1>3. ASSUME NEW s \in Slot
      PROVE  /\ s > shm'.count => slot'[s].gen = 0 /\ slot'[s].rep = 0
             /\ \/ slot'[s].name \in moved'
                \/ /\ slot'[s].gen <= slot'[s].rep
                   /\ s <= shm'.count => slot'[s].rep <= srv'[slot'[s].name]
  <2>0. s > shm'.count => slot'[s].gen = 0 /\ slot'[s].rep = 0
    BY <1>0 DEF Quiet, OrderOK
  <2>1. slot[s].gen \in Nat /\ slot[s].rep \in Nat /\ s \in Nat /\ s >= 1
    BY <1>1, SlotFields, NodesAssumption DEF Slot
  <2>2. CASE slot[s].name \in moved'
    BY <2>0, <2>2 DEF Quiet
  <2>3. CASE slot[s].name \notin moved'
    <3>1. slot[s].name \notin moved
      BY <2>3 DEF Quiet
    <3>2. slot'[s].gen <= slot'[s].rep
      BY <1>0, <3>1 DEF Quiet, OrderOK
    <3>3. ASSUME s <= shm'.count PROVE slot'[s].rep <= srv'[slot'[s].name]
      <4>1. s <= shm.count /\ s \in 1 .. shm.count
        BY <1>1, <2>1, <3>3 DEF Quiet
      <4>2. slot[s].name # NULL
        BY <1>0, <3>1, <4>1 DEF NamesOK
      <4>3. slot[s].name \in Node
        BY <1>1, <4>2, SlotFields DEF Name
      <4>4. slot[s].rep <= srv[slot[s].name]
        BY <1>0, <3>1, <4>1 DEF OrderOK
      <4>5. srv[slot[s].name] <= srv'[slot[s].name]
        BY <2>3, <4>3 DEF Quiet
      <4>6. slot[s].rep <= srv'[slot[s].name]
        BY <1>1, <2>1, <4>3, <4>4, <4>5
      <4> QED BY <4>6 DEF Quiet
    <3> QED BY <2>0, <3>2, <3>3
  <2> QED BY <2>2, <2>3
<1>4. ASSUME NEW q \in Proc, up'[q] = up[q], Runs(q)' => Runs(q) PROVE Hand(q)'
  <2>1. /\ up[q].slot \in Slot /\ up[q].i \in Node /\ up[q].req \in Nat
    BY <1>0, StoreOne, UpRecord
  <2>2. /\ up[q].i \in moved' \/ srv[up[q].i] <= srv'[up[q].i]
        /\ srv[up[q].i] \in Nat /\ srv'[up[q].i] \in Nat
    BY <1>1, <2>1 DEF Quiet
  <2>3. Hand(q)
    BY <1>0 DEF HandOK
  <2>4. /\ slot'[up[q].slot].name = slot[up[q].slot].name
        /\ slot'[up[q].slot].rep = slot[up[q].slot].rep
        /\ moved \subseteq moved' /\ shm'.count = shm.count /\ shm'.max = shm.max
    BY <2>1 DEF Quiet
  <2>5. up[q].req <= srv[up[q].i] => up[q].i \in moved' \/ up[q].req <= srv'[up[q].i]
    BY <2>1, <2>2
  <2>6. ASSUME \A s \in 1 .. shm.count : slot[s].name # up[q].i
        PROVE  \A s \in 1 .. shm'.count : slot'[s].name # up[q].i
    BY <1>1, <2>6 DEF Quiet
  <2> QED BY <1>4, <2>3, <2>4, <2>5, <2>6 DEF Hand
<1> QED BY <1>2, <1>3, <1>4 DEF OrderOK

\* An updater that has no slot in hand.
LEMMA EmptyHand ==
  ASSUME NEW p \in Proc, up'[p].pc \notin {"count", "replicas", "gen"}
  PROVE  Hand(p)'
  BY DEF Hand

\* A step of one updater leaves those of the others alone.
LEMMA Others ==
  ASSUME Types, NEW p \in Proc, NEW c \in Step, NEW r \in UpdaterRecord
  PROVE  /\ \A q \in Proc : q # p => [up EXCEPT ![p].pc = c][q] = up[q]
         /\ \A q \in Proc : q # p => [up EXCEPT ![p] = r][q] = up[q]
         /\ [up EXCEPT ![p].pc = c][p].pc = c /\ [up EXCEPT ![p] = r][p] = r
         /\ \A q \in Proc : q # p => \A v : [pr EXCEPT ![p] = v][q] = pr[q]
         /\ \A v : [pr EXCEPT ![p] = v][p] = v
<1>1. up[p] \in UpdaterRecord /\ up \in [Proc -> UpdaterRecord] /\ DOMAIN pr = Proc
  BY DEF Types
<1>2. [up[p] EXCEPT !.pc = c].pc = c
  BY <1>1, UpStep
<1> QED BY <1>1, <1>2

\* Steps that leave what the slots hold alone.
LEMMA QuietSteps ==
  ASSUME IInv, [Next]_vars, ~ ub, Types', NEW p \in Proc,
         \/ Create(p) \/ CreateInit(p) \/ Attach(p) \/ UpdaterLocks(p) \/ UpdaterTook(p)
         \/ UpdaterWakes(p) \/ PingFails(p) \/ ShmFree(p) \/ StrayEnds(p) \/ Crash(p) \/ Tender(p)
  PROVE  Quiet
<1>0. Types
  BY DEF IInv
<1>1. srv' = srv /\ moved' = moved
  BY DEF Create, CreateInit, Attach, UpdaterLocks, UpdaterTook, UpdaterWakes, PingFails, ShmFree,
    StrayEnds, Crash, Tender, Look, ReadFind, ReadServer, ReadReplicas, ReadCheck, server
<1>2. moved \subseteq moved' /\ \A n \in Node : n \in moved' \/ srv[n] <= srv'[n]
  BY <1>0, <1>1 DEF Types
<1>3. shm'.count = shm.count /\ shm'.max = shm.max
  <2>1. CASE shm' = shm
    BY <2>1
  <2>2. CASE \E l : shm' = [shm EXCEPT !.lock = l]
    BY <1>0, <2>2 DEF Types
  <2> QED BY <2>1, <2>2 DEF Create, CreateInit, Attach, UpdaterLocks, UpdaterTook, UpdaterWakes,
    PingFails, ShmFree, StrayEnds, Crash, Tender, Look, ReadFind, ReadServer, ReadReplicas, ReadCheck
<1>4. \A s \in Slot :
        slot'[s].name = slot[s].name /\ slot'[s].gen = slot[s].gen /\ slot'[s].rep = slot[s].rep
  <2>1. CASE slot' = slot
    BY <2>1
  <2>0. NULL \in Locked /\ DEAD \in Locked /\ slot \in [Slot -> SlotRecord]
    BY <1>0 DEF Locked, Types
  <2>2. CASE \E t \in Slot : slot' = [slot EXCEPT ![t].lock = NULL]
    <3>1. PICK t \in Slot : slot' = [slot EXCEPT ![t] = [slot[t] EXCEPT !.lock = NULL]]
      BY <2>2
    <3>2. LET v == [slot[t] EXCEPT !.lock = NULL] IN
          v.name = slot[t].name /\ v.gen = slot[t].gen /\ v.rep = slot[t].rep
      BY <2>0, SlotLock
    <3> QED BY <2>0, <3>1, <3>2
  <2>3. CASE slot' = [s \in Slot |-> [slot[s] EXCEPT !.lock = IF @ = p THEN DEAD ELSE @]]
    <3> SUFFICES ASSUME NEW s \in Slot
                 PROVE  LET v == [slot[s] EXCEPT !.lock = IF @ = p THEN DEAD ELSE @] IN
                        v.name = slot[s].name /\ v.gen = slot[s].gen /\ v.rep = slot[s].rep
      BY <2>3
    <3>1. (IF slot[s].lock = p THEN DEAD ELSE slot[s].lock) \in Locked
      BY <2>0, SlotFields
    <3> QED BY <2>0, <3>1, SlotLock
  <2>4. rt[p].slot \in Slot
    BY <1>0 DEF Types, ReadRecord
  <2> QED BY <2>1, <2>2, <2>3, <2>4 DEF Create, CreateInit, Attach, UpdaterLocks, UpdaterTook,
    UpdaterWakes, PingFails, ShmFree, StrayEnds, Crash, Tender, Look, ReadFind, ReadServer, ReadReplicas,
    ReadCheck
<1> QED BY <1>2, <1>3, <1>4 DEF Quiet

\* The updater stays the only one: it has the lock, and gives it up only as it
\* ends.
LEMMA LockNext ==
  ASSUME IInv, [Next]_vars, ~ ub, ~ ub', Types'
  PROVE  LockOK'
<1> DEFINE L(q) == Runs(q) /\ up[q].pc \notin {"off", "lock"} => shm.lock = q
<1>0. Types /\ LockOK
  BY DEF IInv
<1>t. /\ up \in [Proc -> UpdaterRecord] /\ DOMAIN pr = Proc
      /\ shm \in [count : Nat, lock : Locked, max : Slot] /\ Off.pc = "off"
  BY <1>0 DEF Types, Off
<1>f. ASSUME NEW p \in Proc, shm'.lock = shm.lock,
             \A q \in Proc : q # p => up'[q] = up[q] /\ pr'[q] = pr[q],
             L(p)'
      PROVE  LockOK'
  BY <1>0, <1>f DEF LockOK, Runs
<1>s. {"lock", "took", "sleep", "ping", "count", "replicas", "gen"} \subseteq Step
  BY DEF Step
\* Who did not update before, or still has the lock.
<1>1. ASSUME NEW p \in Proc, Create(p) PROVE LockOK'
  BY <1>0, <1>1, <1>t DEF Create, LockOK, RestOK, Runs, IInv
<1>2. ASSUME NEW p \in Proc, CreateInit(p) \/ Attach(p) PROVE LockOK'
  <2>1. up'[p].pc = "lock" /\ shm' = shm
    <3>1. "lock" \in Step /\ up[p] \in UpdaterRecord
      BY <1>s, <1>t
    <3>2. [up[p] EXCEPT !.pc = "lock"].pc = "lock"
      BY <3>1, UpStep
    <3> QED BY <1>2, <1>t, <3>2 DEF CreateInit, Attach
  <2>2. \A q \in Proc : q # p => up'[q] = up[q] /\ pr'[q] = pr[q]
    BY <1>2, <1>t DEF CreateInit, Attach
  <2> QED BY <1>f, <2>1, <2>2
<1>3. ASSUME NEW p \in Proc, UpdaterLocks(p) PROVE LockOK'
  <2>1. shm.lock \in {NULL, DEAD} /\ shm'.lock = p
    BY <1>3, <1>t DEF UpdaterLocks, Lockable, Free
  <2>2. \A q \in Proc : q # p => up'[q] = up[q] /\ pr'[q] = pr[q]
    BY <1>3, <1>t DEF UpdaterLocks
  <2> QED BY <1>0, <2>1, <2>2, NullAssumption DEF LockOK, Runs
<1>4. ASSUME NEW p \in Proc,
             UpdaterTook(p) \/ PingInfo(p) \/ PingFails(p) \/ PingCount(p) \/ PingReplicas(p)
             \/ PingGen(p) \/ (UpdaterWakes(p) /\ pr[p] # "leaving")
      PROVE  LockOK'
  <2>1. shm.lock = p
    BY <1>0, <1>4 DEF LockOK, At, UpdaterTook, PingInfo, PingFails, PingCount, PingReplicas, PingGen,
      UpdaterWakes
  <2>2. shm'.lock = shm.lock
    BY <1>4, <1>t DEF UpdaterTook, PingInfo, PingFails, PingCount, PingReplicas, PingGen, UpdaterWakes
  <2>3. \A q \in Proc : q # p => up'[q] = up[q] /\ pr'[q] = pr[q]
    BY <1>4, <1>t DEF UpdaterTook, PingInfo, PingFails, PingCount, PingReplicas, PingGen,
      UpdaterWakes, Skip
  <2> QED BY <1>f, <2>1, <2>2, <2>3
\* A process that goes, with the lock or without, which may stay held.
<1>5. ASSUME NEW p \in Proc,
             /\ pr' = [pr EXCEPT ![p] = "left"] \/ pr' = [pr EXCEPT ![p] = "dead"]
             /\ shm' = shm \/ shm' = [shm EXCEPT !.lock = Orphaned(p)]
             /\ up' = up \/ Gone(p)
      PROVE  LockOK'
  <2>1. ~ Runs(p)'
    BY <1>5, <1>t DEF Runs
  <2>2. \A q \in Proc : q # p => up'[q] = up[q] /\ pr'[q] = pr[q]
    BY <1>5, <1>t DEF Gone
  <2>3. shm'.lock \in {shm.lock, Orphaned(p)}
    BY <1>5, <1>t
  <2> QED BY <1>0, <2>1, <2>2, <2>3 DEF LockOK, Runs, Orphaned
<1>6. ASSUME NEW p \in Proc, ShmFree(p) PROVE LockOK'
  <2>1. CASE up[p].pc \in {"lock", "took"}
    BY <1>5, <1>6, <2>1 DEF ShmFree, Unmap
  <2>2. CASE up[p].pc \notin {"lock", "took"}
    <3>1. shm' = shm /\ up' = up /\ Runs(p) /\ pr' = [pr EXCEPT ![p] = "leaving"]
      BY <1>6, <2>2 DEF ShmFree, Runs
    <3> QED BY <1>0, <1>t, <3>1 DEF LockOK, Runs
  <2> QED BY <2>1, <2>2
<1>13. ASSUME NEW p \in Proc, StrayEnds(p) PROVE LockOK'
  <2>1. ~ Runs(p) /\ pr' = pr
    BY <1>13 DEF StrayEnds, Runs
  <2>2. \A q \in Proc : q # p => up'[q] = up[q]
    BY <1>13, <1>t DEF StrayEnds
  <2>3. shm'.lock = shm.lock \/ shm.lock = DEAD
    BY <1>13 DEF StrayEnds
  <2> QED BY <1>0, <2>1, <2>2, <2>3, NullAssumption DEF LockOK, Runs
<1>7. ASSUME NEW p \in Proc, Crash(p) PROVE LockOK'
  BY <1>5, <1>7 DEF Crash
<1>8. ASSUME NEW p \in Proc, UpdaterWakes(p), pr[p] = "leaving" PROVE LockOK'
  BY <1>5, <1>8 DEF UpdaterWakes, Unmap
<1>9. ASSUME UNCHANGED <<shm, pr, up>> PROVE LockOK'
  BY <1>0, <1>9 DEF LockOK, Runs
<1>10. ASSUME NEW p \in Proc, Tender(p) PROVE LockOK'
  BY <1>9, <1>10 DEF Tender, Look, ReadFind, ReadServer, ReadCheck, ReadReplicas
<1>11. ASSUME NEW n \in Moving, Revote(n) \/ \E m \in NewNames : Replace(n, m) PROVE LockOK'
  BY <1>9, <1>11 DEF Revote, Replace
<1>12. CASE UNCHANGED vars
  BY <1>9, <1>12 DEF vars
<1> QED BY <1>1, <1>2, <1>3, <1>4, <1>6, <1>7, <1>8, <1>10, <1>11, <1>12, <1>13, ReadersAssumption
  DEF Next, Updater, Ping

\* No thread of a process that has not begun moves.
LEMMA RestNext ==
  ASSUME IInv, [Next]_vars, ~ ub, ~ ub', Types'
  PROVE  RestOK'
<1>0. Types /\ RestOK
  BY DEF IInv
<1>t. up \in [Proc -> UpdaterRecord] /\ DOMAIN pr = Proc /\ Off.pc = "off"
  BY <1>0 DEF Types, Off
<1>1. ASSUME NEW p \in Proc, Create(p) PROVE RestOK'
  BY <1>0, <1>1, <1>t DEF Create, RestOK
<1>2. ASSUME NEW p \in Proc, pr'[p] \notin {"new", "creating"},
             \A q \in Proc : q # p => up'[q] = up[q] /\ pr'[q] = pr[q]
      PROVE  RestOK'
  BY <1>0, <1>2 DEF RestOK
<1>3. ASSUME NEW p \in Proc, CreateInit(p) \/ Attach(p) PROVE RestOK'
  BY <1>2, <1>3, <1>t DEF CreateInit, Attach
<1>4. ASSUME NEW p \in Proc, Updater(p) \/ PingFails(p) PROVE RestOK'
  <2>1. pr[p] \notin {"new", "creating"}
    BY <1>0, <1>4 DEF RestOK, Updater, Ping, At, UpdaterLocks, UpdaterTook, PingInfo, PingFails,
      PingCount, PingReplicas, PingGen, UpdaterWakes
  <2>2. pr' = pr \/ pr' = [pr EXCEPT ![p] = "left"]
    BY <1>4 DEF Updater, Ping, UpdaterLocks, UpdaterTook, PingInfo, PingFails,
      PingCount, PingReplicas, PingGen, UpdaterWakes, Unmap
  <2>3. \A q \in Proc : q # p => up'[q] = up[q]
    BY <1>4, <1>t DEF Updater, Ping, UpdaterLocks, UpdaterTook, PingInfo, PingFails,
      PingCount, PingReplicas, PingGen, UpdaterWakes, Skip, Gone
  <2> QED BY <1>2, <1>t, <2>1, <2>2, <2>3
<1>5. ASSUME NEW p \in Proc, ShmFree(p) \/ Crash(p) PROVE RestOK'
  BY <1>2, <1>5, <1>t DEF ShmFree, Crash, Gone, Unmap
<1>10. ASSUME NEW p \in Proc, StrayEnds(p) PROVE RestOK'
  BY <1>2, <1>10, <1>t DEF StrayEnds
<1>6. ASSUME UNCHANGED <<pr, up>> PROVE RestOK'
  BY <1>0, <1>6 DEF RestOK
<1>7. ASSUME NEW p \in Proc, Tender(p) PROVE RestOK'
  BY <1>6, <1>7 DEF Tender, Look, ReadFind, ReadServer, ReadCheck, ReadReplicas
<1>8. ASSUME NEW n \in Moving, Revote(n) \/ \E m \in NewNames : Replace(n, m) PROVE RestOK'
  BY <1>6, <1>8 DEF Revote, Replace
<1>9. CASE UNCHANGED vars
  BY <1>6, <1>9 DEF vars
<1> QED BY <1>1, <1>3, <1>4, <1>5, <1>7, <1>8, <1>9, <1>10, ReadersAssumption DEF Next

\* Nobody writes into a segment that is not locked.
LEMMA BlankNext ==
  ASSUME IInv, [Next]_vars, ~ ub, ~ ub', Types'
  PROVE  BlankOK'
<1> SUFFICES ASSUME seg' # "ready", shm'.lock = NULL
             PROVE  shm'.count = 0 /\ \A s \in Slot : slot'[s] = Fresh
  BY DEF BlankOK
<1>0. Types /\ BlankOK /\ LockOK
  BY DEF IInv
<1>t. shm \in [count : Nat, lock : Locked, max : Slot] /\ slot \in [Slot -> SlotRecord]
  BY <1>0 DEF Types
<1>1. seg # "ready"
  BY <1>0 DEF Next, Updater, Ping, Tender, Create, CreateInit, Attach, UpdaterLocks, UpdaterTook,
    UpdaterWakes, PingInfo, PingFails, PingCount, PingReplicas, PingGen, Look, ReadFind, ReadServer,
    ReadCheck, ReadReplicas, ShmFree, StrayEnds, Crash, Revote, Replace, vars
<1>2. ASSUME NEW p \in Proc, Updater(p) \/ PingFails(p) PROVE FALSE
  <2>1. CASE UpdaterLocks(p)
    BY <1>t, <2>1, NullAssumption DEF UpdaterLocks
  <2>2. CASE ~ UpdaterLocks(p)
    <3>1. shm.lock = p
      BY <1>0, <1>2, <2>2 DEF LockOK, Updater, Ping, At, UpdaterTook, PingInfo, PingFails,
        PingCount, PingReplicas, PingGen, UpdaterWakes
    <3>2. shm'.lock \in {shm.lock, Orphaned(p)}
      BY <1>2, <2>2, <1>t DEF Updater, Ping, UpdaterTook, PingInfo, PingFails,
        PingCount, PingReplicas, PingGen, UpdaterWakes
    <3>3. Orphaned(p) = p
      BY <1>1, <3>1 DEF Orphaned
    <3> QED BY <3>1, <3>2, <3>3, NullAssumption
  <2> QED BY <2>1, <2>2
<1>3. shm.lock = NULL
  <2>1. CASE shm' = shm
    BY <2>1
  <2>2. ASSUME NEW p \in Proc, shm' = [shm EXCEPT !.lock = Orphaned(p)] PROVE shm.lock = NULL
    BY <1>1, <1>t, <2>2 DEF Orphaned
  <2>3. ASSUME NEW p \in Proc, shm' = [shm EXCEPT !.lock = p] PROVE FALSE
    BY <1>t, <2>3, NullAssumption
  <2> QED BY <1>2, <2>1, <2>2, <2>3 DEF Next, Tender, Look, Create, CreateInit, Attach, ReadFind, ReadServer,
    ReadCheck, ReadReplicas, ShmFree, StrayEnds, Crash, Revote, Replace, vars
<1>4. shm.count = 0 /\ \A s \in Slot : slot[s] = Fresh
  BY <1>0, <1>1, <1>3 DEF BlankOK
<1>6. shm'.count = shm.count
  BY <1>2, <1>t DEF Next, Tender, Look, Create, CreateInit, Attach, ReadFind, ReadServer, ReadCheck,
    ReadReplicas, ShmFree, StrayEnds, Crash, Revote, Replace, vars
<1>7. \A s \in Slot : slot'[s] = slot[s]
  <2>1. CASE slot' = slot
    BY <2>1
  <2>2. ASSUME NEW p \in Proc, Crash(p) PROVE \A s \in Slot : slot'[s] = slot[s]
    <3>1. \A s \in Slot : slot[s].lock # p
      BY <1>4, NullAssumption DEF Fresh
    <3>2. \A s \in Slot : slot'[s] = [slot[s] EXCEPT !.lock = slot[s].lock]
      BY <2>2, <3>1 DEF Crash
    <3>3. ASSUME NEW r \in SlotRecord PROVE [r EXCEPT !.lock = r.lock] = r
      BY DEF SlotRecord
    <3> QED BY <1>t, <3>2, <3>3
  <2>3. ASSUME NEW p \in Proc, ReadCheck(p) \/ ReadReplicas(p) PROVE \A s \in Slot : slot'[s] = slot[s]
    <3>1. rt[p].slot \in Slot
      BY <1>0 DEF Types, ReadRecord
    <3>2. slot' = [slot EXCEPT ![rt[p].slot] = [Fresh EXCEPT !.lock = NULL]]
      BY <1>4, <2>3, <3>1 DEF ReadCheck, ReadReplicas
    <3>3. [Fresh EXCEPT !.lock = NULL] = Fresh
      BY DEF Fresh
    <3> QED BY <1>t, <1>4, <3>1, <3>2, <3>3
  <2> QED BY <1>2, <2>1, <2>2, <2>3, ReadersAssumption DEF Next, Tender, Look, Create, CreateInit, Attach,
    ReadFind, ReadServer, ShmFree, StrayEnds, Revote, Replace, vars
<1> QED BY <1>4, <1>6, <1>7

\* What is said of the slots, and of the slot in hand.
SlotsOK == NamesOK /\ HandOK /\ OrderOK

\* A step that leaves the slots alone, and no slot in the hand of who takes it.
LEMMA QuietSlots ==
  ASSUME IInv, [Next]_vars, ~ ub, ~ ub', Types', NEW p \in Proc,
         \/ Create(p) \/ CreateInit(p) \/ Attach(p) \/ UpdaterLocks(p) \/ UpdaterTook(p)
         \/ UpdaterWakes(p) \/ PingFails(p) \/ ShmFree(p) \/ StrayEnds(p) \/ Crash(p) \/ Tender(p)
  PROVE  SlotsOK'
<1>0. Types /\ RestOK
  BY DEF IInv
<1>t. up \in [Proc -> UpdaterRecord] /\ DOMAIN pr = Proc /\ Off.pc = "off"
  BY <1>0 DEF Types, Off
<1>1. Quiet
  BY QuietSteps
<1>2. ASSUME NEW q \in Proc, q # p PROVE up'[q] = up[q] /\ pr'[q] = pr[q]
  BY <1>2, <1>t DEF Tender, Create, CreateInit, Attach, UpdaterLocks, UpdaterTook, UpdaterWakes,
    PingFails, ShmFree, StrayEnds, Crash, Look, ReadFind, ReadServer, ReadReplicas, ReadCheck, Skip, Gone, Unmap
<1>3. (up'[p] = up[p] /\ (Runs(p)' => Runs(p))) \/ up'[p].pc \notin {"count", "replicas", "gen"}
  <2>1. CASE up' = up
    BY <1>0, <1>t, <2>1 DEF RestOK, Tender, Create, CreateInit, Attach, UpdaterLocks, UpdaterTook, UpdaterWakes,
      PingFails, ShmFree, StrayEnds, Crash, Look, ReadFind, ReadServer, ReadReplicas, ReadCheck, Unmap, Runs
  <2>2. CASE up' = [up EXCEPT ![p] = Off]
    BY <1>t, <2>2
  <2>3. CASE up' = [up EXCEPT ![p] = Onward(up[p])]
    BY <1>t, <2>3, ConstTypes
  <2>4. ASSUME NEW c \in {"lock", "took", "sleep", "ping"}, up' = [up EXCEPT ![p].pc = c]
        PROVE  up'[p].pc \notin {"count", "replicas", "gen"}
    <3>1. [up[p] EXCEPT !.pc = c].pc = c
      BY <1>t, UpStep DEF Step
    <3> QED BY <1>t, <2>4, <3>1
  <2> QED BY <2>1, <2>2, <2>3, <2>4 DEF Tender, Create, CreateInit, Attach, UpdaterLocks, UpdaterTook, UpdaterWakes,
    PingFails, ShmFree, StrayEnds, Crash, Look, ReadFind, ReadServer, ReadReplicas, ReadCheck, Skip, Gone
<1>4. ASSUME NEW q \in Proc PROVE Hand(q)'
  <2>1. CASE q = p
    BY <1>1, <1>3, <2>1, QuietKeeps, EmptyHand
  <2>2. CASE q # p
    <3>1. up'[q] = up[q] /\ (Runs(q)' => Runs(q))
      BY <1>2, <2>2 DEF Runs
    <3> QED BY <1>1, <3>1, QuietKeeps
  <2> QED BY <2>1, <2>2
<1>5. NamesOK' /\ OrderOK'
  BY <1>1, QuietKeeps
<1> QED BY <1>4, <1>5 DEF SlotsOK, HandOK

\* The steps of a ping: nobody else has a slot in hand.
LEMMA PingOthers ==
  ASSUME IInv, ~ ub, NEW p \in Proc, PingInfo(p) \/ PingCount(p) \/ PingReplicas(p) \/ PingGen(p),
         Hand(p)'
  PROVE  HandOK'
<1>t. up \in [Proc -> UpdaterRecord]
  BY DEF IInv, Types
<1>1. Runs(p) /\ up[p].pc \notin {"off", "lock"}
  BY DEF PingInfo, PingCount, PingReplicas, PingGen, At
<1>2. ASSUME NEW q \in Proc, q # p PROVE Hand(q)'
  <2>1. up'[q] = up[q] /\ pr' = pr
    BY <1>2, <1>t DEF PingInfo, PingCount, PingReplicas, PingGen, Skip
  <2>2. ~ Runs(q) \/ up[q].pc \in {"off", "lock"}
    BY <1>1, <1>2, Alone
  <2> QED BY <2>1, <2>2 DEF Hand, Runs
<1> QED BY <1>2 DEF HandOK

\* What IInv says of the slots and of who has one in hand.
LEMMA SlotFacts ==
  ASSUME IInv, ~ ub
  PROVE  /\ Types /\ MovedOK /\ NamesOK /\ HandOK /\ OrderOK
         /\ shm.count \in Nat /\ shm.max \in Nat /\ 1 .. shm.count \subseteq Slot
         /\ Slot \subseteq Nat /\ \A s \in Slot : s >= 1
         /\ \A s \in Slot : slot[s] \in SlotRecord /\ slot[s].gen \in Nat /\ slot[s].rep \in Nat
         /\ \A s \in Slot : slot[s].name \in Name /\ (s <= shm.count => slot[s].name \in Node \cup moved)
         /\ \A n \in Node : srv[n] \in Nat
<1>1. Types /\ MovedOK /\ NamesOK /\ HandOK /\ OrderOK /\ CountOK
  BY DEF IInv
<1>2. /\ shm.count \in Nat /\ shm.max \in Nat /\ 1 .. shm.count \subseteq Slot
      /\ Slot \subseteq Nat /\ \A s \in Slot : s >= 1
  BY <1>1, NodesAssumption DEF Types, CountOK, Slot
<1>3. \A s \in Slot : slot[s] \in SlotRecord /\ slot[s].gen \in Nat /\ slot[s].rep \in Nat
                      /\ slot[s].name \in Name
  BY <1>1, SlotFields DEF Types
<1>4. ASSUME NEW s \in Slot, s <= shm.count PROVE slot[s].name \in Node \cup moved
  <2>1. s \in 1 .. shm.count
    BY <1>2, <1>4
  <2> QED BY <1>1, <1>3, <2>1 DEF NamesOK, Name
<1> QED BY <1>1, <1>2, <1>3, <1>4 DEF Types

\* The name is written: into the slot that has it, or behind the last.
LEMMA PingInfoSlots ==
  ASSUME IInv, ~ ub, Types', NEW p \in Proc, PingInfo(p)
  PROVE  SlotsOK'
<1> DEFINE n == up[p].i
           s == Place(n)
           a == Named(n) = {}
           b == Stale(s, srv[n])
           v == [slot[s] EXCEPT !.name = says[n], !.lock = NULL]
           w == [up[p] EXCEPT !.pc = "count", !.req = srv[n], !.slot = s, !.add = a, !.stale = b]
<1>0. /\ Types /\ up \in [Proc -> UpdaterRecord] /\ up[p] \in UpdaterRecord /\ slot \in [Slot -> SlotRecord]
      /\ n \in Node /\ srv' = srv /\ shm' = shm /\ pr' = pr /\ srv[n] \in Nat
      /\ says[n] \in Name /\ moved' = moved /\ (says[n] = n \/ (n \in moved /\ says[n] \in moved))
  <2>1. Types /\ MovedOK
    BY DEF IInv
  <2>2. up[p] \in UpdaterRecord /\ n \in Node
    BY <2>1, StoreOne, UpRecord
  <2> QED BY <2>1, <2>2 DEF Types, MovedOK, PingInfo, server
<1>1. CASE ~ Room(n)
  <2>1. slot' = slot /\ up' = [up EXCEPT ![p] = Onward(up[p])]
    BY <1>1 DEF PingInfo, Skip
  <2>2. Quiet
    BY <1>0, <2>1 DEF Quiet, Types
  <2>3. up'[p].pc \notin {"count", "replicas", "gen"}
    BY <1>0, <2>1, ConstTypes
  <2> QED BY <2>2, <2>3, QuietKeeps, EmptyHand, PingOthers DEF SlotsOK
<1>2. CASE Room(n)
  <2>1. slot' = [slot EXCEPT ![s] = v] /\ up' = [up EXCEPT ![p] = w]
    BY <1>2 DEF PingInfo
  <2>2. /\ s \in Slot /\ s <= shm.max
        /\ a => s = shm.count + 1 /\ s <= shm.max
        /\ ~ a => s <= shm.count /\ slot[s].name = n
    BY <1>0, <1>2, PlaceOK, SlotFacts DEF IInv, CountOK, Named
  <2>3. v.name = says[n] /\ v.gen = slot[s].gen /\ v.rep = slot[s].rep
    <3>1. NULL \in Locked /\ slot[s] \in SlotRecord
      BY <1>0, <2>2 DEF Locked
    <3> HIDE DEF s, n
    <3> QED BY <1>0, <3>1 DEF SlotRecord
  <2>4. /\ slot'[s].name = says[n] /\ slot'[s].gen = slot[s].gen /\ slot'[s].rep = slot[s].rep
        /\ \A t \in Slot : t # s => slot'[t] = slot[t]
    BY <1>0, <2>1, <2>2, <2>3
  <2>5. w.pc = "count" /\ w.i = n /\ w.slot = s /\ w.add = a /\ w.req = srv[n]
    <3>1. a \in BOOLEAN /\ b \in BOOLEAN
      BY DEF Stale
    <3> HIDE DEF a, b, s
    <3> QED BY <1>0, <2>2, <3>1, UpAnswer
  <2>6. up'[p] = w
    BY <1>0, <2>1
  <2>7. a => \A t \in 1 .. shm.count : slot[t].name # n
    BY DEF Named
  <2> HIDE DEF a, b, s, n, v, w
  \* A counted slot's name is what it was, or one that servers gave up or took.
  <2>8. \A t \in 1 .. shm.count : slot'[t].name = slot[t].name \/ slot'[t].name \in moved
    BY <1>0, <2>2, <2>4, SlotFacts
  <2>9. NamesOK'
    <3> SUFFICES ASSUME NEW x \in 1 .. shm.count, NEW y \in 1 .. shm.count, slot'[x].name \notin moved
                 PROVE  slot'[x].name # NULL /\ (slot'[x].name = slot'[y].name => x = y)
      BY <1>0 DEF NamesOK
    <3>1. slot'[x].name = slot[x].name
      BY <2>8
    <3>2. slot'[y].name = slot[y].name \/ slot'[x].name # slot'[y].name
      BY <2>8
    <3> QED BY <3>1, <3>2, SlotFacts DEF NamesOK
  <2>10. OrderOK'
    <3> SUFFICES ASSUME NEW x \in Slot
                 PROVE  /\ x > shm.count => slot'[x].gen = 0 /\ slot'[x].rep = 0
                        /\ slot'[x].name \notin moved =>
                             /\ slot'[x].gen <= slot'[x].rep
                             /\ x <= shm.count => slot'[x].rep <= srv[slot'[x].name]
      BY <1>0 DEF OrderOK
    <3>1. slot'[x].gen = slot[x].gen /\ slot'[x].rep = slot[x].rep
      BY <2>4
    <3>2. x > shm.count => slot[x].gen = 0 /\ slot[x].rep = 0
      BY SlotFacts DEF OrderOK
    <3>3. CASE x > shm.count
      BY <3>1, <3>2, <3>3, SlotFacts
    <3>4. CASE ~ (x > shm.count)
      <4>1. x \in 1 .. shm.count
        BY <3>4, SlotFacts
      <4>2. slot'[x].name = slot[x].name \/ slot'[x].name \in moved
        BY <2>8, <4>1
      <4> QED BY <3>1, <3>4, <4>2, SlotFacts DEF OrderOK
    <3> QED BY <3>3, <3>4
  <2>11. n \in moved \/ \A t \in 1 .. shm.count : slot'[t].name = slot[t].name
    BY <1>0, <2>2, <2>4, SlotFacts
  <2>12. Hand(p)'
    <3>1. /\ up'[p].pc = "count" /\ up'[p].i = n /\ up'[p].slot = s /\ up'[p].add = a
          /\ up'[p].req = srv[n]
      BY <2>5, <2>6
    <3>2. slot'[s].name = n \/ (n \in moved' /\ slot'[s].name \in moved')
      BY <1>0, <2>4
    <3>3. s <= shm'.count \/ a
      BY <1>0, <2>2
    <3>4. srv[n] <= srv'[n]
      BY <1>0
    <3>5. a => /\ s = shm'.count + 1 /\ s <= shm'.max
               /\ n \in moved' \/ \A t \in 1 .. shm'.count : slot'[t].name # n
      BY <1>0, <2>2, <2>7, <2>11
    <3> QED BY <3>1, <3>2, <3>3, <3>4, <3>5 DEF Hand
  <2> QED BY <2>9, <2>10, <2>12, PingOthers DEF SlotsOK
<1> QED BY <1>1, <1>2

\* A new slot is counted.
LEMMA PingCountSlots ==
  ASSUME IInv, ~ ub, Types', NEW p \in Proc, PingCount(p)
  PROVE  SlotsOK'
<1> DEFINE s == up[p].slot
<1>0. /\ Types /\ up \in [Proc -> UpdaterRecord] /\ up[p] \in UpdaterRecord
      /\ srv' = srv /\ moved' = moved /\ slot' = slot /\ pr' = pr /\ s \in Slot
      /\ up[p].i \in Node /\ up[p].req \in Nat /\ up[p].pc = "count" /\ Runs(p)
  BY StoreOne, UpRecord DEF IInv, Types, PingCount, At, server
<1>1. /\ shm'.count = IF up[p].add THEN shm.count + 1 ELSE shm.count
      /\ shm'.max = shm.max
  BY <1>0 DEF PingCount, Types
<1>2. /\ slot[s].name = up[p].i \/ (up[p].i \in moved /\ slot[s].name \in moved)
      /\ up[p].i \in moved \/ up[p].req <= srv[up[p].i]
      /\ s <= shm.count \/ up[p].add
      /\ up[p].add => s = shm.count + 1
      /\ up[p].add => up[p].i \in moved \/ \A t \in 1 .. shm.count : slot[t].name # up[p].i
  BY <1>0, SlotFacts DEF HandOK, Hand
<1>3. up'[p] = Onward(up[p]) \/ up'[p] = [up[p] EXCEPT !.pc = "replicas"]
  BY <1>0 DEF PingCount, Skip
<1>4. \/ up'[p].pc \in {"ping", "sleep"}
      \/ up'[p].pc = "replicas" /\ up'[p].i = up[p].i /\ up'[p].slot = s /\ up'[p].req = up[p].req
  <2>1. "replicas" \in Step
    BY DEF Step
  <2>2. LET v == [up[p] EXCEPT !.pc = "replicas"] IN
        v.pc = "replicas" /\ v.i = up[p].i /\ v.slot = s /\ v.req = up[p].req
    BY <1>0, <2>1, UpStep
  <2>3. Onward(up[p]).pc \in {"ping", "sleep"}
    BY <1>0, ConstTypes
  <2> QED BY <1>3, <2>2, <2>3
<1>5. s <= shm'.count
  BY <1>0, <1>1, <1>2, SlotFacts
<1>6. Hand(p)'
  BY <1>0, <1>2, <1>4, <1>5 DEF Hand
<1>7. CASE ~ up[p].add
  <2>1. Quiet
    BY <1>0, <1>1, <1>7, SlotFacts DEF Quiet
  <2> QED BY <1>6, <2>1, QuietKeeps, PingOthers DEF SlotsOK
<1>8. CASE up[p].add
  <2>1. shm'.count = s /\ s = shm.count + 1
    BY <1>1, <1>2, <1>8
  <2>2. up[p].i # NULL
    BY <1>0, NullAssumption
  <2>3. NamesOK'
    <3> SUFFICES ASSUME NEW x \in 1 .. shm.count + 1, NEW y \in 1 .. shm.count + 1,
                        slot[x].name \notin moved
                 PROVE  slot[x].name # NULL /\ (slot[x].name = slot[y].name => x = y)
      BY <1>0, <2>1 DEF NamesOK
    <3>1. x \in 1 .. shm.count \/ x = s
      BY <2>1, SlotFacts
    <3>2. y \in 1 .. shm.count \/ y = s
      BY <2>1, SlotFacts
    <3>3. slot[s].name \notin moved => slot[s].name = up[p].i /\ \A t \in 1 .. shm.count : slot[t].name # slot[s].name
      BY <1>2, <1>8
    <3>4. CASE x = s
      BY <2>2, <3>2, <3>3, <3>4
    <3>5. CASE x \in 1 .. shm.count /\ y = s
      <4>1. slot[x].name # slot[y].name
        BY <3>3, <3>5
      <4>2. slot[x].name # NULL
        BY <3>5, SlotFacts DEF NamesOK
      <4> QED BY <4>1, <4>2
    <3>6. CASE x \in 1 .. shm.count /\ y \in 1 .. shm.count
      BY <3>6, SlotFacts DEF NamesOK
    <3> QED BY <3>1, <3>2, <3>4, <3>5, <3>6
  <2>4. slot[s].gen = 0 /\ slot[s].rep = 0
    BY <1>0, <2>1, SlotFacts DEF OrderOK
  <2>5. OrderOK'
    <3> SUFFICES ASSUME NEW x \in Slot
                 PROVE  /\ x > shm.count + 1 => slot[x].gen = 0 /\ slot[x].rep = 0
                        /\ slot[x].name \notin moved =>
                             /\ slot[x].gen <= slot[x].rep
                             /\ x <= shm.count + 1 => slot[x].rep <= srv[slot[x].name]
      BY <1>0, <2>1 DEF OrderOK
    <3>1. CASE x = s
      <4>1. slot[s].name \notin moved => slot[s].name \in Node
        BY <1>0, <1>2
      <4>2. slot[s].name \notin moved => 0 <= srv[slot[s].name]
        BY <4>1, SlotFacts
      <4> QED BY <2>1, <2>4, <3>1, <4>2, SlotFacts
    <3>2. CASE x # s
      <4>1. x > shm.count + 1 => x > shm.count
        BY SlotFacts
      <4>2. x <= shm.count + 1 => x <= shm.count
        BY <2>1, <3>2, SlotFacts
      <4> QED BY <4>1, <4>2, SlotFacts DEF OrderOK
    <3> QED BY <3>1, <3>2
  <2> QED BY <1>6, <2>3, <2>5, PingOthers DEF SlotsOK
<1> QED BY <1>7, <1>8

\* The replicas are written: the server made them no earlier than its answer to
\* the first request.
LEMMA PingReplicasSlots ==
  ASSUME IInv, ~ ub, Types', NEW p \in Proc, PingReplicas(p)
  PROVE  SlotsOK'
<1> DEFINE s == up[p].slot
           n == up[p].i
           v == [[slot[s] EXCEPT !.rep = srv[n]] EXCEPT !.lock = p]
<1>0. /\ Types /\ up \in [Proc -> UpdaterRecord] /\ up[p] \in UpdaterRecord /\ slot \in [Slot -> SlotRecord]
      /\ srv' = srv /\ moved' = moved /\ shm' = shm /\ pr' = pr /\ s \in Slot
      /\ n \in Node /\ up[p].req \in Nat /\ up[p].pc = "replicas" /\ Runs(p)
  BY StoreOne, UpRecord DEF IInv, Types, PingReplicas, At, server
<1>1. slot' = [slot EXCEPT ![s] = v] /\ up' = [up EXCEPT ![p] = [up[p] EXCEPT !.pc = "gen"]]
  BY DEF PingReplicas, Writes
<1>2. v.name = slot[s].name /\ v.gen = slot[s].gen /\ v.rep = srv[n]
  <2>1. p \in Locked /\ slot[s] \in SlotRecord /\ srv[n] \in Nat
    BY <1>0, SlotFacts DEF Locked
  <2> HIDE DEF s, n
  <2> QED BY <2>1 DEF SlotRecord
<1>3. /\ slot[s].name = n \/ (n \in moved /\ slot[s].name \in moved)
      /\ n \in moved \/ up[p].req <= srv[n]
      /\ s <= shm.count
  BY <1>0, SlotFacts DEF HandOK, Hand
<1>4. up'[p].pc = "gen" /\ up'[p].i = n /\ up'[p].slot = s /\ up'[p].req = up[p].req
  <2>1. "gen" \in Step /\ up'[p] = [up[p] EXCEPT !.pc = "gen"]
    BY <1>0, <1>1 DEF Step
  <2> QED BY <1>0, <2>1, UpStep
<1>5. /\ slot'[s].name = slot[s].name /\ slot'[s].gen = slot[s].gen /\ slot'[s].rep = srv[n]
      /\ \A t \in Slot : t # s => slot'[t] = slot[t]
  BY <1>0, <1>1, <1>2
<1> HIDE DEF v
<1>6. \A t \in Slot : slot'[t].name = slot[t].name
  BY <1>5
<1>7. NamesOK'
  BY <1>0, <1>6, SlotFacts DEF NamesOK
<1>8. slot[s].name \notin moved => slot[s].gen <= srv[n]
  <2> HAVE slot[s].name \notin moved
  <2>1. slot[s].name = n /\ slot[s].gen <= slot[s].rep /\ slot[s].rep <= srv[n]
    BY <1>0, <1>3, SlotFacts DEF OrderOK
  <2> QED BY <1>0, <2>1, SlotFacts
<1>9. OrderOK'
  <2> SUFFICES ASSUME NEW x \in Slot
               PROVE  /\ x > shm.count => slot'[x].gen = 0 /\ slot'[x].rep = 0
                      /\ slot'[x].name \notin moved =>
                           /\ slot'[x].gen <= slot'[x].rep
                           /\ x <= shm.count => slot'[x].rep <= srv[slot'[x].name]
    BY <1>0 DEF OrderOK
  <2>1. CASE x = s
    BY <1>0, <1>3, <1>5, <1>8, <2>1, SlotFacts
  <2>2. CASE x # s
    BY <1>5, <2>2, SlotFacts DEF OrderOK
  <2> QED BY <2>1, <2>2
<1>10. Hand(p)'
  BY <1>0, <1>3, <1>4, <1>5 DEF Hand
<1> QED BY <1>7, <1>9, <1>10, PingOthers DEF SlotsOK

\* The generation is written last.
LEMMA PingGenSlots ==
  ASSUME IInv, ~ ub, Types', NEW p \in Proc, PingGen(p)
  PROVE  SlotsOK'
<1> DEFINE s == up[p].slot
           n == up[p].i
           v == [[slot[s] EXCEPT !.gen = up[p].req] EXCEPT !.lock = NULL]
<1>0. /\ Types /\ up \in [Proc -> UpdaterRecord] /\ up[p] \in UpdaterRecord /\ slot \in [Slot -> SlotRecord]
      /\ srv' = srv /\ moved' = moved /\ shm' = shm /\ pr' = pr /\ s \in Slot
      /\ n \in Node /\ up[p].req \in Nat /\ up[p].pc = "gen" /\ Runs(p)
  BY StoreOne, UpRecord DEF IInv, Types, PingGen, At, server
<1>1. slot' = [slot EXCEPT ![s] = v] /\ up' = [up EXCEPT ![p] = Onward(up[p])]
  BY DEF PingGen, Skip, Writes
<1>2. v.name = slot[s].name /\ v.gen = up[p].req /\ v.rep = slot[s].rep
  <2>1. NULL \in Locked /\ slot[s] \in SlotRecord
    BY <1>0 DEF Locked
  <2> HIDE DEF s
  <2> QED BY <1>0, <2>1 DEF SlotRecord
<1>3. /\ n \in moved \/ up[p].req <= slot[s].rep
      /\ slot[s].name = n \/ (n \in moved /\ slot[s].name \in moved)
      /\ s <= shm.count
  BY <1>0, SlotFacts DEF HandOK, Hand
<1>4. up'[p].pc \notin {"count", "replicas", "gen"}
  BY <1>0, <1>1, ConstTypes
<1>5. /\ slot'[s].name = slot[s].name /\ slot'[s].gen = up[p].req /\ slot'[s].rep = slot[s].rep
      /\ \A t \in Slot : t # s => slot'[t] = slot[t]
  BY <1>0, <1>1, <1>2
<1> HIDE DEF v
<1>6. \A t \in Slot : slot'[t].name = slot[t].name /\ slot'[t].rep = slot[t].rep
  BY <1>5
<1>7. NamesOK'
  BY <1>0, <1>6, SlotFacts DEF NamesOK
<1>8. OrderOK'
  <2> SUFFICES ASSUME NEW x \in Slot
               PROVE  /\ x > shm.count => slot'[x].gen = 0 /\ slot'[x].rep = 0
                      /\ slot'[x].name \notin moved =>
                           /\ slot'[x].gen <= slot'[x].rep
                           /\ x <= shm.count => slot'[x].rep <= srv[slot'[x].name]
    BY <1>0 DEF OrderOK
  <2>1. CASE x = s
    <3>1. ~ (x > shm.count)
      BY <1>3, <2>1, SlotFacts
    <3>2. slot[s].name \notin moved => n \notin moved /\ slot[s].rep <= srv[slot[s].name]
      BY <1>0, <1>3, SlotFacts DEF OrderOK
    <3> QED BY <1>3, <1>5, <2>1, <3>1, <3>2
  <2>2. CASE x # s
    BY <1>5, <2>2, SlotFacts DEF OrderOK
  <2> QED BY <2>1, <2>2
<1> QED BY <1>4, <1>7, <1>8, EmptyHand, PingOthers DEF SlotsOK

-----------------------------------------------------------------------------
\* The invariant holds at the start,
LEMMA InvInit == Init => IInv
<1> SUFFICES ASSUME Init PROVE IInv
  OBVIOUS
<1>1. /\ shm.count = 0 /\ shm.lock = NULL /\ shm.max \in Slot
      /\ \A s \in Slot : slot[s] = Fresh
      /\ \A p \in Proc : up[p] = Off /\ pr[p] = "new"
      /\ says = [n \in Node |-> n] /\ moved = {}
  BY DEF Init
<1>2. Types
  <2>1. NULL \in Locked
    BY DEF Locked
  <2>2. srv \in [Node -> Nat] /\ seg \in {"none", "raw", "ready"} /\ ub \in BOOLEAN
    BY DEF Init
  <2>6. says \in [Node -> Name] /\ moved \subseteq Name
    BY <1>1 DEF Name
  <2>3. shm \in [count : Nat, lock : Locked, max : Slot] /\ slot \in [Slot -> SlotRecord]
    BY <2>1, ConstTypes DEF Init
  <2>4. /\ pr \in [Proc -> {"new", "creating", "on", "leaving", "left", "dead"}]
        /\ up \in [Proc -> UpdaterRecord]
    BY ConstTypes DEF Init
  <2>5. rd \in [Proc -> [Node -> Nat \cup {NULL}]] /\ rt \in [Proc -> ReadRecord]
    BY ConstTypes DEF Init
  <2> QED BY <2>2, <2>3, <2>4, <2>5, <2>6 DEF Types
<1>3. CountOK /\ MovedOK
  BY <1>1, NodesAssumption DEF CountOK, MovedOK, Slot
<1>4. LockOK /\ RestOK /\ HandOK
  BY <1>1 DEF LockOK, RestOK, HandOK, Hand, Runs, Off
<1>5. NamesOK /\ OrderOK /\ BlankOK
  BY <1>1, NodesAssumption DEF NamesOK, OrderOK, BlankOK, Slot, Fresh
<1> QED BY <1>2, <1>3, <1>4, <1>5 DEF IInv

\* and every step keeps it; when the lock was initialised in use nothing more
\* happens that the model knows of.
LEMMA InvNext == IInv /\ [Next]_vars => IInv'
<1> SUFFICES ASSUME IInv, [Next]_vars PROVE IInv'
  OBVIOUS
<1>1. Types' /\ CountOK' /\ MovedOK'
  BY TypesNext, MovedNext
<1>2. CASE ub'
  BY <1>1, <1>2 DEF IInv
<1>3. CASE ~ ub'
  <2>1. CASE UNCHANGED vars
    <3>1. /\ srv' = srv /\ moved' = moved /\ seg' = seg /\ shm' = shm /\ slot' = slot
          /\ pr' = pr /\ up' = up /\ ub' = ub
      BY <2>1 DEF vars, server
    <3>2. LockOK' /\ RestOK'
      BY <1>3, <3>1 DEF IInv, LockOK, RestOK, Runs
    <3>3. NamesOK' /\ OrderOK' /\ BlankOK'
      BY <1>3, <3>1 DEF IInv, NamesOK, OrderOK, BlankOK
    <3>4. HandOK'
      BY <1>3, <3>1, Zenon DEF IInv, HandOK, Hand, Runs
    <3> QED BY <1>1, <3>2, <3>3, <3>4 DEF IInv
  <2>2. CASE Next
    <3>1. ~ ub
      BY <2>2 DEF Next, Updater, Ping, Tender, Create, CreateInit, Attach, UpdaterLocks, UpdaterTook,
        UpdaterWakes, PingInfo, PingFails, PingCount, PingReplicas, PingGen, Look, ReadFind, ReadServer,
        ReadCheck, ReadReplicas, Reads, ShmFree, StrayEnds, Crash, Revote, Replace, At
    <3>2. SlotsOK'
      <4>1. ASSUME NEW n \in Moving, Revote(n) PROVE SlotsOK'
        <5>1. Quiet /\ up' = up /\ pr' = pr
          BY <4>1, NodesAssumption DEF Revote, Quiet, IInv, Types
        <5> QED BY <1>1, <3>1, <5>1, QuietKeeps DEF SlotsOK, HandOK, Runs
      <4>2. ASSUME NEW n \in Moving, NEW m \in NewNames, Replace(n, m) PROVE SlotsOK'
        <5>1. Quiet /\ up' = up /\ pr' = pr
          BY <4>2, NodesAssumption DEF Replace, Quiet, IInv, Types
        <5> QED BY <1>1, <3>1, <5>1, QuietKeeps DEF SlotsOK, HandOK, Runs
      <4> QED BY <1>1, <1>3, <2>2, <3>1, <4>1, <4>2, ReadersAssumption, QuietSlots, PingInfoSlots, PingCountSlots,
            PingReplicasSlots, PingGenSlots DEF Next, Updater, Ping
    <3>3. LockOK' /\ RestOK' /\ BlankOK'
      BY <1>1, <1>3, <3>1, LockNext, RestNext, BlankNext
    <3> QED BY <1>1, <3>2, <3>3 DEF IInv, SlotsOK
  <2> QED BY <2>1, <2>2
<1> QED BY <1>2, <1>3

\* The inductive invariant of the segment.
THEOREM Invariance == Spec => []IInv
  BY InvInit, InvNext, PTL DEF Spec

\* At most one process updates the segment (cl_shm_updater_fn), whatever crashes
\* or leaves: who updates has the lock.
THEOREM OneUpdaterHolds == Spec => []OneUpdater
<1>1. IInv => OneUpdater
  <2> SUFFICES ASSUME IInv, ~ ub PROVE Cardinality(Updating) <= 1
    BY DEF OneUpdater
  <2>1. Updating \subseteq {shm.lock}
    BY DEF IInv, LockOK, Updating
  <2>2. IsFiniteSet({shm.lock}) /\ Cardinality({shm.lock}) = 1
    BY FS_Singleton
  <2> QED BY <2>1, <2>2, FS_Subset
<1> QED BY <1>1, Invariance, PTL

\* Whatever servers are replaced and whatever name they then answer
\* (cl_shm_node_ping writes it into the slot of the node it asked): a node that
\* has nothing to do with it has one counted slot at the most, and no counted slot
\* is nameless, also after an updater died while it added one; and every variable
\* has its type.
THEOREM SlotsNamedHolds == Spec => []SlotsNamed
<1>1. IInv => SlotsNamed
  <2> SUFFICES ASSUME IInv PROVE SlotsNamed
    OBVIOUS
  <2>1. \A s \in Slot : slot[s].name \in Name /\ slot[s].lock \in Locked
    BY SlotFields DEF IInv, Types
  <2>2. \A p \in Proc : up[p].slot \in Slot /\ up[p].i \in Node
    BY StoreOne, UpRecord DEF IInv
  <2>3. shm.count \in 0 .. shm.max
    BY NodesAssumption DEF IInv, Types, CountOK, Slot
  <2>5. \A p \in Proc : rt[p].slot \in Slot /\ rt[p].node \in Node
    BY DEF IInv, Types, ReadRecord
  <2>4. TypeOK
    BY <2>1, <2>2, <2>3, <2>5 DEF IInv, Types, TypeOK, Locked
  <2> QED BY <2>4 DEF SlotsNamed, IInv, NamesOK
<1> QED BY <1>1, Invariance, PTL

\* A slot's replicas are never older than its generation (cl_shm_node_ping),
\* also when the updater died between the two, unless the slot has the name of a
\* replaced server.
THEOREM MapBacksGenerationHolds == Spec => []MapBacksGeneration
<1>1. IInv => MapBacksGeneration
  <2> SUFFICES ASSUME IInv, ~ ub, NEW s \in Slot PROVE slot[s].name \in moved \/ slot[s].rep >= slot[s].gen
    BY DEF MapBacksGeneration
  <2> QED BY SlotFacts DEF OrderOK
<1> QED BY <1>1, Invariance, PTL

=============================================================================
