------------------------- MODULE ClusterLife_proofs -------------------------
(***************************************************************************)
(* A program that gets clusters and gives each back once: for any number of *)
(* threads, hosts and blocks, a cluster's count is the number of handles on *)
(* it, so that no handle is left on a cluster that was freed.               *)
(*                                                                         *)
(* This part does not rest on the cluster list: whatever a search of it     *)
(* finds, the count of what it found goes up with the handle that is made.  *)
(* What is needed besides is that a cluster whose count came to zero has    *)
(* one thread that goes on to free it, and nobody else at it.              *)
(*                                                                         *)
(* And any program at all: the cluster list, the tends and the clusters     *)
(* being created are sound until a cluster is destroyed twice.  There is a  *)
(* sequence of the members that the list links, in both directions, and     *)
(* every walk meets; append and delete put one in and take one out of it.   *)
(* Who takes a cluster apart has taken it out of the list, so that nobody   *)
(* else does, and who tends one holds its flag, which destroy waits for.    *)
(***************************************************************************)
EXTENDS ClusterLife, FiniteSetTheorems, WellFoundedInduction, TLAPS

\* The places of a thread in a call, those in which it makes a cluster that it has
\* not yet returned, and those in which it takes one apart.
Making == {"ready", "add", "tend", "tending", "added"}
Ending == {"destroy", "free", "freeing"}
Places == {"idle", "create", "release", "join"} \cup Making \cup Ending

ClusterRecord == [mem : {"fresh", "live", "freed"}, tending : BOOLEAN, freed : BOOLEAN,
                  ready : BOOLEAN, ref : Nat, hosts : SUBSET Host, nodes : BOOLEAN]
ThreadRecord == [pc : Places, at : Nat, asc : Block \cup {NULL}, tends : Int, ok : BOOLEAN,
                 look : SUBSET Host]

Types ==
    /\ blk \in [Block -> ClusterRecord] /\ ux \in [User -> ThreadRecord]
    /\ handle \in [User -> [Slot -> Block \cup {NULL}]] /\ own \in [User -> SUBSET Slot]

\* Where a thread is in its plan: about to get a cluster it owns none; about to give one
\* back it owns at most the one it got.
Ours(u) == plan[u][ux[u].at - 1].slot
TurnOK(u) ==
    /\ ux[u].at \in 1 .. (Len(plan[u]) + 1) /\ (ux[u].pc # "idle" => Busy(u))
    /\ ux[u].pc # "join"
    /\ ux[u].at % 2 = 1 => own[u] = {}
    /\ ux[u].at % 2 = 0 =>
        /\ ux[u].pc \in {"idle", "release"} \cup Ending /\ own[u] \subseteq {Ours(u)}
        /\ ux[u].pc = "idle" => Ours(u) \in own[u] \/ handle[u][Ours(u)] = NULL
        /\ ux[u].pc = "release" => Ours(u) \in own[u] /\ ux[u].asc = handle[u][Ours(u)]
        /\ ux[u].pc \in Ending => own[u] = {}

\* What a thread works at is not freed, nor is what it owns; a cluster that is taken
\* apart has no references left, and nobody else takes it apart.
HeldOK(u) ==
    /\ ux[u].pc \in Making \cup Ending \cup {"release"} => ux[u].asc \in Block /\ Live(ux[u].asc)
    /\ \A s \in own[u] : handle[u][s] \in Block /\ Live(handle[u][s])
    /\ ux[u].pc \in Ending =>
        /\ blk[ux[u].asc].ref = 0
        /\ \A v \in User \ {u} : ux[v].pc \in Ending => ux[v].asc # ux[u].asc

Handles(b) == {x \in User \X Slot : x[2] \in own[x[1]] /\ handle[x[1]][x[2]] = b}
Makers(b) == {u \in User : Busy(u) /\ Creating(u, b)}
CountOK ==
    \A b \in Block : Live(b) => blk[b].ref = Cardinality(Handles(b)) + Cardinality(Makers(b))

Sound == Types /\ CountOK /\ \A u \in User : TurnOK(u) /\ HeldOK(u)
IInv == plan \in Plans /\ (Counted /\ ~ revived => Sound)

-----------------------------------------------------------------------------
(* Counting                                                                *)

\* Two sets that differ in one element at most.
LEMMA CountChange ==
  ASSUME NEW S, IsFiniteSet(S), NEW p \in S, NEW A \in SUBSET S, NEW B \in SUBSET S,
         \A x \in S \ {p} : x \in A <=> x \in B
  PROVE  /\ Cardinality(A) \in Nat /\ Cardinality(B) \in Nat
         /\ Cardinality(B) = Cardinality(A) - (IF p \in A THEN 1 ELSE 0)
                                            + (IF p \in B THEN 1 ELSE 0)
<1>1. IsFiniteSet(A) /\ IsFiniteSet(B)
  BY FS_Subset
<1>2. Cardinality(A) \in Nat /\ Cardinality(B) \in Nat
  BY <1>1, FS_CardinalityType
<1>3. CASE p \in A /\ p \notin B
  <2>1. B = A \ {p}
    BY <1>3
  <2> QED BY <1>1, <1>2, <1>3, <2>1, FS_RemoveElement
<1>4. CASE p \notin A /\ p \in B
  <2>1. B = A \cup {p}
    BY <1>4
  <2> QED BY <1>1, <1>2, <1>4, <2>1, FS_AddElement
<1>5. CASE p \in A <=> p \in B
  <2>1. A = B
    BY <1>5
  <2> QED BY <1>2, <1>5, <2>1
<1> QED BY <1>3, <1>4, <1>5

\* The handles and the threads that refer to a cluster are finitely many.
LEMMA Counts ==
  ASSUME NEW b
  PROVE  /\ Handles(b) \in SUBSET (User \X Slot) /\ Makers(b) \in SUBSET User
         /\ IsFiniteSet(User \X Slot) /\ IsFiniteSet(User)
         /\ Cardinality(Handles(b)) \in Nat /\ Cardinality(Makers(b)) \in Nat
         /\ (Cardinality(Handles(b)) = 0 => Handles(b) = {})
         /\ (Cardinality(Makers(b)) = 0 => Makers(b) = {})
<1>1. Handles(b) \in SUBSET (User \X Slot) /\ Makers(b) \in SUBSET User
  BY DEF Handles, Makers
<1>2. IsFiniteSet(User \X Slot) /\ IsFiniteSet(User)
  BY UserAssumption, FS_Product
<1>3. IsFiniteSet(Handles(b)) /\ IsFiniteSet(Makers(b))
  BY <1>1, <1>2, FS_Subset
<1> QED BY <1>1, <1>2, <1>3, FS_CardinalityType, FS_EmptySet

\* What a change of one slot does to the handles counted on a cluster.
LEMMA HandlesChange ==
  ASSUME NEW u \in User, NEW s \in Slot, NEW b,
         \A v \in User \ {u} : own'[v] = own[v] /\ handle'[v] = handle[v],
         \A r \in Slot \ {s} : /\ r \in own'[u] <=> r \in own[u]
                               /\ handle'[u][r] = handle[u][r]
  PROVE  /\ Cardinality(Handles(b)') \in Nat
         /\ Cardinality(Handles(b)') = Cardinality(Handles(b))
              - (IF s \in own[u] /\ handle[u][s] = b THEN 1 ELSE 0)
              + (IF s \in own'[u] /\ handle'[u][s] = b THEN 1 ELSE 0)
<1> DEFINE S == User \X Slot
           A == {x \in S : x[2] \in own[x[1]] /\ handle[x[1]][x[2]] = b}
           B == {x \in S : x[2] \in own'[x[1]] /\ handle'[x[1]][x[2]] = b}
           p == <<u, s>>
<1>1. Handles(b) = A /\ Handles(b)' = B
  BY DEF Handles
<1>2. IsFiniteSet(S) /\ p \in S
  BY Counts
<1>3. ASSUME NEW x \in S \ {p} PROVE x \in A <=> x \in B
  <2>1. x[1] \in User /\ x[2] \in Slot /\ (x[1] # u \/ x[2] # s)
    BY <1>3
  <2> QED BY <2>1
<1>4. A \in SUBSET S /\ B \in SUBSET S
  OBVIOUS
<1>5. /\ p \in A <=> s \in own[u] /\ handle[u][s] = b
      /\ p \in B <=> s \in own'[u] /\ handle'[u][s] = b
  BY <1>2
<1> HIDE DEF S, A, B, p
<1>6. /\ Cardinality(A) \in Nat /\ Cardinality(B) \in Nat
      /\ Cardinality(B) = Cardinality(A) - (IF p \in A THEN 1 ELSE 0)
                                         + (IF p \in B THEN 1 ELSE 0)
  BY <1>2, <1>3, <1>4, CountChange
<1> QED BY <1>1, <1>5, <1>6

\* What a move of one thread does to the threads counted on a cluster.
LEMMA MakersChange ==
  ASSUME NEW u \in User, NEW b, plan' = plan, \A v \in User \ {u} : ux'[v] = ux[v]
  PROVE  /\ Cardinality(Makers(b)') \in Nat
         /\ Cardinality(Makers(b)') = Cardinality(Makers(b))
              - (IF u \in Makers(b) THEN 1 ELSE 0) + (IF u \in Makers(b)' THEN 1 ELSE 0)
<1>1. Makers(b) \in SUBSET User /\ Makers(b)' \in SUBSET User /\ IsFiniteSet(User)
  BY Counts DEF Makers
<1>2. ASSUME NEW v \in User \ {u} PROVE v \in Makers(b) <=> v \in Makers(b)'
  BY DEF Makers, Busy, Creating, Call
<1> DEFINE A == Makers(b)
           B == Makers(b)'
<1> HIDE DEF A, B
<1>3. A \in SUBSET User /\ B \in SUBSET User /\ \A v \in User \ {u} : v \in A <=> v \in B
  BY <1>1, <1>2 DEF A, B
<1>4. /\ Cardinality(A) \in Nat /\ Cardinality(B) \in Nat
      /\ Cardinality(B) = Cardinality(A) - (IF u \in A THEN 1 ELSE 0)
                                         + (IF u \in B THEN 1 ELSE 0)
  BY <1>1, <1>3, CountChange
<1> QED BY <1>4 DEF A, B

-----------------------------------------------------------------------------
(* A thread and its plan                                                   *)

\* The call a thread is in.
LEMMA CallFacts ==
  ASSUME plan \in Plans, Counted, Sound, NEW u \in User
  PROVE  /\ ux[u].at \in Nat /\ ux[u].at >= 1 /\ ux[u].at % 2 \in {0, 1}
         /\ (ux[u].at + 1) % 2 = 1 - (ux[u].at % 2)
         /\ Busy(u) =>
              /\ ux[u].at + 1 <= Len(plan[u]) + 1 /\ Len(plan[u]) \in Nat
              /\ Call(u).slot \in Slot /\ Call(u).host \in Host
              /\ ux[u].at % 2 = 1 => Call(u).op = "get_or_create"
              /\ ux[u].at % 2 = 0 => Call(u).op = "release" /\ Call(u).slot = Ours(u)
<1>1. ux[u].at \in 1 .. (Len(plan[u]) + 1)
  BY DEF Sound, TurnOK
<1> DEFINE C == [op : {"get_or_create", "cluster_get", "release", "shutdown"},
                 slot : Slot, host : Host]
<1>0. plan[u] \in Seq(C)
  BY PlansAssumption, Zenon
<1> HIDE DEF C
<1>2. plan[u] \in Seq(C) /\ Len(plan[u]) \in Nat
  BY <1>0
<1>3. ASSUME Busy(u) PROVE ux[u].at \in DOMAIN plan[u] /\ Call(u) \in C
  BY <1>1, <1>2, <1>3 DEF Busy, Call
<1>4. ASSUME Busy(u)
      PROVE  /\ ux[u].at % 2 = 1 => Call(u).op = "get_or_create"
             /\ ux[u].at % 2 # 1 => Call(u).op = "release" /\ Call(u).slot = Ours(u)
  BY <1>3, <1>4 DEF Counted, Call, Ours
<1>5. /\ ux[u].at \in Nat /\ ux[u].at >= 1 /\ ux[u].at % 2 \in {0, 1}
      /\ (ux[u].at + 1) % 2 = 1 - (ux[u].at % 2)
  BY <1>1, <1>2
<1>6. ASSUME Busy(u) PROVE ux[u].at + 1 <= Len(plan[u]) + 1
  BY <1>2, <1>5, <1>6 DEF Busy
<1> QED BY <1>2, <1>3, <1>4, <1>5, <1>6 DEF C

-----------------------------------------------------------------------------
(* Steps of one thread, and the others                                     *)

\* The threads but u keep their locals and their handles.
OthersKept(u) ==
    \A v \in User \ {u} : ux'[v] = ux[v] /\ own'[v] = own[v] /\ handle'[v] = handle[v]

\* A thread works at a cluster or owns a handle on it.
Refers(v, b) ==
    \/ ux[v].pc \in Making \cup Ending \cup {"release"} /\ ux[v].asc = b
    \/ \E s \in own[v] : handle[v][s] = b

\* What a step of one thread, with one slot, does to the references of a cluster.
LEMMA CountsMove ==
  ASSUME NEW u \in User, NEW s \in Slot, NEW c, plan' = plan, OthersKept(u),
         \A t \in Slot \ {s} : (t \in own'[u] <=> t \in own[u]) /\ handle'[u][t] = handle[u][t]
  PROVE  /\ Cardinality(Handles(c)) \in Nat /\ Cardinality(Makers(c)) \in Nat
         /\ Cardinality(Handles(c)') \in Nat /\ Cardinality(Makers(c)') \in Nat
         /\ Cardinality(Handles(c)') = Cardinality(Handles(c))
              - (IF s \in own[u] /\ handle[u][s] = c THEN 1 ELSE 0)
              + (IF s \in own'[u] /\ handle'[u][s] = c THEN 1 ELSE 0)
         /\ Cardinality(Makers(c)') = Cardinality(Makers(c))
              - (IF u \in Makers(c) THEN 1 ELSE 0) + (IF u \in Makers(c)' THEN 1 ELSE 0)
<1>1. \A v \in User \ {u} : ux'[v] = ux[v] /\ own'[v] = own[v] /\ handle'[v] = handle[v]
  BY DEF OthersKept
<1>2. /\ Cardinality(Handles(c)') \in Nat
      /\ Cardinality(Handles(c)') = Cardinality(Handles(c))
           - (IF s \in own[u] /\ handle[u][s] = c THEN 1 ELSE 0)
           + (IF s \in own'[u] /\ handle'[u][s] = c THEN 1 ELSE 0)
  BY <1>1, HandlesChange
<1>3. /\ Cardinality(Makers(c)') \in Nat
      /\ Cardinality(Makers(c)') = Cardinality(Makers(c))
           - (IF u \in Makers(c) THEN 1 ELSE 0) + (IF u \in Makers(c)' THEN 1 ELSE 0)
  BY <1>1, MakersChange
<1> QED BY <1>2, <1>3, Counts

\* What a thread refers to is not freed.
LEMMA RefersLive ==
  ASSUME Sound, NEW v \in User, NEW b, Refers(v, b)
  PROVE  b \in Block /\ Live(b)
BY DEF Sound, HeldOK, Refers

\* The others are where they were in their plans.
LEMMA OthersTurn ==
  ASSUME Sound, NEW u \in User, plan' = plan, OthersKept(u), NEW v \in User \ {u}
  PROVE  TurnOK(v)'
<1>1. TurnOK(v)
  BY DEF Sound
<1>2. ux'[v] = ux[v] /\ own'[v] = own[v] /\ handle'[v] = handle[v]
  BY DEF OthersKept
<1> QED BY <1>1, <1>2 DEF TurnOK, Busy, Ours

\* The others hold what they held, if no cluster of theirs is freed or loses or gets
\* its first reference, and nobody begins to take apart what another does.
LEMMA OthersHeld ==
  ASSUME Sound, NEW u \in User, plan' = plan, OthersKept(u),
         \A v \in User \ {u} : \A b \in Block : Refers(v, b) =>
            blk'[b].mem = "live" /\ (blk'[b].ref = blk[b].ref \/ blk[b].ref # 0),
         ux'[u].pc \in Ending =>
            \A v \in User \ {u} : ux[v].pc \in Ending => ux[v].asc # ux'[u].asc,
         NEW v \in User \ {u}
  PROVE  HeldOK(v)'
<1>1. HeldOK(v)
  BY DEF Sound
<1>2. ux'[v] = ux[v] /\ own'[v] = own[v] /\ handle'[v] = handle[v]
  BY DEF OthersKept
<1>3. ASSUME ux[v].pc \in Making \cup Ending \cup {"release"}
      PROVE  /\ ux[v].asc \in Block /\ blk'[ux[v].asc].mem = "live"
             /\ ux[v].pc \in Ending => blk'[ux[v].asc].ref = 0
  <2>1. ux[v].asc \in Block /\ (ux[v].pc \in Ending => blk[ux[v].asc].ref = 0)
    BY <1>1, <1>3 DEF HeldOK
  <2>2. Refers(v, ux[v].asc)
    BY <1>3 DEF Refers
  <2> QED BY <2>1, <2>2
<1>4. ASSUME NEW s \in own[v] PROVE handle[v][s] \in Block /\ blk'[handle[v][s]].mem = "live"
  <2>1. handle[v][s] \in Block
    BY <1>1 DEF HeldOK
  <2>2. Refers(v, handle[v][s])
    BY DEF Refers
  <2> QED BY <2>1, <2>2
<1>5. ASSUME ux[v].pc \in Ending, NEW w \in User \ {v}, ux'[w].pc \in Ending
      PROVE  ux'[w].asc # ux[v].asc
  <2>1. CASE w = u
    BY <1>5, <2>1
  <2>2. CASE w # u
    <3>1. ux'[w] = ux[w]
      BY <2>2 DEF OthersKept
    <3> QED BY <1>1, <1>5, <3>1 DEF HeldOK
  <2> QED BY <2>1, <2>2
<1>7. \A s \in own[v] : blk'[handle'[v][s]].mem = "live" /\ handle'[v][s] \in Block
  BY <1>2, <1>4
<1>8. /\ ux'[v].pc \in Making \cup Ending \cup {"release"} =>
             ux'[v].asc \in Block /\ blk'[ux'[v].asc].mem = "live"
      /\ ux'[v].pc \in Ending => blk'[ux'[v].asc].ref = 0
  BY <1>2, <1>3
<1> QED BY <1>2, <1>5, <1>7, <1>8 DEF HeldOK, Live

\* A thread that returns is about to make its next call; after a get it owns the one
\* handle it asked for, or has nothing in it.
LEMMA ReturnTurn ==
  ASSUME plan \in Plans, Counted, Sound, NEW u \in User, Busy(u), plan' = plan,
         ux'[u] = Idle(ux[u].at + 1),
         ux[u].at % 2 = 1 =>
            /\ own'[u] \subseteq {Call(u).slot}
            /\ Call(u).slot \in own'[u] \/ handle'[u][Call(u).slot] = NULL,
         ux[u].at % 2 = 0 => own'[u] = {}
  PROVE  TurnOK(u)'
<1>1. ux'[u].pc = "idle" /\ ux'[u].at = ux[u].at + 1
  BY DEF Idle
<1>2. Ours(u)' = Call(u).slot
  <2>1. (ux[u].at + 1) - 1 = ux[u].at
    BY CallFacts
  <2> QED BY <1>1, <2>1 DEF Ours, Call
<1>3. CASE ux[u].at % 2 = 1
  <2>1. ux'[u].at % 2 = 0 /\ ux'[u].at \in 1 .. (Len(plan[u]) + 1)
    BY <1>1, <1>3, CallFacts
  <2> QED BY <1>1, <1>2, <1>3, <2>1 DEF TurnOK, Ending
<1>4. CASE ux[u].at % 2 = 0
  <2>1. ux'[u].at % 2 = 1 /\ ux'[u].at \in 1 .. (Len(plan[u]) + 1)
    BY <1>1, <1>4, CallFacts
  <2> QED BY <1>1, <1>4, <2>1 DEF TurnOK
<1> QED BY <1>3, <1>4, CallFacts

\* A step of one thread that takes or gives no reference and frees nothing.
LEMMA QuietThread ==
  ASSUME plan \in Plans, Counted, Sound, NEW u \in User, UNCHANGED <<plan, handle, own>>,
         \A v \in User \ {u} : ux'[v] = ux[v], ux' \in [User -> ThreadRecord],
         blk' \in [Block -> ClusterRecord],
         \A b \in Block : blk'[b].mem = blk[b].mem /\ blk'[b].ref = blk[b].ref,
         TurnOK(u)',
         ux'[u].pc \in Making \cup Ending \cup {"release"} =>
            ux'[u].asc \in Block /\ Live(ux'[u].asc),
         ux'[u].pc \in Ending => ux[u].pc \in Ending /\ ux'[u].asc = ux[u].asc,
         \A b \in Block : u \in Makers(b)' <=> u \in Makers(b)
  PROVE  Sound'
<1>1. OthersKept(u)
  BY DEF OthersKept
<1>2. Types'
  BY DEF Sound, Types
<1>3. \A b \in Block : Live(b)' <=> Live(b)
  BY DEF Live
<1>4. HeldOK(u)
  BY DEF Sound
<1>5. ASSUME NEW v \in User \ {u} PROVE HeldOK(v)'
  <2>1. \A w \in User \ {u} : \A b \in Block : Refers(w, b) =>
            blk'[b].mem = "live" /\ (blk'[b].ref = blk[b].ref \/ blk[b].ref # 0)
    BY RefersLive DEF Live
  <2>2. ux'[u].pc \in Ending =>
            \A w \in User \ {u} : ux[w].pc \in Ending => ux[w].asc # ux'[u].asc
    BY <1>4 DEF HeldOK
  <2> QED BY <1>1, <2>1, <2>2, OthersHeld
<1>6. HeldOK(u)'
  <2>1. \A s \in own'[u] : handle'[u][s] \in Block /\ blk'[handle'[u][s]].mem = "live"
    BY <1>3, <1>4 DEF HeldOK, Live
  <2>2. ux'[u].pc \in Making \cup Ending \cup {"release"} =>
            ux'[u].asc \in Block /\ blk'[ux'[u].asc].mem = "live"
    BY <1>3 DEF Live
  <2>3. ux'[u].pc \in Ending =>
            /\ blk'[ux'[u].asc].ref = 0
            /\ \A v \in User \ {u} : ux'[v].pc \in Ending => ux'[v].asc # ux'[u].asc
    BY <1>4, <2>2 DEF HeldOK
  <2> QED BY <2>1, <2>2, <2>3 DEF HeldOK, Live
<1>7. ASSUME NEW b \in Block, Live(b)'
      PROVE  blk'[b].ref = Cardinality(Handles(b)') + Cardinality(Makers(b)')
  <2>1. Handles(b)' = Handles(b)
    BY DEF Handles
  <2>2. Cardinality(Makers(b)') = Cardinality(Makers(b))
    BY MakersChange, Counts
  <2> QED BY <1>3, <1>7, <2>1, <2>2 DEF Sound, CountOK
<1>8. CountOK'
  BY <1>7 DEF CountOK
<1>9. \A v \in User : TurnOK(v)'
  BY <1>1, OthersTurn
<1> QED BY <1>2, <1>5, <1>6, <1>8, <1>9 DEF Sound

\* A step of the tender, which counts no reference.
LEMMA QuietTender ==
  ASSUME Sound, UNCHANGED <<plan, handle, own, ux>>,
         blk' \in [Block -> ClusterRecord],
         \A b \in Block : blk'[b].mem = blk[b].mem /\ blk'[b].ref = blk[b].ref
  PROVE  Sound'
<1>1. Types'
  BY DEF Sound, Types
<1>2. \A b \in Block : Live(b)' <=> Live(b)
  BY DEF Live
<1>3. ASSUME NEW u \in User PROVE TurnOK(u)'
  BY DEF Sound, TurnOK, Busy, Ours
<1>4. ASSUME NEW u \in User PROVE HeldOK(u)'
  <2>1. HeldOK(u)
    BY DEF Sound
  <2> QED BY <2>1 DEF HeldOK, Live
<1>5. ASSUME NEW b \in Block
      PROVE  Handles(b)' = Handles(b) /\ Makers(b)' = Makers(b)
  BY DEF Handles, Makers, Creating, Busy, Call
<1>6. CountOK'
  BY <1>2, <1>5 DEF Sound, CountOK
<1> QED BY <1>1, <1>3, <1>4, <1>6 DEF Sound

\* A step of a thread that makes a cluster, or is about to give up making it.
LEMMA MakingStep ==
  ASSUME plan \in Plans, Counted, Sound, NEW u \in User, UNCHANGED <<plan, handle, own>>,
         NEW r \in ThreadRecord, ux' = [ux EXCEPT ![u] = r],
         blk' \in [Block -> ClusterRecord],
         \A b \in Block : blk'[b].mem = blk[b].mem /\ blk'[b].ref = blk[b].ref,
         ux[u].pc \in Making, r.pc \in Making \cup {"release"},
         r.asc = ux[u].asc, r.at = ux[u].at
  PROVE  Sound'
<1>1. ux' \in [User -> ThreadRecord] /\ ux'[u] = r /\ \A v \in User \ {u} : ux'[v] = ux[v]
  BY DEF Sound, Types
<1>2. TurnOK(u) /\ HeldOK(u)
  BY DEF Sound
<1>3. TurnOK(u)'
  BY <1>1, <1>2, CallFacts DEF TurnOK, Making, Ending, Busy
<1>4. ux'[u].asc \in Block /\ Live(ux[u].asc) /\ ux'[u].pc \notin Ending
  BY <1>1, <1>2 DEF HeldOK, Making, Ending
<1>5. ASSUME NEW b \in Block PROVE u \in Makers(b)' <=> u \in Makers(b)
  BY <1>1 DEF Makers, Creating, Busy, Call, Making
<1>6. Live(ux'[u].asc)
  BY <1>1, <1>4
<1> QED BY <1>1, <1>3, <1>4, <1>5, <1>6, QuietThread

\* A step of a thread that takes a cluster apart, short of freeing it.
LEMMA EndingStep ==
  ASSUME plan \in Plans, Counted, Sound, NEW u \in User, UNCHANGED <<plan, handle, own>>,
         NEW r \in ThreadRecord, ux' = [ux EXCEPT ![u] = r],
         blk' \in [Block -> ClusterRecord],
         \A b \in Block : blk'[b].mem = blk[b].mem /\ blk'[b].ref = blk[b].ref,
         ux[u].pc \in Ending, r.pc \in Ending, r.asc = ux[u].asc, r.at = ux[u].at
  PROVE  Sound'
<1>1. ux' \in [User -> ThreadRecord] /\ ux'[u] = r /\ \A v \in User \ {u} : ux'[v] = ux[v]
  BY DEF Sound, Types
<1>2. TurnOK(u) /\ HeldOK(u)
  BY DEF Sound
<1>3. TurnOK(u)'
  BY <1>1, <1>2 DEF TurnOK, Ending, Busy, Ours
<1>4. ux'[u].asc \in Block /\ Live(ux[u].asc) /\ ux'[u].pc \in Ending /\ ux'[u].asc = ux[u].asc
  BY <1>1, <1>2 DEF HeldOK
<1>5. ASSUME NEW b \in Block PROVE u \in Makers(b)' <=> u \in Makers(b)
  BY <1>1 DEF Makers, Creating, Busy, Call, Ending
<1>6. Live(ux'[u].asc)
  BY <1>1, <1>4
<1> QED BY <1>1, <1>3, <1>4, <1>5, <1>6, QuietThread

\* The flags and hosts of one cluster may change.
LEMMA FlagsChange ==
  ASSUME Sound, NEW b \in Block, NEW c \in ClusterRecord, blk' = [blk EXCEPT ![b] = c],
         c.mem = blk[b].mem, c.ref = blk[b].ref
  PROVE  /\ blk' \in [Block -> ClusterRecord]
         /\ \A d \in Block : blk'[d].mem = blk[d].mem /\ blk'[d].ref = blk[d].ref
BY DEF Sound, Types

\* A step after which nothing is said.
LEMMA UndefinedStep ==
  ASSUME Sound, Undefined
  PROVE  Sound'
<1>1. UNCHANGED <<plan, handle, own, ux, blk>>
  BY DEF Undefined, ghosts
<1> QED BY <1>1, QuietTender DEF Sound, Types

-----------------------------------------------------------------------------
(* One lemma per action                                                    *)

\* The end of citrusleaf_cluster_create.
LEMMA CreateEndDoes ==
  ASSUME plan \in Plans, Counted, Sound, NEW u \in User, CreateEnd(u)
  PROVE  Sound'
<1> DEFINE b == ux[u].asc
           c == [blk[b] EXCEPT !.ready = TRUE]
           r == [ux[u] EXCEPT !.pc = "add"]
<1>1. ux[u] \in ThreadRecord /\ blk \in [Block -> ClusterRecord] /\ ux[u].pc = "ready"
  BY DEF Sound, Types, CreateEnd, At
<1>2. b \in Block
  BY <1>1 DEF Sound, HeldOK, Making
<1>0. blk[b] \in ClusterRecord
  BY <1>1, <1>2
<1>3. CASE Live(b)
  <2>1. /\ UNCHANGED <<plan, handle, own>>
        /\ blk' = [blk EXCEPT ![b] = c] /\ ux' = [ux EXCEPT ![u] = r]
    BY <1>3 DEF CreateEnd, Goto, ghosts
  <2>2. c \in ClusterRecord /\ c.mem = blk[b].mem /\ c.ref = blk[b].ref
    BY <1>0 DEF ClusterRecord
  <2>3. r \in ThreadRecord /\ r.pc = "add" /\ r.asc = b /\ r.at = ux[u].at
    BY <1>1 DEF ThreadRecord, Places, Making
  <2> HIDE DEF b, c, r
  <2>4. /\ blk' \in [Block -> ClusterRecord]
        /\ \A d \in Block : blk'[d].mem = blk[d].mem /\ blk'[d].ref = blk[d].ref
    BY <1>2, <2>1, <2>2, FlagsChange
  <2> QED BY <1>1, <2>1, <2>3, <2>4, MakingStep DEF Making, b
<1>4. CASE ~ Live(b)
  <2>1. Undefined
    BY <1>4 DEF CreateEnd
  <2> QED BY <2>1, UndefinedStep
<1> QED BY <1>3, <1>4

\* A thread before one of its tends.
LEMMA TendPlace ==
  ASSUME NEW x \in ThreadRecord, NEW n \in Int
  PROVE  LET r == [x EXCEPT !.pc = "tend", !.tends = n]
         IN r \in ThreadRecord /\ r.pc = "tend" /\ r.asc = x.asc /\ r.at = x.at
<1> DEFINE y == [x EXCEPT !.pc = "tend"]
           z == [y EXCEPT !.tends = n]
<1>1. y \in ThreadRecord /\ y.pc = "tend" /\ y.asc = x.asc /\ y.at = x.at
  BY DEF ThreadRecord, Places, Making
<1>2. z = [x EXCEPT !.pc = "tend", !.tends = n]
  OBVIOUS
<1> HIDE DEF y
<1>3. z \in ThreadRecord /\ z.pc = "tend" /\ z.asc = x.asc /\ z.at = x.at
  BY <1>1 DEF ThreadRecord
<1> HIDE DEF z
<1> QED BY <1>2, <1>3

\* A host is added, or could not be looked up.
LEMMA AddHostDoes ==
  ASSUME plan \in Plans, Counted, Sound, NEW u \in User, AddHost(u)
  PROVE  Sound'
<1> DEFINE b == ux[u].asc
           c == [blk[b] EXCEPT !.hosts = @ \cup {Call(u).host}]
           r == [ux[u] EXCEPT !.pc = "tend", !.tends = MaxTends]
           q == [ux[u] EXCEPT !.pc = "added"]
<1>1. ux[u] \in ThreadRecord /\ blk \in [Block -> ClusterRecord] /\ ux[u].pc = "add"
  BY DEF Sound, Types, AddHost, At
<1>2. b \in Block /\ Call(u).host \in Host
  <2>1. Busy(u)
    BY <1>1 DEF Sound, TurnOK
  <2> QED BY <1>1, <2>1, CallFacts DEF Sound, HeldOK, Making
<1>0. blk[b] \in ClusterRecord
  BY <1>1, <1>2
<1>3. CASE ~ Live(b)
  <2>1. Undefined
    BY <1>3 DEF AddHost
  <2> QED BY <2>1, UndefinedStep
<1>4. ASSUME blk' = [blk EXCEPT ![b] = c], ux' = [ux EXCEPT ![u] = r],
             UNCHANGED <<plan, handle, own>>
      PROVE  Sound'
  <2>1. c \in ClusterRecord /\ c.mem = blk[b].mem /\ c.ref = blk[b].ref
    BY <1>0, <1>2 DEF ClusterRecord
  <2>2. r \in ThreadRecord /\ r.pc = "tend" /\ r.asc = b /\ r.at = ux[u].at
    <3>1. MaxTends \in Int
      BY DEF MaxTends
    <3> QED BY <1>1, <3>1, TendPlace
  <2> HIDE DEF b, c, r
  <2>3. /\ blk' \in [Block -> ClusterRecord]
        /\ \A d \in Block : blk'[d].mem = blk[d].mem /\ blk'[d].ref = blk[d].ref
    BY <1>2, <1>4, <2>1, FlagsChange
  <2> QED BY <1>1, <1>4, <2>2, <2>3, MakingStep DEF Making, b
<1>5. ASSUME blk' = blk, ux' = [ux EXCEPT ![u] = q], UNCHANGED <<plan, handle, own>>
      PROVE  Sound'
  <2>1. q \in ThreadRecord /\ q.pc = "added" /\ q.asc = b /\ q.at = ux[u].at
    BY <1>1 DEF ThreadRecord, Places, Making
  <2> HIDE DEF b, q
  <2> QED BY <1>1, <1>5, <2>1, MakingStep DEF Making, b
<1>6. CASE Live(b)
  <2>1. /\ UNCHANGED <<plan, handle, own>>
        /\ \/ blk' = [blk EXCEPT ![b] = c] /\ ux' = [ux EXCEPT ![u] = r]
           \/ blk' = blk /\ ux' = [ux EXCEPT ![u] = q]
    BY <1>6 DEF AddHost, Goto, ghosts
  <2> HIDE DEF b, c, r, q
  <2> QED BY <1>4, <1>5, <2>1
<1> QED BY <1>3, <1>6

\* A tend of add_host begins, finds the cluster busy, or was the last.
LEMMA AddHostTendDoes ==
  ASSUME plan \in Plans, Counted, Sound, NEW u \in User, AddHostTend(u)
  PROVE  Sound'
<1> DEFINE b == ux[u].asc
           c == [blk[b] EXCEPT !.tending = TRUE]
           r == [ux[u] EXCEPT !.pc = "tending", !.look = TendLooks(b)]
           q == [ux[u] EXCEPT !.pc = "added", !.ok = blk[b].nodes]
           p == [ux[u] EXCEPT !.tends = @ - 1]
<1>1. ux[u] \in ThreadRecord /\ blk \in [Block -> ClusterRecord] /\ ux[u].pc = "tend"
  BY DEF Sound, Types, AddHostTend, At
<1>2. b \in Block
  BY <1>1 DEF Sound, HeldOK, Making
<1>0. blk[b] \in ClusterRecord
  BY <1>1, <1>2
<1>3. blk[b].hosts \subseteq Host /\ blk[b].nodes \in BOOLEAN
  BY <1>0 DEF ClusterRecord
<1>4. CASE ~ Live(b)
  <2>1. Undefined
    BY <1>4 DEF AddHostTend
  <2> QED BY <2>1, UndefinedStep
<1>5. ASSUME blk' = [blk EXCEPT ![b] = c], ux' = [ux EXCEPT ![u] = r],
             UNCHANGED <<plan, handle, own>>
      PROVE  Sound'
  <2>1. c \in ClusterRecord /\ c.mem = blk[b].mem /\ c.ref = blk[b].ref
    BY <1>0 DEF ClusterRecord
  <2>2. r \in ThreadRecord /\ r.pc = "tending" /\ r.asc = b /\ r.at = ux[u].at
    BY <1>1, <1>3 DEF ThreadRecord, Places, Making, TendLooks
  <2> HIDE DEF b, c, r
  <2>3. /\ blk' \in [Block -> ClusterRecord]
        /\ \A d \in Block : blk'[d].mem = blk[d].mem /\ blk'[d].ref = blk[d].ref
    BY <1>2, <1>5, <2>1, FlagsChange
  <2> QED BY <1>1, <1>5, <2>2, <2>3, MakingStep DEF Making, b
<1>6. ASSUME blk' = blk, UNCHANGED <<plan, handle, own>>,
             ux' = [ux EXCEPT ![u] = q] \/ ux' = [ux EXCEPT ![u] = p]
      PROVE  Sound'
  <2>1. q \in ThreadRecord /\ q.pc = "added" /\ q.asc = b /\ q.at = ux[u].at
    BY <1>1, <1>3 DEF ThreadRecord, Places, Making
  <2>2. p \in ThreadRecord /\ p.pc = "tend" /\ p.asc = b /\ p.at = ux[u].at
    BY <1>1 DEF ThreadRecord
  <2> HIDE DEF b, q, p
  <2> QED BY <1>1, <1>6, <2>1, <2>2, MakingStep DEF Making, b
<1>7. CASE Live(b)
  <2>1. /\ UNCHANGED <<plan, handle, own>>
        /\ \/ blk' = [blk EXCEPT ![b] = c] /\ ux' = [ux EXCEPT ![u] = r]
           \/ blk' = blk /\ ux' = [ux EXCEPT ![u] = q]
           \/ blk' = blk /\ ux' = [ux EXCEPT ![u] = p]
    BY <1>7 DEF AddHostTend, ghosts
  <2> HIDE DEF b, c, r, q, p
  <2> QED BY <1>5, <1>6, <2>1
<1> QED BY <1>4, <1>7

\* A tend ends with the flag taken back and nodes found or not.
LEMMA TendEndsDoes ==
  ASSUME Sound, NEW b \in Block, NEW look, TendEnds(b, look)
  PROVE  /\ blk' \in [Block -> ClusterRecord]
         /\ \A d \in Block : blk'[d].mem = blk[d].mem /\ blk'[d].ref = blk[d].ref
<1>1. PICK found \in BOOLEAN :
        blk' = [blk EXCEPT ![b].tending = FALSE, ![b].nodes = @ \/ found]
  BY DEF TendEnds
<1> DEFINE c == [blk[b] EXCEPT !.tending = FALSE, !.nodes = @ \/ found]
<1>2. blk[b] \in ClusterRecord
  BY DEF Sound, Types
<1>3. blk' = [blk EXCEPT ![b] = c]
  BY <1>1
<1>4. c \in ClusterRecord /\ c.mem = blk[b].mem /\ c.ref = blk[b].ref
  BY <1>2 DEF ClusterRecord
<1> HIDE DEF c
<1> QED BY <1>3, <1>4, FlagsChange

\* A tend of add_host ends.
LEMMA AddHostTendedDoes ==
  ASSUME plan \in Plans, Counted, Sound, NEW u \in User, AddHostTended(u)
  PROVE  Sound'
<1> DEFINE b == ux[u].asc
           r == [ux[u] EXCEPT !.pc = "tend", !.tends = @ - 1]
<1>1. /\ ux[u] \in ThreadRecord /\ ux[u].pc = "tending" /\ TendEnds(b, ux[u].look)
      /\ UNCHANGED <<plan, handle, own>> /\ ux' = [ux EXCEPT ![u] = r]
  BY DEF Sound, Types, AddHostTended, At, ghosts
<1>2. b \in Block
  BY <1>1 DEF Sound, HeldOK, Making
<1>3. r \in ThreadRecord /\ r.pc = "tend" /\ r.asc = b /\ r.at = ux[u].at
  <2>1. ux[u].tends - 1 \in Int
    BY <1>1 DEF ThreadRecord
  <2> QED BY <1>1, <2>1, TendPlace
<1> HIDE DEF b, r
<1>4. /\ blk' \in [Block -> ClusterRecord]
      /\ \A d \in Block : blk'[d].mem = blk[d].mem /\ blk'[d].ref = blk[d].ref
  BY <1>1, <1>2, TendEndsDoes
<1> QED BY <1>1, <1>3, <1>4, MakingStep DEF Making, b

\* A thread between two calls.
LEMMA IdleType ==
  ASSUME NEW n \in Nat
  PROVE  Idle(n) \in ThreadRecord
BY DEF Idle, ThreadRecord, Places

\* The thread is with a cluster whose host was not reached, or returns it.
LEMMA AddHostReturnsDoes ==
  ASSUME plan \in Plans, Counted, Sound, NEW u \in User, AddHostReturns(u)
  PROVE  Sound'
<1> DEFINE b == ux[u].asc
           s == Call(u).slot
           r == [ux[u] EXCEPT !.pc = "release"]
<1>1. ux[u] \in ThreadRecord /\ ux[u].pc = "added" /\ blk \in [Block -> ClusterRecord]
  BY DEF Sound, Types, AddHostReturns, At
<1>2. TurnOK(u) /\ HeldOK(u) /\ Busy(u)
  BY <1>1 DEF Sound, TurnOK
<1>3. /\ b \in Block /\ Live(b) /\ s \in Slot /\ Call(u).op = "get_or_create"
      /\ ux[u].at % 2 = 1 /\ own[u] = {}
  BY <1>1, <1>2, CallFacts DEF HeldOK, TurnOK, Making, Ending
<1>4. UNCHANGED <<plan, blk>>
  BY DEF AddHostReturns, ghosts
<1>5. CASE ~ ux[u].ok
  <2>1. UNCHANGED <<plan, handle, own>> /\ ux' = [ux EXCEPT ![u] = r]
    BY <1>3, <1>5 DEF AddHostReturns, Goto, ghosts
  <2>2. r \in ThreadRecord /\ r.pc = "release" /\ r.asc = b /\ r.at = ux[u].at
    BY <1>1 DEF ThreadRecord, Places, Making
  <2> HIDE DEF b, s, r
  <2> QED BY <1>1, <1>4, <2>1, <2>2, MakingStep DEF Making, b
<1>6. CASE ux[u].ok
  <2>1. /\ handle' = [handle EXCEPT ![u][s] = b] /\ own' = [own EXCEPT ![u] = @ \cup {s}]
        /\ ux' = [ux EXCEPT ![u] = Idle(ux[u].at + 1)]
    BY <1>6 DEF AddHostReturns, Return
  <2> HIDE DEF b, s, r
  <2>2. /\ handle \in [User -> [Slot -> Block \cup {NULL}]] /\ own \in [User -> SUBSET Slot]
        /\ ux \in [User -> ThreadRecord]
    BY DEF Sound, Types
  <2>3. /\ OthersKept(u) /\ own'[u] = {s} /\ handle'[u][s] = b
        /\ \A t \in Slot \ {s} : handle'[u][t] = handle[u][t]
        /\ ux'[u] = Idle(ux[u].at + 1)
    BY <1>3, <2>1, <2>2 DEF OthersKept
  <2>4. Types'
    <3>1. Idle(ux[u].at + 1) \in ThreadRecord
      BY IdleType, CallFacts
    <3> QED BY <1>1, <1>3, <1>4, <2>1, <2>2, <3>1 DEF Types
  <2>5. ASSUME NEW v \in User PROVE TurnOK(v)'
    <3>1. TurnOK(u)'
      BY <1>2, <1>3, <1>4, <2>3, ReturnTurn DEF s
    <3> QED BY <1>4, <2>3, <3>1, OthersTurn
  <2>6. ASSUME NEW v \in User PROVE HeldOK(v)'
    <3>1. ux'[u].pc = "idle"
      BY <2>3 DEF Idle
    <3>2. \A w \in User \ {u} : \A c \in Block : Refers(w, c) =>
            blk'[c].mem = "live" /\ (blk'[c].ref = blk[c].ref \/ blk[c].ref # 0)
      BY <1>4, RefersLive DEF Live
    <3>3. HeldOK(u)'
      BY <1>3, <1>4, <2>3, <3>1 DEF HeldOK, Making, Ending, Live
    <3> QED BY <1>4, <2>3, <3>1, <3>2, <3>3, OthersHeld DEF Ending
  <2>7. ASSUME NEW c \in Block, Live(c)'
        PROVE  blk'[c].ref = Cardinality(Handles(c)') + Cardinality(Makers(c)')
    <3>1. /\ Cardinality(Handles(c)') = Cardinality(Handles(c)) + (IF b = c THEN 1 ELSE 0)
          /\ Cardinality(Handles(c)) \in Nat
      <4>1. \A v \in User \ {u} : own'[v] = own[v] /\ handle'[v] = handle[v]
        BY <2>3 DEF OthersKept
      <4>2. \A t \in Slot \ {s} : (t \in own'[u] <=> t \in own[u]) /\ handle'[u][t] = handle[u][t]
        BY <1>3, <2>3
      <4>3. Cardinality(Handles(c)') = Cardinality(Handles(c))
              - (IF s \in own[u] /\ handle[u][s] = c THEN 1 ELSE 0)
              + (IF s \in own'[u] /\ handle'[u][s] = c THEN 1 ELSE 0)
        BY <1>3, <4>1, <4>2, HandlesChange
      <4> QED BY <1>3, <2>3, <4>3, Counts
    <3>2. /\ Cardinality(Makers(c)') = Cardinality(Makers(c)) - (IF b = c THEN 1 ELSE 0)
          /\ Cardinality(Makers(c)) \in Nat
      <4>1. u \in Makers(c) <=> b = c
        BY <1>1, <1>2, <1>3 DEF Makers, Creating, b
      <4>2. u \notin Makers(c)'
        BY <2>3 DEF Makers, Creating, Idle
      <4>3. \A v \in User \ {u} : ux'[v] = ux[v]
        BY <2>3 DEF OthersKept
      <4>4. Cardinality(Makers(c)') = Cardinality(Makers(c))
              - (IF u \in Makers(c) THEN 1 ELSE 0) + (IF u \in Makers(c)' THEN 1 ELSE 0)
        BY <1>4, <4>3, MakersChange
      <4> QED BY <4>1, <4>2, <4>4, Counts
    <3>3. blk'[c].ref = Cardinality(Handles(c)) + Cardinality(Makers(c))
      BY <1>4, <2>7 DEF Sound, CountOK, Live
    <3> QED BY <3>1, <3>2, <3>3
  <2> QED BY <2>4, <2>5, <2>6, <2>7 DEF Sound, CountOK
<1> QED BY <1>5, <1>6

\* A search found a cluster; a last release that was under way shows as revived.
LEMMA GetHitDoes ==
  ASSUME plan \in Plans, Counted, Sound, NEW u \in User, ux[u].pc = "idle", Busy(u),
         Call(u).op = "get_or_create", plan' = plan,
         NEW b \in Block, Live(b), GetHit(u, b), ~ revived'
  PROVE  Sound'
<1> DEFINE s == Call(u).slot
           d == [blk[b] EXCEPT !.ref = @ + 1]
<1>1. /\ handle \in [User -> [Slot -> Block \cup {NULL}]] /\ own \in [User -> SUBSET Slot]
      /\ ux \in [User -> ThreadRecord] /\ blk \in [Block -> ClusterRecord]
  BY DEF Sound, Types
<1>2. /\ s \in Slot /\ ux[u].at % 2 = 1 /\ own[u] = {}
  BY CallFacts DEF Sound, TurnOK
<1>3. /\ blk' = [blk EXCEPT ![b] = d] /\ blk[b].ref # 0
      /\ own' = [own EXCEPT ![u] = @ \cup {s}] /\ handle' = [handle EXCEPT ![u][s] = b]
      /\ ux' = [ux EXCEPT ![u] = Idle(ux[u].at + 1)]
  BY DEF GetHit, Return
<1>4. blk[b] \in ClusterRecord /\ blk[b].ref \in Nat
  BY <1>1 DEF ClusterRecord
<1>5. d \in ClusterRecord /\ d.mem = blk[b].mem /\ d.ref = blk[b].ref + 1
  BY <1>4 DEF ClusterRecord
<1> HIDE DEF s, d
<1>6. /\ OthersKept(u) /\ own'[u] = {s} /\ handle'[u][s] = b
      /\ \A t \in Slot \ {s} : handle'[u][t] = handle[u][t]
      /\ ux'[u] = Idle(ux[u].at + 1) /\ ux'[u].pc = "idle"
  BY <1>1, <1>2, <1>3 DEF OthersKept, Idle
<1>7. \A c \in Block :
        /\ blk'[c].mem = blk[c].mem
        /\ blk'[c].ref = IF c = b THEN blk[c].ref + 1 ELSE blk[c].ref
  BY <1>1, <1>3, <1>5
<1>8. Types'
  <2>1. Idle(ux[u].at + 1) \in ThreadRecord
    BY IdleType, CallFacts
  <2> QED BY <1>1, <1>2, <1>3, <1>5, <2>1 DEF Types
<1>9. ASSUME NEW v \in User PROVE TurnOK(v)'
  <2>1. TurnOK(u)'
    BY <1>2, <1>6, ReturnTurn DEF s
  <2> QED BY <1>6, <2>1, OthersTurn
<1>10. ASSUME NEW v \in User PROVE HeldOK(v)'
  <2>1. \A w \in User \ {u} : \A c \in Block : Refers(w, c) =>
          blk'[c].mem = "live" /\ (blk'[c].ref = blk[c].ref \/ blk[c].ref # 0)
    BY <1>3, <1>7, RefersLive DEF Live
  <2>2. HeldOK(u)'
    BY <1>6, <1>7 DEF HeldOK, Making, Ending, Live
  <2> QED BY <1>6, <2>1, <2>2, OthersHeld DEF Ending
<1>11. ASSUME NEW c \in Block, Live(c)'
       PROVE  blk'[c].ref = Cardinality(Handles(c)') + Cardinality(Makers(c)')
  <2>1. blk[c].ref = Cardinality(Handles(c)) + Cardinality(Makers(c))
    BY <1>7, <1>11 DEF Sound, CountOK, Live
  <2>2. u \notin Makers(c) /\ u \notin Makers(c)'
    BY <1>6 DEF Makers, Creating
  <2>3. \A t \in Slot \ {s} : (t \in own'[u] <=> t \in own[u]) /\ handle'[u][t] = handle[u][t]
    BY <1>2, <1>6
  <2>4. /\ Cardinality(Handles(c)) \in Nat /\ Cardinality(Makers(c)) \in Nat
        /\ Cardinality(Handles(c)') = Cardinality(Handles(c)) + (IF b = c THEN 1 ELSE 0)
        /\ Cardinality(Makers(c)') = Cardinality(Makers(c))
    BY <1>2, <1>6, <2>2, <2>3, CountsMove
  <2> QED BY <1>7, <2>1, <2>4
<1> QED BY <1>8, <1>9, <1>10, <1>11 DEF Sound, CountOK

\* A get finds a cluster or goes on to create one.
LEMMA GetDoes ==
  ASSUME plan \in Plans, Counted, Sound, NEW u \in User, Get(u), ~ revived'
  PROVE  Sound'
<1> DEFINE r == [ux[u] EXCEPT !.pc = "create"]
           hits == Found(Call(u).host)
<1>1. ux[u] \in ThreadRecord /\ ux[u].pc = "idle" /\ Busy(u)
  BY DEF Sound, Types, Get, At
<1>2. Call(u).op = "get_or_create" /\ ux[u].at % 2 = 1
  BY <1>1, CallFacts DEF Get
<1>3. CASE \E c \in ToSet(Listed) : ~ Live(c)
  <2>1. Undefined
    BY <1>3 DEF Get
  <2> QED BY <2>1, UndefinedStep
<1>4. CASE ~ (\E c \in ToSet(Listed) : ~ Live(c))
  <2>1. /\ plan' = plan
        /\ \/ \E b \in hits : GetHit(u, b)
           \/ UNCHANGED <<blk, handle, own>> /\ ux' = [ux EXCEPT ![u] = r]
    BY <1>4 DEF Get, Goto
  <2>2. ASSUME NEW b \in hits, GetHit(u, b) PROVE Sound'
    <3>1. b \in Block /\ b \in ToSet(Listed)
      BY DEF Found, ToSet
    <3>2. Live(b)
      BY <1>4, <3>1
    <3> QED BY <1>1, <1>2, <2>1, <2>2, <3>1, <3>2, GetHitDoes
  <2>3. ASSUME UNCHANGED <<blk, handle, own>>, ux' = [ux EXCEPT ![u] = r] PROVE Sound'
    <3>1. r \in ThreadRecord /\ r.pc = "create" /\ r.at = ux[u].at
      BY <1>1 DEF ThreadRecord, Places
    <3> HIDE DEF r, hits
    <3>2. /\ ux' \in [User -> ThreadRecord] /\ ux'[u] = r /\ \A v \in User \ {u} : ux'[v] = ux[v]
          /\ blk' \in [Block -> ClusterRecord]
      BY <2>3, <3>1 DEF Sound, Types
    <3>3. TurnOK(u)'
      <4>1. TurnOK(u)
        BY DEF Sound
      <4> QED BY <1>1, <1>2, <2>1, <2>3, <3>1, <3>2, <4>1 DEF TurnOK, Busy
    <3>4. \A b \in Block : u \notin Makers(b)' /\ u \notin Makers(b)
      BY <1>1, <3>1, <3>2 DEF Makers, Creating
    <3> QED BY <2>1, <2>3, <3>1, <3>2, <3>3, <3>4, QuietThread DEF Making, Ending
  <2> HIDE DEF r, hits
  <2> QED BY <2>1, <2>2, <2>3
<1> QED BY <1>3, <1>4

\* A cluster is created with the reference of its maker.
LEMMA CreateDoes ==
  ASSUME plan \in Plans, Counted, Sound, NEW u \in User, citrusleaf_cluster_create(u)
  PROVE  Sound'
<1>1. /\ handle \in [User -> [Slot -> Block \cup {NULL}]] /\ own \in [User -> SUBSET Slot]
      /\ ux \in [User -> ThreadRecord] /\ blk \in [Block -> ClusterRecord]
  BY DEF Sound, Types
<1>2. /\ ux[u].pc = "create" /\ TurnOK(u) /\ HeldOK(u) /\ Busy(u)
  BY DEF citrusleaf_cluster_create, At, Sound, TurnOK
<1>3. Call(u).op = "get_or_create" /\ ux[u].at % 2 = 1 /\ own[u] = {} /\ Call(u).slot \in Slot
  BY <1>2, CallFacts DEF TurnOK, Ending
<1> DEFINE d == [Blank EXCEPT !.mem = "live", !.ref = 1]
<1>4. PICK b \in Malloced :
        /\ blk' = [blk EXCEPT ![b] = d] /\ ux' = [ux EXCEPT ![u].pc = "ready", ![u].asc = b]
  BY DEF citrusleaf_cluster_create
<1>5. UNCHANGED <<plan, handle, own>> /\ b \in Block /\ ~ Live(b)
  BY <1>1 DEF citrusleaf_cluster_create, ghosts, Malloced, Fresh, Live
<1> DEFINE r == [ux[u] EXCEPT !.pc = "ready", !.asc = b]
<1>6. d \in ClusterRecord /\ d.mem = "live" /\ d.ref = 1
  BY DEF ClusterRecord, Blank
<1>7. r \in ThreadRecord /\ r.pc = "ready" /\ r.asc = b /\ r.at = ux[u].at
  <2>1. ux[u] \in ThreadRecord
    BY <1>1
  <2> QED BY <1>5, <2>1 DEF ThreadRecord, Places, Making
<1>8. ux' = [ux EXCEPT ![u] = r]
  BY <1>4
<1> HIDE DEF d, r
<1>9. OthersKept(u) /\ ux'[u] = r
  BY <1>1, <1>5, <1>8 DEF OthersKept
<1>10. /\ blk'[b].mem = "live" /\ blk'[b].ref = 1
       /\ \A c \in Block : c # b => blk'[c].mem = blk[c].mem /\ blk'[c].ref = blk[c].ref
  BY <1>1, <1>4, <1>5, <1>6
<1>11. Types'
  BY <1>1, <1>4, <1>5, <1>6, <1>7, <1>8 DEF Types
<1>12. ASSUME NEW v \in User PROVE TurnOK(v)'
  <2>1. TurnOK(u)'
    BY <1>2, <1>3, <1>5, <1>7, <1>9 DEF TurnOK, Busy
  <2> QED BY <1>5, <1>9, <2>1, OthersTurn
<1>13. ASSUME NEW v \in User PROVE HeldOK(v)'
  <2>1. \A w \in User \ {u} : \A c \in Block : Refers(w, c) =>
          blk'[c].mem = "live" /\ (blk'[c].ref = blk[c].ref \/ blk[c].ref # 0)
    BY <1>5, <1>10, RefersLive DEF Live
  <2>2. HeldOK(u)'
    BY <1>3, <1>5, <1>7, <1>9, <1>10 DEF HeldOK, Making, Ending, Live
  <2> QED BY <1>5, <1>7, <1>9, <2>1, <2>2, OthersHeld DEF Ending
<1>14. ASSUME NEW c \in Block, Live(c)'
       PROVE  blk'[c].ref = Cardinality(Handles(c)') + Cardinality(Makers(c)')
  <2>1. /\ u \notin Makers(c) /\ (u \in Makers(c)' <=> c = b)
    BY <1>2, <1>3, <1>5, <1>7, <1>9 DEF Makers, Creating, Busy, Call
  <2>2. /\ Cardinality(Handles(c)) \in Nat /\ Cardinality(Makers(c)) \in Nat
        /\ Cardinality(Handles(c)') = Cardinality(Handles(c))
        /\ Cardinality(Makers(c)') = Cardinality(Makers(c)) + (IF c = b THEN 1 ELSE 0)
    BY <1>3, <1>5, <1>9, <2>1, CountsMove
  <2>3. CASE c # b
    <3>1. blk[c].ref = Cardinality(Handles(c)) + Cardinality(Makers(c))
      BY <1>10, <1>14, <2>3 DEF Sound, CountOK, Live
    <3> QED BY <1>10, <2>2, <2>3, <3>1
  <2>4. CASE c = b
    <3>1. \A v \in User : ~ Refers(v, b)
      BY <1>5, RefersLive
    <3>2. Handles(b) = {}
      BY <3>1 DEF Handles, Refers
    <3>3. Makers(b) = {}
      BY <3>1 DEF Makers, Creating, Refers, Making
    <3> QED BY <1>10, <2>2, <2>4, <3>2, <3>3, FS_EmptySet
  <2> QED BY <2>3, <2>4
<1> QED BY <1>11, <1>12, <1>13, <1>14 DEF Sound, CountOK

\* A thread gives back what it has in its slot, or had nothing.
LEMMA CloseDoes ==
  ASSUME plan \in Plans, Counted, Sound, NEW u \in User, Close(u)
  PROVE  Sound'
<1> DEFINE s == Call(u).slot
           r == [ux[u] EXCEPT !.pc = "release", !.asc = handle[u][s]]
<1>1. /\ handle \in [User -> [Slot -> Block \cup {NULL}]] /\ own \in [User -> SUBSET Slot]
      /\ ux \in [User -> ThreadRecord] /\ blk \in [Block -> ClusterRecord]
  BY DEF Sound, Types
<1>2. /\ ux[u].pc = "idle" /\ Busy(u) /\ TurnOK(u) /\ HeldOK(u) /\ Call(u).op = "release"
      /\ UNCHANGED <<plan, handle, own, blk>>
  BY DEF Close, At, Sound, ghosts
<1>3. /\ ux[u].at % 2 = 0 /\ s = Ours(u) /\ s \in Slot
      /\ own[u] \subseteq {s} /\ (s \in own[u] \/ handle[u][s] = NULL)
  BY <1>2, CallFacts DEF TurnOK
<1>4. IF handle[u][s] = NULL THEN ux' = [ux EXCEPT ![u] = Idle(ux[u].at + 1)]
      ELSE ux' = [ux EXCEPT ![u] = r]
  BY DEF Close, Return
<1> HIDE DEF s
<1>5. CASE handle[u][s] = NULL
  <2>1. own[u] = {}
    BY <1>2, <1>3, <1>5, BlockAssumption DEF HeldOK
  <2>2. Idle(ux[u].at + 1) \in ThreadRecord
    BY IdleType, CallFacts
  <2>3. /\ ux'[u] = Idle(ux[u].at + 1) /\ ux' \in [User -> ThreadRecord]
        /\ \A v \in User \ {u} : ux'[v] = ux[v]
    BY <1>1, <1>4, <1>5, <2>2
  <2>4. TurnOK(u)'
    BY <1>2, <1>3, <2>1, <2>3, ReturnTurn
  <2>5. ux'[u].pc = "idle"
    BY <2>3 DEF Idle
  <2>6. \A b \in Block : u \notin Makers(b)' /\ u \notin Makers(b)
    BY <1>2, <2>5 DEF Makers, Creating
  <2> QED BY <1>1, <1>2, <2>3, <2>4, <2>5, <2>6, QuietThread DEF Making, Ending
<1>6. CASE handle[u][s] # NULL
  <2>1. s \in own[u] /\ handle[u][s] \in Block /\ Live(handle[u][s])
    BY <1>2, <1>3, <1>6 DEF HeldOK
  <2>2. r \in ThreadRecord /\ r.pc = "release" /\ r.asc = handle[u][s] /\ r.at = ux[u].at
    <3>1. ux[u] \in ThreadRecord
      BY <1>1
    <3> QED BY <2>1, <3>1 DEF ThreadRecord, Places
  <2> HIDE DEF r
  <2>3. /\ ux'[u] = r /\ ux' \in [User -> ThreadRecord] /\ \A v \in User \ {u} : ux'[v] = ux[v]
    BY <1>1, <1>4, <1>6, <2>2
  <2>4. TurnOK(u)'
    BY <1>2, <1>3, <2>1, <2>2, <2>3 DEF TurnOK, Busy, Ours, Ending
  <2>5. \A b \in Block : u \notin Makers(b)' /\ u \notin Makers(b)
    BY <1>2, <2>2, <2>3 DEF Makers, Creating, Call
  <2> QED BY <1>1, <1>2, <2>1, <2>2, <2>3, <2>4, <2>5, QuietThread DEF Making, Ending
<1> QED BY <1>5, <1>6

\* citrusleaf_cluster_destroy: out of the list, and when no tend is under way, marked.
LEMMA UnlinkMarkDo ==
  ASSUME plan \in Plans, Counted, Sound, NEW u \in User, Unlink(u) \/ MarkFreed(u)
  PROVE  Sound'
<1> DEFINE b == ux[u].asc
           c == [blk[b] EXCEPT !.freed = TRUE]
           r == [ux[u] EXCEPT !.pc = "free"]
           q == [ux[u] EXCEPT !.pc = "freeing"]
<1>1. ux[u] \in ThreadRecord /\ blk \in [Block -> ClusterRecord] /\ ux[u].pc \in {"destroy", "free"}
  BY DEF Sound, Types, Unlink, MarkFreed, At
<1>2. b \in Block
  BY <1>1 DEF Sound, HeldOK, Ending
<1>3. blk[b] \in ClusterRecord
  BY <1>1, <1>2
<1>4. \/ Undefined
      \/ blk' = blk /\ ux' = [ux EXCEPT ![u] = r] /\ UNCHANGED <<plan, handle, own>>
      \/ /\ blk' = [blk EXCEPT ![b] = c] /\ ux' = [ux EXCEPT ![u] = q]
         /\ UNCHANGED <<plan, handle, own>>
  BY DEF Unlink, MarkFreed, Goto, ghosts
<1>5. c \in ClusterRecord /\ c.mem = blk[b].mem /\ c.ref = blk[b].ref
  BY <1>3 DEF ClusterRecord
<1>6. r \in ThreadRecord /\ r.pc = "free" /\ r.asc = b /\ r.at = ux[u].at
  BY <1>1 DEF ThreadRecord, Places, Ending
<1>7. q \in ThreadRecord /\ q.pc = "freeing" /\ q.asc = b /\ q.at = ux[u].at
  BY <1>1 DEF ThreadRecord, Places, Ending
<1> HIDE DEF c, r, q
<1>8. CASE Undefined
  BY <1>8, UndefinedStep
<1>9. CASE blk' = blk /\ ux' = [ux EXCEPT ![u] = r] /\ UNCHANGED <<plan, handle, own>>
  BY <1>1, <1>6, <1>9, EndingStep DEF Ending
<1>10. CASE /\ blk' = [blk EXCEPT ![b] = c] /\ ux' = [ux EXCEPT ![u] = q]
            /\ UNCHANGED <<plan, handle, own>>
  <2>1. /\ blk' \in [Block -> ClusterRecord]
        /\ \A d \in Block : blk'[d].mem = blk[d].mem /\ blk'[d].ref = blk[d].ref
    BY <1>2, <1>5, <1>10, FlagsChange
  <2> QED BY <1>1, <1>7, <1>10, <2>1, EndingStep DEF Ending
<1> QED BY <1>4, <1>8, <1>9, <1>10

\* A reference is given back: that of a handle, or of a cluster that was not reached.
LEMMA ReleaseDoes ==
  ASSUME plan \in Plans, Counted, Sound, NEW u \in User, Release(u)
  PROVE  Sound'
<1> DEFINE b == ux[u].asc
           s == Call(u).slot
           d == [blk[b] EXCEPT !.ref = IF @ > 0 THEN @ - 1 ELSE @]
           r == [ux[u] EXCEPT !.pc = "destroy"]
<1>1. /\ handle \in [User -> [Slot -> Block \cup {NULL}]] /\ own \in [User -> SUBSET Slot]
      /\ ux \in [User -> ThreadRecord] /\ blk \in [Block -> ClusterRecord]
  BY DEF Sound, Types
<1>2. ux[u].pc = "release" /\ Busy(u) /\ TurnOK(u) /\ HeldOK(u)
  BY DEF Release, At, Sound, TurnOK
<1>3. b \in Block /\ Live(b) /\ s \in Slot
  BY <1>2, CallFacts DEF HeldOK
<1>4. blk[b] \in ClusterRecord /\ blk[b].ref \in Nat
  BY <1>1, <1>3 DEF ClusterRecord
<1>5. /\ plan' = plan /\ blk' = [blk EXCEPT ![b] = d]
      /\ own' = IF Call(u).op = "release" THEN [own EXCEPT ![u] = @ \ {s}] ELSE own
      /\ \/ blk[b].ref = 1 /\ ux' = [ux EXCEPT ![u] = r] /\ handle' = handle
         \/ /\ ux' = [ux EXCEPT ![u] = Idle(ux[u].at + 1)]
            /\ Call(u).op = "release" => handle' = handle
            /\ Call(u).op = "get_or_create" => handle' = [handle EXCEPT ![u][s] = NULL]
  BY <1>3 DEF Release, Goto, Return, Nothing, ghosts
<1>6. \/ /\ Call(u).op = "release" /\ ux[u].at % 2 = 0 /\ own[u] = {s} /\ handle[u][s] = b
      \/ Call(u).op = "get_or_create" /\ ux[u].at % 2 = 1 /\ own[u] = {}
  BY <1>2, CallFacts DEF TurnOK
<1>7. d \in ClusterRecord /\ d.mem = "live" /\ d.ref = IF blk[b].ref > 0 THEN blk[b].ref - 1 ELSE 0
  BY <1>3, <1>4 DEF ClusterRecord, Live
<1>8. r \in ThreadRecord /\ r.pc = "destroy" /\ r.asc = b /\ r.at = ux[u].at
  <2>1. ux[u] \in ThreadRecord
    BY <1>1
  <2> QED BY <2>1 DEF ThreadRecord, Places, Ending
<1> HIDE DEF b, s, d, r
<1>9. Idle(ux[u].at + 1) \in ThreadRecord /\ Idle(ux[u].at + 1).pc = "idle"
  BY IdleType, CallFacts DEF Idle
<1>10. /\ own'[u] = {} /\ own' \in [User -> SUBSET Slot]
       /\ \A v \in User \ {u} : own'[v] = own[v]
  BY <1>1, <1>5, <1>6
<1>11. /\ handle' \in [User -> [Slot -> Block \cup {NULL}]]
       /\ \A v \in User \ {u} : handle'[v] = handle[v]
       /\ \A t \in Slot \ {s} : handle'[u][t] = handle[u][t]
  BY <1>1, <1>3, <1>5, <1>6
<1>12. /\ ux' \in [User -> ThreadRecord] /\ \A v \in User \ {u} : ux'[v] = ux[v]
       /\ \/ ux'[u] = r /\ blk[b].ref = 1
          \/ /\ ux'[u] = Idle(ux[u].at + 1)
             /\ Call(u).op = "get_or_create" => handle'[u][s] = NULL
  BY <1>1, <1>3, <1>5, <1>8, <1>9
<1>13. ux'[u].pc \in {"idle", "destroy"}
  BY <1>8, <1>9, <1>12
<1>14. /\ blk' \in [Block -> ClusterRecord]
       /\ blk'[b].mem = "live" /\ blk'[b].ref = IF blk[b].ref > 0 THEN blk[b].ref - 1 ELSE 0
       /\ \A c \in Block : c # b => blk'[c].mem = blk[c].mem /\ blk'[c].ref = blk[c].ref
  BY <1>1, <1>3, <1>5, <1>7
<1>15. OthersKept(u)
  BY <1>10, <1>11, <1>12 DEF OthersKept
<1>16. ASSUME NEW c \in Block, Live(c)
       PROVE  /\ blk[c].ref \in Nat
              /\ blk[c].ref - (IF c = b THEN 1 ELSE 0)
                   = Cardinality(Handles(c)') + Cardinality(Makers(c)')
              /\ c = b => blk[c].ref > 0
  <2>1. blk[c].ref = Cardinality(Handles(c)) + Cardinality(Makers(c))
    BY <1>16 DEF Sound, CountOK
  <2>2. u \notin Makers(c)'
    BY <1>13 DEF Makers, Creating
  <2>3. u \in Makers(c) <=> c = b /\ Call(u).op = "get_or_create"
    BY <1>2 DEF Makers, Creating, b
  <2>4. \A t \in Slot \ {s} : (t \in own'[u] <=> t \in own[u]) /\ handle'[u][t] = handle[u][t]
    BY <1>6, <1>10, <1>11
  <2>5. /\ Cardinality(Handles(c)) \in Nat /\ Cardinality(Makers(c)) \in Nat
        /\ Cardinality(Handles(c)') \in Nat /\ Cardinality(Makers(c)') \in Nat
        /\ Cardinality(Handles(c)') = Cardinality(Handles(c))
             - (IF s \in own[u] /\ handle[u][s] = c THEN 1 ELSE 0)
             + (IF s \in own'[u] /\ handle'[u][s] = c THEN 1 ELSE 0)
        /\ Cardinality(Makers(c)') = Cardinality(Makers(c))
             - (IF u \in Makers(c) THEN 1 ELSE 0) + (IF u \in Makers(c)' THEN 1 ELSE 0)
    BY <1>3, <1>5, <1>15, <2>4, CountsMove
  <2>6. CASE Call(u).op = "release"
    <3>1. u \notin Makers(c) /\ s \in own[u] /\ handle[u][s] = b /\ s \notin own'[u]
      BY <1>6, <1>10, <2>3, <2>6
    <3>2. /\ Cardinality(Handles(c)') = Cardinality(Handles(c)) - (IF c = b THEN 1 ELSE 0)
          /\ Cardinality(Makers(c)') = Cardinality(Makers(c))
      BY <2>2, <2>5, <3>1
    <3> QED BY <2>1, <2>5, <3>2
  <2>7. CASE Call(u).op = "get_or_create"
    <3>1. (u \in Makers(c) <=> c = b) /\ s \notin own[u] /\ s \notin own'[u]
      BY <1>6, <1>10, <2>3, <2>7
    <3>2. /\ Cardinality(Handles(c)') = Cardinality(Handles(c))
          /\ Cardinality(Makers(c)') = Cardinality(Makers(c)) - (IF c = b THEN 1 ELSE 0)
      BY <2>2, <2>5, <3>1
    <3> QED BY <2>1, <2>5, <3>2
  <2> QED BY <1>6, <2>6, <2>7
<1>17. blk[b].ref > 0 /\ blk[b].ref \in Nat /\ blk'[b].ref = blk[b].ref - 1
  BY <1>3, <1>14, <1>16
<1>18. Types'
  BY <1>10, <1>11, <1>12, <1>14 DEF Types
<1>19. ASSUME NEW v \in User PROVE TurnOK(v)'
  <2>1. CASE ux'[u] = r
    <3>1. ux'[u].pc = "destroy" /\ ux'[u].at = ux[u].at
      BY <1>8, <2>1
    <3>2. TurnOK(u)'
      BY <1>2, <1>5, <1>10, <3>1 DEF TurnOK, Busy, Ours, Ending
    <3> QED BY <1>5, <1>15, <3>2, OthersTurn
  <2>2. CASE ux'[u] = Idle(ux[u].at + 1) /\ (Call(u).op = "get_or_create" => handle'[u][s] = NULL)
    <3>1. ux[u].at % 2 = 1 => Call(u).op = "get_or_create"
      BY <1>2, CallFacts
    <3>2. TurnOK(u)'
      BY <1>2, <1>5, <1>10, <2>2, <3>1, ReturnTurn DEF s
    <3> QED BY <1>5, <1>15, <3>2, OthersTurn
  <2> QED BY <1>12, <2>1, <2>2
<1>20. \A v \in User \ {u} : ux[v].pc \in Ending => ux[v].asc # b
  <2>1. \A v \in User : HeldOK(v)
    BY DEF Sound
  <2> QED BY <1>17, <2>1 DEF HeldOK
<1>21. ASSUME ux'[u].pc \in Ending
       PROVE  ux'[u].asc = b /\ blk[b].ref = 1
  BY <1>8, <1>9, <1>12, <1>21 DEF Ending
<1>22. ASSUME NEW v \in User PROVE HeldOK(v)'
  <2>1. \A w \in User \ {u} : \A c \in Block : Refers(w, c) =>
          blk'[c].mem = "live" /\ (blk'[c].ref = blk[c].ref \/ blk[c].ref # 0)
    BY <1>14, <1>17, RefersLive DEF Live
  <2>2. HeldOK(u)'
    <3>1. ux'[u].pc \in Making \cup Ending \cup {"release"} => ux'[u].pc \in Ending
      BY <1>13 DEF Making, Ending
    <3>2. \A w \in User \ {u} : ux'[w].pc \in Ending => ux'[w].asc # b
      BY <1>12, <1>20
    <3> QED BY <1>3, <1>10, <1>14, <1>17, <1>21, <3>1, <3>2 DEF HeldOK, Live
  <2>3. ux'[u].pc \in Ending =>
          \A w \in User \ {u} : ux[w].pc \in Ending => ux[w].asc # ux'[u].asc
    BY <1>20, <1>21
  <2> QED BY <1>5, <1>15, <2>1, <2>2, <2>3, OthersHeld
<1>23. ASSUME NEW c \in Block, Live(c)'
       PROVE  blk'[c].ref = Cardinality(Handles(c)') + Cardinality(Makers(c)')
  <2>1. Live(c)
    BY <1>3, <1>14, <1>23 DEF Live
  <2>2. blk'[c].ref = blk[c].ref - (IF c = b THEN 1 ELSE 0)
    BY <1>14, <1>16, <1>17, <2>1
  <2> QED BY <1>16, <2>1, <2>2
<1> QED BY <1>18, <1>19, <1>22, <1>23 DEF Sound, CountOK

\* A cluster without references is freed: nobody else refers to it.
LEMMA FreeDoes ==
  ASSUME plan \in Plans, Counted, Sound, NEW u \in User, Free(u)
  PROVE  Sound'
<1> DEFINE b == ux[u].asc
           s == Call(u).slot
           d == [Blank EXCEPT !.mem = "freed"]
<1>1. /\ handle \in [User -> [Slot -> Block \cup {NULL}]] /\ own \in [User -> SUBSET Slot]
      /\ ux \in [User -> ThreadRecord] /\ blk \in [Block -> ClusterRecord]
  BY DEF Sound, Types
<1>2. ux[u].pc = "freeing" /\ Busy(u) /\ TurnOK(u) /\ HeldOK(u)
  BY DEF Free, At, Sound, TurnOK
<1>3. /\ b \in Block /\ Live(b) /\ s \in Slot /\ blk[b].ref = 0 /\ own[u] = {}
      /\ \A v \in User \ {u} : ux[v].pc \in Ending => ux[v].asc # b
  BY <1>2, CallFacts DEF HeldOK, TurnOK, Ending
<1>4. \/ Call(u).op = "get_or_create" /\ ux[u].at % 2 = 1
      \/ Call(u).op = "release" /\ ux[u].at % 2 = 0
  BY <1>2, CallFacts
<1>5. /\ UNCHANGED <<plan, own>> /\ blk' = [blk EXCEPT ![b] = d]
      /\ ux' = [ux EXCEPT ![u] = Idle(ux[u].at + 1)]
      /\ handle' = [handle EXCEPT ![u][s] = NULL]
  BY <1>3, <1>4 DEF Free, Nothing, Return, ghosts
<1>6. d \in ClusterRecord /\ d.mem = "freed"
  BY DEF ClusterRecord, Blank
<1> HIDE DEF b, s, d
<1>7. Idle(ux[u].at + 1) \in ThreadRecord /\ Idle(ux[u].at + 1).pc = "idle"
  BY IdleType, CallFacts DEF Idle
<1>8. /\ OthersKept(u) /\ ux'[u] = Idle(ux[u].at + 1) /\ ux'[u].pc = "idle" /\ own'[u] = {}
      /\ handle'[u][s] = NULL /\ \A t \in Slot \ {s} : handle'[u][t] = handle[u][t]
  BY <1>1, <1>3, <1>5, <1>7 DEF OthersKept
<1>9. /\ blk' \in [Block -> ClusterRecord] /\ blk'[b].mem = "freed"
      /\ \A c \in Block : c # b => blk'[c].mem = blk[c].mem /\ blk'[c].ref = blk[c].ref
  BY <1>1, <1>3, <1>5, <1>6
<1>10. Types'
  BY <1>1, <1>3, <1>5, <1>7, <1>9 DEF Types
<1>11. Handles(b) = {} /\ Makers(b) = {}
  BY <1>3, Counts DEF Sound, CountOK
<1>12. ASSUME NEW v \in User \ {u}, Refers(v, b) PROVE FALSE
  <2>1. TurnOK(v) /\ HeldOK(v)
    BY DEF Sound
  <2>2. ASSUME NEW t \in own[v] PROVE handle[v][t] # b
    <3>1. t \in Slot
      BY <1>1
    <3>2. <<v, t>> \in User \X Slot /\ <<v, t>>[1] = v /\ <<v, t>>[2] = t
      BY <3>1
    <3>3. <<v, t>> \notin Handles(b)
      BY <1>11
    <3> QED BY <3>2, <3>3 DEF Handles
  <2>3. ux[v].pc \in Making \cup {"release"} /\ ux[v].asc = b
    BY <1>3, <1>12, <2>2 DEF Refers
  <2>4. Busy(v) /\ ux[v].at % 2 \in {0, 1}
    BY <2>1, <2>3, CallFacts DEF TurnOK, Making
  <2>5. CASE ux[v].at % 2 = 1
    <3>1. Call(v).op = "get_or_create"
      BY <2>4, <2>5, CallFacts
    <3>2. v \in Makers(b)
      BY <2>3, <2>4, <3>1 DEF Makers, Creating, Making
    <3> QED BY <1>11, <3>2
  <2>6. CASE ux[v].at % 2 = 0
    <3>1. ux[v].pc = "release"
      BY <2>1, <2>3, <2>6 DEF TurnOK, Making, Ending
    <3>2. Ours(v) \in own[v] /\ handle[v][Ours(v)] = b
      BY <2>1, <2>3, <2>6, <3>1 DEF TurnOK
    <3> QED BY <2>2, <3>2
  <2> QED BY <2>4, <2>5, <2>6
<1>13. ASSUME NEW v \in User PROVE TurnOK(v)'
  <2>1. TurnOK(u)'
    BY <1>2, <1>3, <1>5, <1>8, ReturnTurn DEF s
  <2> QED BY <1>5, <1>8, <2>1, OthersTurn
<1>14. ASSUME NEW v \in User PROVE HeldOK(v)'
  <2>1. \A w \in User \ {u} : \A c \in Block : Refers(w, c) =>
          blk'[c].mem = "live" /\ (blk'[c].ref = blk[c].ref \/ blk[c].ref # 0)
    BY <1>9, <1>12, RefersLive DEF Live
  <2>2. HeldOK(u)'
    BY <1>8 DEF HeldOK, Making, Ending
  <2> QED BY <1>5, <1>8, <2>1, <2>2, OthersHeld DEF Ending
<1>15. ASSUME NEW c \in Block, Live(c)'
       PROVE  blk'[c].ref = Cardinality(Handles(c)') + Cardinality(Makers(c)')
  <2>1. c # b
    BY <1>9, <1>15 DEF Live
  <2>2. blk'[c].ref = blk[c].ref /\ blk[c].ref = Cardinality(Handles(c)) + Cardinality(Makers(c))
    BY <1>9, <1>15, <2>1 DEF Sound, CountOK, Live
  <2>3. u \notin Makers(c) /\ u \notin Makers(c)'
    BY <1>2, <1>8 DEF Makers, Creating
  <2>4. \A t \in Slot \ {s} : (t \in own'[u] <=> t \in own[u]) /\ handle'[u][t] = handle[u][t]
    BY <1>5, <1>8
  <2>5. /\ Cardinality(Handles(c)') = Cardinality(Handles(c))
        /\ Cardinality(Makers(c)') = Cardinality(Makers(c))
    BY <1>3, <1>5, <1>8, <2>3, <2>4, CountsMove
  <2> QED BY <2>2, <2>5
<1> QED BY <1>10, <1>13, <1>14, <1>15 DEF Sound, CountOK

\* Steps of the tender.
LEMMA TenderDoes ==
  ASSUME Sound, Tender
  PROVE  Sound'
<1> DEFINE b == tender.e
           c == [blk[b] EXCEPT !.tending = TRUE]
<1>1. blk \in [Block -> ClusterRecord]
  BY DEF Sound, Types
<1>2. ASSUME Undefined PROVE Sound'
  BY <1>2, UndefinedStep
<1>3. ASSUME UNCHANGED <<plan, blk, handle, own, ux>> PROVE Sound'
  BY <1>1, <1>3, QuietTender
<1>4. CASE TenderWakes
  <2>1. UNCHANGED <<plan, blk, handle, own, ux>>
    BY <1>4 DEF TenderWakes, ghosts
  <2> QED BY <1>3, <2>1
<1>5. CASE TenderNext \/ TenderPasses
  <2>1. Undefined \/ UNCHANGED <<plan, blk, handle, own, ux>>
    BY <1>5 DEF TenderNext, TenderPasses, ghosts
  <2> QED BY <1>2, <1>3, <2>1
<1>6. ASSUME blk' = [blk EXCEPT ![b] = c], UNCHANGED <<plan, handle, own, ux>> PROVE Sound'
  <2>1. CASE b \in Block
    <3>1. blk[b] \in ClusterRecord
      BY <1>1, <2>1
    <3>2. c \in ClusterRecord /\ c.mem = blk[b].mem /\ c.ref = blk[b].ref
      BY <3>1 DEF ClusterRecord
    <3> HIDE DEF b, c
    <3>3. /\ blk' \in [Block -> ClusterRecord]
          /\ \A d \in Block : blk'[d].mem = blk[d].mem /\ blk'[d].ref = blk[d].ref
      BY <1>6, <2>1, <3>2, FlagsChange
    <3> QED BY <1>6, <3>3, QuietTender
  <2>2. CASE b \notin Block
    <3> HIDE DEF b, c
    <3>1. blk' = blk
      BY <1>1, <1>6, <2>2
    <3> QED BY <1>3, <1>6, <3>1
  <2> QED BY <2>1, <2>2
<1>7. CASE TenderTends
  <2>1. \/ Undefined
        \/ UNCHANGED <<plan, blk, handle, own, ux>>
        \/ blk' = [blk EXCEPT ![b] = c] /\ UNCHANGED <<plan, handle, own, ux>>
    BY <1>7 DEF TenderTends, ghosts
  <2> HIDE DEF b, c
  <2> QED BY <1>2, <1>3, <1>6, <2>1
<1>8. CASE TenderTended
  <2>1. TendEnds(b, tender.look) /\ UNCHANGED <<plan, handle, own, ux>>
    BY <1>8 DEF TenderTended, ghosts
  <2> HIDE DEF b, c
  <2>2. CASE b \in Block
    <3>1. /\ blk' \in [Block -> ClusterRecord]
          /\ \A d \in Block : blk'[d].mem = blk[d].mem /\ blk'[d].ref = blk[d].ref
      BY <2>1, <2>2, TendEndsDoes
    <3> QED BY <2>1, <3>1, QuietTender
  <2>3. CASE b \notin Block
    <3>1. blk' = blk
      BY <1>1, <2>1, <2>3 DEF TendEnds
    <3> QED BY <1>3, <2>1, <3>1
  <2> QED BY <2>2, <2>3
<1> QED BY <1>4, <1>5, <1>7, <1>8 DEF Tender

-----------------------------------------------------------------------------
(* Handles are counted                                                     *)

\* A step of a thread.
LEMMA ThreadDoes ==
  ASSUME plan \in Plans, Counted, Sound, NEW u \in User, Thread(u), ~ revived'
  PROVE  Sound'
<1>1. CASE Get(u)
  BY <1>1, GetDoes
<1>2. CASE citrusleaf_cluster_create(u)
  BY <1>2, CreateDoes
<1>3. CASE CreateEnd(u)
  BY <1>3, CreateEndDoes
<1>4. CASE AddHost(u)
  BY <1>4, AddHostDoes
<1>5. CASE AddHostTend(u)
  BY <1>5, AddHostTendDoes
<1>6. CASE AddHostTended(u)
  BY <1>6, AddHostTendedDoes
<1>7. CASE AddHostReturns(u)
  BY <1>7, AddHostReturnsDoes
<1>8. CASE Close(u)
  BY <1>8, CloseDoes
<1>9. CASE Release(u)
  BY <1>9, ReleaseDoes
<1>10. CASE Unlink(u) \/ MarkFreed(u)
  BY <1>10, UnlinkMarkDo
<1>11. CASE Free(u)
  BY <1>11, FreeDoes
<1>12. CASE Shutdown(u)
  <2>1. Busy(u) /\ Call(u).op = "shutdown"
    BY <1>12 DEF Shutdown
  <2> QED BY <2>1, CallFacts
<1>13. CASE ShutdownJoin(u)
  <2>1. ux[u].pc = "join"
    BY <1>13 DEF ShutdownJoin, At
  <2> QED BY <2>1 DEF Sound, TurnOK
<1> QED BY <1>1, <1>2, <1>3, <1>4, <1>5, <1>6, <1>7, <1>8, <1>9, <1>10, <1>11, <1>12,
           <1>13 DEF Thread

\* At the start there is neither cluster nor handle.
LEMMA InitSound ==
  ASSUME Init
  PROVE  IInv
<1>1. plan \in Plans /\ ~ revived
  BY DEF Init
<1>2. ASSUME NEW u \in User
      PROVE ux[u] = Idle(1) /\ own[u] = {} /\ handle[u] = [s \in Slot |-> NULL]
  BY DEF Init
<1>3. Types
  <2>1. Idle(1) \in ThreadRecord
    BY IdleType
  <2>2. Blank \in ClusterRecord
    BY DEF Blank, ClusterRecord
  <2>3. blk = [b \in Block |-> Blank]
    BY DEF Init
  <2>4. blk \in [Block -> ClusterRecord]
    BY <2>2, <2>3
  <2>5. ux \in [User -> ThreadRecord]
    BY <2>1 DEF Init
  <2>6. handle \in [User -> [Slot -> Block \cup {NULL}]] /\ own \in [User -> SUBSET Slot]
    BY DEF Init
  <2> QED BY <2>4, <2>5, <2>6 DEF Types
<1>4. CountOK
  <2>1. \A b \in Block : ~ Live(b)
    BY DEF Init, Live, Blank
  <2> QED BY <2>1 DEF CountOK
<1>5. ASSUME NEW u \in User PROVE TurnOK(u) /\ HeldOK(u)
  <2>1. ux[u].pc = "idle" /\ ux[u].at = 1
    BY <1>2 DEF Idle
  <2>2. plan[u] \in Seq([op : {"get_or_create", "cluster_get", "release", "shutdown"},
                        slot : Slot, host : Host])
    BY <1>1, PlansAssumption, Zenon
  <2>3. Len(plan[u]) \in Nat
    BY <2>2
  <2>4. 1 \in 1 .. (Len(plan[u]) + 1) /\ 1 % 2 = 1
    BY <2>3
  <2> QED BY <1>2, <2>1, <2>4 DEF TurnOK, HeldOK, Making, Ending
<1> QED BY <1>1, <1>3, <1>4, <1>5 DEF IInv, Sound

\* No step does away with the plan, nor makes good that get_or_create found a
\* cluster without references.
LEMMA GhostsDo ==
  ASSUME Next
  PROVE  plan' = plan /\ (revived => revived')
<1>1. ASSUME NEW u \in User, Thread(u) PROVE plan' = plan /\ (revived => revived')
  <2>1. CASE Get(u)
    BY <2>1 DEF Get, GetHit, Undefined, ghosts
  <2>2. CASE citrusleaf_cluster_create(u) \/ CreateEnd(u) \/ Shutdown(u) \/ ShutdownJoin(u)
    BY <2>2 DEF citrusleaf_cluster_create, CreateEnd, Shutdown, ShutdownJoin, Undefined, ghosts
  <2>3. CASE AddHost(u) \/ AddHostTend(u) \/ AddHostTended(u) \/ AddHostReturns(u)
    BY <2>3 DEF AddHost, AddHostTend, AddHostTended, AddHostReturns, Undefined, ghosts
  <2>4. CASE Close(u) \/ Release(u)
    BY <2>4 DEF Close, Release, Undefined, ghosts
  <2>5. CASE Unlink(u) \/ MarkFreed(u) \/ Free(u)
    BY <2>5 DEF Unlink, MarkFreed, Free, Undefined, ghosts
  <2> QED BY <1>1, <2>1, <2>2, <2>3, <2>4, <2>5 DEF Thread
<1>2. ASSUME Tender PROVE plan' = plan /\ (revived => revived')
  BY <1>2 DEF Tender, TenderWakes, TenderTends, TenderPasses, TenderTended, TenderNext, Undefined, ghosts
<1> QED BY <1>1, <1>2 DEF Next

\* Every step keeps the invariant.
LEMMA NextSound ==
  ASSUME IInv, [Next]_vars
  PROVE  IInv'
<1>1. CASE Next
  <2>1. plan' = plan /\ (revived => revived')
    BY <1>1, GhostsDo
  <2>2. ASSUME Counted', ~ revived' PROVE Sound'
    <3>1. Counted
      BY <2>1, <2>2 DEF Counted
    <3>2. plan \in Plans /\ Sound
      BY <2>1, <2>2, <3>1 DEF IInv
    <3>3. ASSUME NEW u \in User, Thread(u) PROVE Sound'
      BY <2>2, <3>1, <3>2, <3>3, ThreadDoes
    <3>4. ASSUME Tender PROVE Sound'
      BY <3>2, <3>4, TenderDoes
    <3> QED BY <1>1, <3>3, <3>4 DEF Next
  <2> QED BY <2>1, <2>2 DEF IInv
<1>2. CASE UNCHANGED vars
  <2>1. UNCHANGED <<plan, handle, own, ux, blk, revived>>
    BY <1>2 DEF vars
  <2>2. Sound => Sound'
    <3>1. ASSUME Sound PROVE blk' \in [Block -> ClusterRecord]
      BY <2>1, <3>1 DEF Sound, Types
    <3> QED BY <2>1, <3>1, QuietTender
  <2>3. Counted' <=> Counted
    BY <2>1 DEF Counted
  <2> QED BY <2>1, <2>2, <2>3 DEF IInv
<1> QED BY <1>1, <1>2

\* The invariant holds of citrusleaf_cluster_get_or_create and its release whatever
\* the number of threads, clusters and hosts.
THEOREM Invariance == Spec => []IInv
<1>1. Init => IInv
  BY InitSound
<1>2. IInv /\ [Next]_vars => IInv'
  BY NextSound
<1> QED BY <1>1, <1>2, PTL DEF Spec

\* A cluster's count, which get_or_create raises and release_or_destroy lowers, is the
\* number of handles on it, and no handle is on a cluster that was freed, unless
\* get_or_create found one whose last release was under way.
THEOREM HandlesCountedHolds == Spec => []HandlesCounted
<1>1. IInv => HandlesCounted
  <2>1. ASSUME IInv, Counted, ~ revived PROVE CountOK /\ \A u \in User : HeldOK(u)
    BY <2>1 DEF IInv, Sound
  <2>2. IInv => RefExact
    BY <2>1 DEF RefExact, CountOK, Handles, Makers
  <2>3. IInv => HandleLive
    BY <2>1 DEF HandleLive, HeldOK
  <2> QED BY <2>2, <2>3 DEF HandlesCounted
<1> QED BY <1>1, Invariance, PTL

-----------------------------------------------------------------------------
(* The calls of cf_ll.c                                                    *)

\* The record of a list and its links, whatever was done to it.
ListRecord == [head : Block \cup {NULL}, tail : Block \cup {NULL}, sz : Nat,
               next : [Block -> Block \cup {NULL}], prev : [Block -> Block \cup {NULL}]]

\* The list L links the elements of s, in this order.
Linked(L, s) ==
    /\ L.sz = Len(s) /\ \A j, k \in 1 .. Len(s) : s[j] = s[k] => j = k
    /\ L.head = (IF Len(s) = 0 THEN NULL ELSE s[1])
    /\ L.tail = (IF Len(s) = 0 THEN NULL ELSE s[Len(s)])
    /\ \A k \in 1 .. Len(s) :
        /\ L.next[s[k]] = (IF k = Len(s) THEN NULL ELSE s[k + 1])
        /\ L.prev[s[k]] = (IF k = 1 THEN NULL ELSE s[k - 1])

\* What is in a sequence, by its positions.
LEMMA InSeq ==
  ASSUME NEW S, NEW s \in Seq(S)
  PROVE  /\ \A x : x \in ToSet(s) <=> \E k \in 1 .. Len(s) : s[k] = x
         /\ \A k \in 1 .. Len(s) : s[k] \in S
         /\ Len(s) \in Nat /\ DOMAIN s = 1 .. Len(s)
  BY DEF ToSet

\* A set of natural numbers that is not empty has a least element.
LEMMA Least ==
  ASSUME NEW S, S \subseteq Nat, S # {}
  PROVE  \E x \in S : \A y \in S : x <= y
<1> DEFINE R == {ss \in Nat \X Nat : ss[1] < ss[2]}
<1>1. IsWellFoundedOn(R, Nat)
  BY NatLessThanWellFounded DEF OpToRel
<1>2. PICK x \in S : \A y \in S : ~ (<<y, x>> \in R)
  <2> HIDE DEF R
  <2> QED BY <1>1, WFMin
<1>3. ASSUME NEW y \in S PROVE x <= y
  <2>1. x \in Nat /\ y \in Nat /\ <<y, x>> \notin R
    BY <1>2
  <2>2. ~ (y < x)
    BY <2>1
  <2> QED BY <2>1, <2>2
<1> QED BY <1>3

\* The fields of a list record.
LEMMA ListFields ==
  ASSUME NEW L \in ListRecord
  PROVE  /\ L.head \in Block \cup {NULL} /\ L.tail \in Block \cup {NULL} /\ L.sz \in Nat
         /\ L.next \in [Block -> Block \cup {NULL}] /\ L.prev \in [Block -> Block \cup {NULL}]
         /\ L = [head |-> L.head, tail |-> L.tail, sz |-> L.sz, next |-> L.next,
                 prev |-> L.prev]
  BY DEF ListRecord

\* A function with one value replaced.
LEMMA LinkTo ==
  ASSUME NEW f \in [Block -> Block \cup {NULL}], NEW c, NEW d \in Block \cup {NULL}
  PROVE  /\ [f EXCEPT ![c] = d] \in [Block -> Block \cup {NULL}]
         /\ c \in Block => [f EXCEPT ![c] = d][c] = d
         /\ \A e \in Block \ {c} : [f EXCEPT ![c] = d][e] = f[e]
  OBVIOUS

\* The calls of cf_ll.c keep the record a record.
LEMMA AppendType ==
  ASSUME NEW L \in ListRecord, NEW b \in Block
  PROVE  LL!cf_ll_append(L, b) \in ListRecord
<1> DEFINE M == LL!cf_ll_append(L, b)
<1>0. L.sz + 1 \in Nat
  BY ListFields
<1>1. CASE L.head = NULL
  <2> DEFINE f == [L.next EXCEPT ![b] = NULL]
             h == [L.prev EXCEPT ![b] = NULL]
  <2>1. M = [L EXCEPT !.head = b, !.tail = b, !.next = f, !.prev = h, !.sz = L.sz + 1]
    BY <1>1 DEF LL!cf_ll_append, LL!Alone
  <2>2. f \in [Block -> Block \cup {NULL}] /\ h \in [Block -> Block \cup {NULL}]
    BY ListFields, LinkTo
  <2> HIDE DEF f, h, M
  <2>3. M \in ListRecord
    BY <1>0, <2>1, <2>2 DEF ListRecord
  <2> QED BY <2>3 DEF M
<1>2. CASE L.head # NULL
  <2> DEFINE f == [L.next EXCEPT ![b] = NULL]
             g == [f EXCEPT ![L.tail] = b]
             h == [L.prev EXCEPT ![b] = L.tail]
  <2>1. M = [L EXCEPT !.next = g, !.prev = h, !.tail = b, !.sz = L.sz + 1]
    BY <1>2 DEF LL!cf_ll_append
  <2>2. f \in [Block -> Block \cup {NULL}] /\ h \in [Block -> Block \cup {NULL}]
    BY ListFields, LinkTo
  <2> HIDE DEF f
  <2>3. g \in [Block -> Block \cup {NULL}]
    BY <2>2, LinkTo
  <2> HIDE DEF g, h, M
  <2>4. M \in ListRecord
    BY <1>0, <2>1, <2>2, <2>3 DEF ListRecord
  <2> QED BY <2>4 DEF M
<1> QED BY <1>1, <1>2

\* The fields of a list after an append.
LEMMA AppendFields ==
  ASSUME NEW L \in ListRecord, NEW b \in Block
  PROVE  LET M == LL!cf_ll_append(L, b)
         IN /\ M.sz = L.sz + 1 /\ M.tail = b
            /\ M.head = (IF L.head = NULL THEN b ELSE L.head)
            /\ L.head = NULL => M.next[b] = NULL /\ M.prev[b] = NULL
            /\ L.head # NULL /\ L.tail \in Block \ {b} =>
                  /\ M.next[b] = NULL /\ M.prev[b] = L.tail /\ M.next[L.tail] = b
                  /\ \A c \in Block \ {b, L.tail} : M.next[c] = L.next[c]
                  /\ \A c \in Block \ {b} : M.prev[c] = L.prev[c]
<1> DEFINE M == LL!cf_ll_append(L, b)
<1>0. L.next \in [Block -> Block \cup {NULL}] /\ L.prev \in [Block -> Block \cup {NULL}]
      /\ L = [head |-> L.head, tail |-> L.tail, sz |-> L.sz, next |-> L.next, prev |-> L.prev]
  BY DEF ListRecord
<1>1. CASE L.head = NULL
  <2>1. M = [L EXCEPT !.head = b, !.tail = b, !.next = [L.next EXCEPT ![b] = NULL],
                      !.prev = [L.prev EXCEPT ![b] = NULL], !.sz = L.sz + 1]
    BY <1>1 DEF LL!cf_ll_append, LL!Alone
  <2> HIDE DEF M
  <2>2. /\ M.sz = L.sz + 1 /\ M.tail = b /\ M.head = b
        /\ M.next = [L.next EXCEPT ![b] = NULL] /\ M.prev = [L.prev EXCEPT ![b] = NULL]
    BY <2>1, <1>0
  <2>3. M.next[b] = NULL /\ M.prev[b] = NULL
    BY <2>2, <1>0
  <2> QED BY <1>1, <2>2, <2>3 DEF M
<1>2. CASE L.head # NULL
  <2>1. M = [L EXCEPT !.next = [[L.next EXCEPT ![b] = NULL] EXCEPT ![L.tail] = b],
                      !.prev = [L.prev EXCEPT ![b] = L.tail],
                      !.tail = b, !.sz = L.sz + 1]
    BY <1>2 DEF LL!cf_ll_append
  <2> HIDE DEF M
  <2>2. /\ M.sz = L.sz + 1 /\ M.tail = b /\ M.head = L.head
        /\ M.next = [[L.next EXCEPT ![b] = NULL] EXCEPT ![L.tail] = b]
        /\ M.prev = [L.prev EXCEPT ![b] = L.tail]
    BY <2>1, <1>0
  <2>3. ASSUME L.tail \in Block \ {b}
        PROVE  /\ M.next[b] = NULL /\ M.prev[b] = L.tail /\ M.next[L.tail] = b
               /\ \A c \in Block \ {b, L.tail} : M.next[c] = L.next[c]
               /\ \A c \in Block \ {b} : M.prev[c] = L.prev[c]
    BY <2>2, <2>3, <1>0
  <2> QED BY <1>2, <2>2, <2>3 DEF M
<1> QED BY <1>1, <1>2

\* cf_ll_append puts the element behind the others.
LEMMA AppendLinked ==
  ASSUME NEW L \in ListRecord, NEW s \in Seq(Block), Linked(L, s),
         NEW b \in Block, b \notin ToSet(s)
  PROVE  /\ Linked(LL!cf_ll_append(L, b), Append(s, b))
         /\ ToSet(Append(s, b)) = ToSet(s) \cup {b}
<1> DEFINE M == LL!cf_ll_append(L, b)
           t == Append(s, b)
           n == Len(s)
<1>1. /\ n \in Nat /\ Len(t) = n + 1 /\ t[n + 1] = b /\ t \in Seq(Block)
      /\ \A k \in 1 .. n : t[k] = s[k] /\ s[k] \in Block /\ s[k] # b
      /\ NULL \notin Block
  BY InSeq, BlockAssumption
<1>2. ToSet(t) = ToSet(s) \cup {b}
  <2> HIDE DEF t
  <2>1. \A x : x \in ToSet(t) <=> \E k \in 1 .. Len(t) : t[k] = x
    BY <1>1, InSeq
  <2>2. \A x : x \in ToSet(s) <=> \E k \in 1 .. n : s[k] = x
    BY InSeq
  <2> HIDE DEF n
  <2>3. \A x : (\E k \in 1 .. Len(t) : t[k] = x) <=> ((\E k \in 1 .. n : s[k] = x) \/ x = b)
    BY <1>1
  <2> QED BY <2>1, <2>2, <2>3
<1>3. /\ L.sz = n /\ \A j, k \in 1 .. n : s[j] = s[k] => j = k
      /\ L.head = (IF n = 0 THEN NULL ELSE s[1])
      /\ L.tail = (IF n = 0 THEN NULL ELSE s[n])
      /\ \A k \in 1 .. n : /\ L.next[s[k]] = (IF k = n THEN NULL ELSE s[k + 1])
                           /\ L.prev[s[k]] = (IF k = 1 THEN NULL ELSE s[k - 1])
  BY DEF Linked
<1>4. /\ M.sz = L.sz + 1 /\ M.tail = b
      /\ M.head = (IF L.head = NULL THEN b ELSE L.head)
      /\ L.head = NULL => M.next[b] = NULL /\ M.prev[b] = NULL
      /\ L.head # NULL /\ L.tail \in Block \ {b} =>
            /\ M.next[b] = NULL /\ M.prev[b] = L.tail /\ M.next[L.tail] = b
            /\ \A c \in Block \ {b, L.tail} : M.next[c] = L.next[c]
            /\ \A c \in Block \ {b} : M.prev[c] = L.prev[c]
  BY AppendFields
<1> HIDE DEF M, t, n
<1>5. /\ M.sz = Len(t) /\ M.tail = t[Len(t)] /\ M.head = t[1]
      /\ \A j, k \in 1 .. Len(t) : t[j] = t[k] => j = k
  <2>1. M.sz = Len(t) /\ M.tail = t[Len(t)]
    BY <1>1, <1>3, <1>4
  <2>2. M.head = t[1]
    BY <1>1, <1>3, <1>4
  <2>3. ASSUME NEW j \in 1 .. n + 1, NEW k \in 1 .. n + 1, t[j] = t[k] PROVE j = k
    <3>1. CASE j = n + 1
      BY <1>1, <2>3, <3>1
    <3>2. CASE k = n + 1
      BY <1>1, <2>3, <3>2
    <3>3. CASE j # n + 1 /\ k # n + 1
      <4>1. j \in 1 .. n /\ k \in 1 .. n
        BY <1>1, <3>3
      <4>2. s[j] = s[k]
        BY <1>1, <2>3, <4>1
      <4> QED BY <1>3, <4>1, <4>2
    <3> QED BY <3>1, <3>2, <3>3
  <2> QED BY <1>1, <2>1, <2>2, <2>3
<1>6. ASSUME NEW k \in 1 .. n + 1
      PROVE  /\ M.next[t[k]] = (IF k = n + 1 THEN NULL ELSE t[k + 1])
             /\ M.prev[t[k]] = (IF k = 1 THEN NULL ELSE t[k - 1])
  <2>1. CASE n = 0
    <3>1. k = 1 /\ t[k] = b /\ L.head = NULL
      BY <1>1, <1>3, <2>1
    <3> QED BY <2>1, <3>1, <1>4
  <2>2. CASE n > 0
    <3>0. 1 \in 1 .. n /\ n \in 1 .. n
      BY <1>1, <2>2
    <3>1. L.head # NULL /\ L.tail = s[n] /\ L.tail \in Block \ {b}
      BY <1>1, <1>3, <2>2, <3>0
    <3>2. CASE k = n + 1
      <4>1. t[k] = b /\ k # 1 /\ t[k - 1] = s[n]
        BY <1>1, <3>0, <3>2
      <4> QED BY <1>4, <3>1, <3>2, <4>1
    <3>3. CASE k = n
      <4>1. t[k] = L.tail /\ t[k + 1] = b /\ k # n + 1
        BY <1>1, <3>0, <3>1, <3>3
      <4>2. M.next[t[k]] = b
        BY <1>4, <3>1, <4>1
      <4>3. M.prev[t[k]] = L.prev[s[k]]
        BY <1>1, <1>4, <3>0, <3>1, <3>3, <4>1
      <4>4. k # 1 => k - 1 \in 1 .. n /\ t[k - 1] = s[k - 1]
        BY <1>1, <3>3
      <4> QED BY <1>3, <3>0, <3>3, <4>1, <4>2, <4>3, <4>4
    <3>4. CASE k \in 1 .. (n - 1)
      <4>1. k \in 1 .. n /\ k + 1 \in 1 .. n /\ k # n + 1 /\ k # n
        BY <1>1, <3>4
      <4>2. t[k] = s[k] /\ t[k + 1] = s[k + 1] /\ s[k] \in Block \ {b}
        BY <1>1, <4>1
      <4>3. s[k] # L.tail
        BY <1>3, <3>0, <3>1, <4>1
      <4>4. M.next[t[k]] = L.next[s[k]] /\ M.prev[t[k]] = L.prev[s[k]]
        BY <1>4, <3>1, <4>2, <4>3
      <4>5. k # 1 => t[k - 1] = s[k - 1]
        BY <1>1, <3>4
      <4> QED BY <1>3, <4>1, <4>2, <4>4, <4>5
    <3> QED BY <1>1, <3>2, <3>3, <3>4
  <2> QED BY <1>1, <2>1, <2>2
<1>7. Linked(M, t)
  BY <1>1, <1>5, <1>6 DEF Linked
<1> QED BY <1>2, <1>7 DEF M, t

\* The fields of a list after a deletion that does not fault.
LEMMA DeleteFields ==
  ASSUME NEW L \in ListRecord, NEW b \in Block
  PROVE  LET M == LL!cf_ll_delete(L, b)
         IN /\ M \in ListRecord
            /\ L.sz = 0 => M = L
            /\ L.sz = 1 => M.head = NULL /\ M.tail = NULL /\ M.sz = 0
            /\ L.sz > 1 /\ b = L.head =>
                  /\ M.head = L.next[b] /\ M.tail = L.tail /\ M.sz = L.sz - 1
                  /\ M.next = L.next /\ M.prev = [L.prev EXCEPT ![L.next[b]] = NULL]
            /\ L.sz > 1 /\ b # L.head /\ b = L.tail =>
                  /\ M.head = L.head /\ M.tail = L.prev[b] /\ M.sz = L.sz - 1
                  /\ M.next = [L.next EXCEPT ![L.prev[b]] = NULL] /\ M.prev = L.prev
            /\ L.sz > 1 /\ b # L.head /\ b # L.tail =>
                  /\ M.head = L.head /\ M.tail = L.tail /\ M.sz = L.sz - 1
                  /\ M.next = [L.next EXCEPT ![L.prev[b]] = L.next[b]]
                  /\ M.prev = [L.prev EXCEPT ![L.next[b]] = L.prev[b]]
<1> DEFINE M == LL!cf_ll_delete(L, b)
           P == L.prev[b]
           N == L.next[b]
<1>0. /\ L.sz \in Nat /\ P \in Block \cup {NULL} /\ N \in Block \cup {NULL}
      /\ L.next \in [Block -> Block \cup {NULL}] /\ L.prev \in [Block -> Block \cup {NULL}]
  BY ListFields
<1>1. CASE L.sz = 0
  BY <1>1 DEF LL!cf_ll_delete
<1>2. CASE L.sz = 1
  <2>1. M = [L EXCEPT !.head = NULL, !.tail = NULL, !.sz = 0]
    BY <1>2 DEF LL!cf_ll_delete
  <2> HIDE DEF M
  <2>2. M \in ListRecord /\ M.head = NULL /\ M.tail = NULL /\ M.sz = 0
    BY <2>1 DEF ListRecord
  <2> QED BY <1>2, <2>2 DEF M
<1>3. CASE L.sz > 1
  <2>0. L.sz - 1 \in Nat /\ L.sz # 0 /\ L.sz # 1
    BY <1>0, <1>3
  <2>1. CASE b = L.head
    <3> DEFINE g == [L.prev EXCEPT ![N] = NULL]
    <3>1. M = [L EXCEPT !.head = N, !.prev = g, !.sz = L.sz - 1]
      BY <2>0, <2>1 DEF LL!cf_ll_delete
    <3>2. g \in [Block -> Block \cup {NULL}]
      BY <1>0, LinkTo
    <3> HIDE DEF g, M, N
    <3>3. /\ M \in ListRecord /\ M.head = N /\ M.tail = L.tail /\ M.sz = L.sz - 1
          /\ M.next = L.next /\ M.prev = g
      BY <1>0, <2>0, <3>1, <3>2 DEF ListRecord
    <3> QED BY <2>0, <2>1, <3>3 DEF M, N, g
  <2>2. CASE b # L.head /\ b = L.tail
    <3> DEFINE f == [L.next EXCEPT ![P] = NULL]
    <3>1. M = [L EXCEPT !.tail = P, !.next = f, !.sz = L.sz - 1]
      BY <2>0, <2>2 DEF LL!cf_ll_delete
    <3>2. f \in [Block -> Block \cup {NULL}]
      BY <1>0, LinkTo
    <3> HIDE DEF f, M, P
    <3>3. /\ M \in ListRecord /\ M.head = L.head /\ M.tail = P /\ M.sz = L.sz - 1
          /\ M.next = f /\ M.prev = L.prev
      BY <1>0, <2>0, <3>1, <3>2 DEF ListRecord
    <3> QED BY <2>0, <2>2, <3>3 DEF M, P, f
  <2>3. CASE b # L.head /\ b # L.tail
    <3> DEFINE f == [L.next EXCEPT ![P] = N]
               g == [L.prev EXCEPT ![N] = P]
    <3>1. M = [L EXCEPT !.next = f, !.prev = g, !.sz = L.sz - 1]
      BY <2>0, <2>3 DEF LL!cf_ll_delete
    <3>2. f \in [Block -> Block \cup {NULL}] /\ g \in [Block -> Block \cup {NULL}]
      BY <1>0, LinkTo
    <3> HIDE DEF f, g, M, P, N
    <3>3. /\ M \in ListRecord /\ M.head = L.head /\ M.tail = L.tail /\ M.sz = L.sz - 1
          /\ M.next = f /\ M.prev = g
      BY <1>0, <2>0, <3>1, <3>2 DEF ListRecord
    <3> QED BY <2>0, <2>3, <3>3 DEF M, P, N, f, g
  <2> QED BY <2>1, <2>2, <2>3
<1> QED BY <1>0, <1>1, <1>2, <1>3

\* cf_ll_delete takes out an element of the list and links its neighbours.
LEMMA DeleteLinked ==
  ASSUME NEW L \in ListRecord, NEW s \in Seq(Block), Linked(L, s),
         NEW b \in Block, b \in ToSet(s)
  PROVE  \E t \in Seq(Block) : /\ Linked(LL!cf_ll_delete(L, b), t)
                               /\ ToSet(t) = ToSet(s) \ {b}
<1> DEFINE M == LL!cf_ll_delete(L, b)
           n == Len(s)
<1>1. PICK i \in 1 .. n : s[i] = b
  BY InSeq
<1> DEFINE t == [k \in 1 .. (n - 1) |-> IF k < i THEN s[k] ELSE s[k + 1]]
<1>2. /\ n \in Nat /\ n >= 1 /\ i \in Nat /\ NULL \notin Block /\ n - 1 \in Nat
      /\ \A k \in 1 .. n : s[k] \in Block
  BY <1>1, InSeq, BlockAssumption
<1>3. /\ t \in Seq(Block) /\ Len(t) = n - 1
      /\ \A k \in 1 .. (n - 1) : t[k] = (IF k < i THEN s[k] ELSE s[k + 1])
  <2>1. ASSUME NEW k \in 1 .. (n - 1) PROVE k \in 1 .. n /\ k + 1 \in 1 .. n
    BY <1>2
  <2> HIDE DEF n
  <2>2. t \in [1 .. (n - 1) -> Block]
    BY <1>2, <2>1
  <2> QED BY <1>2, <2>2
<1>4. /\ L.sz = n /\ \A j, k \in 1 .. n : s[j] = s[k] => j = k
      /\ L.head = s[1] /\ L.tail = s[n]
      /\ \A k \in 1 .. n : /\ L.next[s[k]] = (IF k = n THEN NULL ELSE s[k + 1])
                           /\ L.prev[s[k]] = (IF k = 1 THEN NULL ELSE s[k - 1])
  BY <1>2 DEF Linked
<1>5. ToSet(t) = ToSet(s) \ {b}
  <2>1. /\ \A x : x \in ToSet(t) <=> \E k \in 1 .. (n - 1) : t[k] = x
        /\ \A x : x \in ToSet(s) <=> \E k \in 1 .. n : s[k] = x
    BY <1>3, InSeq
  <2> HIDE DEF t, n
  <2>2. ASSUME NEW k \in 1 .. (n - 1) PROVE \E j \in 1 .. n : s[j] = t[k] /\ t[k] # b
    <3>1. k \in 1 .. n /\ k + 1 \in 1 .. n
      BY <1>2
    <3>2. CASE k < i
      <4>1. t[k] = s[k] /\ k # i
        BY <1>2, <1>3, <3>2
      <4> QED BY <1>1, <1>4, <3>1, <4>1
    <3>3. CASE ~ (k < i)
      <4>1. t[k] = s[k + 1] /\ k + 1 # i
        BY <1>2, <1>3, <3>3
      <4> QED BY <1>1, <1>4, <3>1, <4>1
    <3> QED BY <3>2, <3>3
  <2>3. ASSUME NEW j \in 1 .. n, s[j] # b PROVE \E k \in 1 .. (n - 1) : t[k] = s[j]
    <3>1. CASE j < i
      <4>1. j \in 1 .. (n - 1)
        BY <1>2, <3>1, <1>1
      <4> QED BY <1>3, <3>1, <4>1
    <3>2. CASE j > i
      <4>1. j - 1 \in 1 .. (n - 1) /\ ~ (j - 1 < i) /\ (j - 1) + 1 = j
        BY <1>1, <1>2, <3>2
      <4> QED BY <1>3, <4>1
    <3> QED BY <1>1, <1>2, <2>3, <3>1, <3>2
  <2> QED BY <2>1, <2>2, <2>3
<1>6. \A j, k \in 1 .. (n - 1) : t[j] = t[k] => j = k
  <2> HIDE DEF t, n
  <2>1. SUFFICES ASSUME NEW j \in 1 .. (n - 1), NEW k \in 1 .. (n - 1), t[j] = t[k]
                 PROVE  j = k
    OBVIOUS
  <2>2. /\ j \in 1 .. n /\ j + 1 \in 1 .. n /\ k \in 1 .. n /\ k + 1 \in 1 .. n
        /\ j \in Nat /\ k \in Nat
    BY <1>2
  <2>3. CASE j < i /\ k < i
    <3>1. s[j] = s[k]
      BY <1>3, <2>1, <2>3
    <3> QED BY <1>4, <2>2, <3>1
  <2>4. CASE ~ (j < i) /\ ~ (k < i)
    <3>1. s[j + 1] = s[k + 1]
      BY <1>3, <2>1, <2>4
    <3>2. j + 1 = k + 1
      BY <1>4, <2>2, <3>1
    <3> QED BY <2>2, <3>2
  <2>5. CASE j < i /\ ~ (k < i)
    <3>1. s[j] = s[k + 1]
      BY <1>3, <2>1, <2>5
    <3>2. j = k + 1
      BY <1>4, <2>2, <3>1
    <3> QED BY <1>2, <2>2, <2>5, <3>2
  <2>6. CASE ~ (j < i) /\ k < i
    <3>1. s[j + 1] = s[k]
      BY <1>3, <2>1, <2>6
    <3>2. j + 1 = k
      BY <1>4, <2>2, <3>1
    <3> QED BY <1>2, <2>2, <2>6, <3>2
  <2> QED BY <2>3, <2>4, <2>5, <2>6
<1>7. /\ L.sz = 1 => M.head = NULL /\ M.tail = NULL /\ M.sz = 0
      /\ L.sz > 1 /\ b = L.head =>
            /\ M.head = L.next[b] /\ M.tail = L.tail /\ M.sz = L.sz - 1
            /\ M.next = L.next /\ M.prev = [L.prev EXCEPT ![L.next[b]] = NULL]
      /\ L.sz > 1 /\ b # L.head /\ b = L.tail =>
            /\ M.head = L.head /\ M.tail = L.prev[b] /\ M.sz = L.sz - 1
            /\ M.next = [L.next EXCEPT ![L.prev[b]] = NULL] /\ M.prev = L.prev
      /\ L.sz > 1 /\ b # L.head /\ b # L.tail =>
            /\ M.head = L.head /\ M.tail = L.tail /\ M.sz = L.sz - 1
            /\ M.next = [L.next EXCEPT ![L.prev[b]] = L.next[b]]
            /\ M.prev = [L.prev EXCEPT ![L.next[b]] = L.prev[b]]
  BY DeleteFields
<1>8. /\ L.next \in [Block -> Block \cup {NULL}] /\ L.prev \in [Block -> Block \cup {NULL}]
  BY ListFields
<1> SUFFICES Linked(M, t)
  BY <1>3, <1>5
<1> HIDE DEF M, t, n
<1>9. SUFFICES /\ M.sz = n - 1 /\ M.head = (IF n - 1 = 0 THEN NULL ELSE t[1])
               /\ M.tail = (IF n - 1 = 0 THEN NULL ELSE t[n - 1])
               /\ \A k \in 1 .. (n - 1) :
                    /\ M.next[t[k]] = (IF k = n - 1 THEN NULL ELSE t[k + 1])
                    /\ M.prev[t[k]] = (IF k = 1 THEN NULL ELSE t[k - 1])
  BY <1>3, <1>6 DEF Linked
<1>10. CASE n = 1
  BY <1>2, <1>4, <1>7, <1>10
<1>11. CASE n > 1 /\ i = 1
  <2>1. b = L.head /\ L.sz > 1 /\ 1 \in 1 .. n /\ 2 \in 1 .. n /\ n \in 1 .. n
    BY <1>1, <1>2, <1>4, <1>11
  <2>2. L.next[b] = s[2] /\ \A k \in 1 .. (n - 1) : t[k] = s[k + 1]
    BY <1>1, <1>2, <1>3, <1>4, <1>11, <2>1
  <2>3. /\ M.sz = n - 1 /\ M.head = s[2] /\ M.tail = s[n] /\ M.next = L.next
        /\ M.prev = [L.prev EXCEPT ![s[2]] = NULL]
    BY <1>4, <1>7, <2>1, <2>2
  <2>4. n - 1 # 0 /\ t[1] = s[2] /\ t[n - 1] = s[n]
    BY <1>2, <1>11, <2>2
  <2>5. ASSUME NEW k \in 1 .. (n - 1)
        PROVE  /\ M.next[t[k]] = (IF k = n - 1 THEN NULL ELSE t[k + 1])
               /\ M.prev[t[k]] = (IF k = 1 THEN NULL ELSE t[k - 1])
    <3>1. k + 1 \in 1 .. n /\ t[k] = s[k + 1] /\ s[k + 1] \in Block /\ k \in Nat /\ k >= 1
      BY <1>2, <2>2
    <3>2. M.next[t[k]] = (IF k + 1 = n THEN NULL ELSE s[(k + 1) + 1])
      BY <1>4, <2>3, <3>1
    <3>3. k # n - 1 => t[k + 1] = s[(k + 1) + 1]
      <4>1. k # n - 1 => k + 1 \in 1 .. (n - 1)
        BY <1>2
      <4> QED BY <2>2, <4>1
    <3>4. CASE k = 1
      BY <1>2, <1>8, <2>1, <2>3, <3>1, <3>2, <3>3, <3>4
    <3>5. CASE k # 1
      <4>1. s[k + 1] # s[2]
        BY <1>4, <2>1, <3>1, <3>5
      <4>2. M.prev[t[k]] = L.prev[s[k + 1]]
        BY <1>8, <2>3, <3>1, <4>1
      <4>3. L.prev[s[k + 1]] = s[(k + 1) - 1]
        BY <1>4, <3>1
      <4>4. k - 1 \in 1 .. (n - 1) /\ (k + 1) - 1 = k /\ (k - 1) + 1 = k
        BY <1>2, <3>1, <3>5
      <4>5. t[k - 1] = s[k]
        BY <2>2, <4>4
      <4> QED BY <1>2, <3>1, <3>2, <3>3, <3>5, <4>2, <4>3, <4>4, <4>5
    <3> QED BY <3>4, <3>5
  <2> QED BY <2>3, <2>4, <2>5
<1>12. CASE n > 1 /\ i = n
  <2>1. b # L.head /\ b = L.tail /\ L.sz > 1 /\ n \in 1 .. n /\ n - 1 \in 1 .. n
    <3>1. 1 \in 1 .. n /\ n \in 1 .. n /\ 1 # n /\ n - 1 \in 1 .. n
      BY <1>2, <1>12
    <3> QED BY <1>1, <1>4, <1>12, <3>1
  <2>2. L.prev[b] = s[n - 1] /\ \A k \in 1 .. (n - 1) : t[k] = s[k]
    <3>1. n # 1 /\ \A k \in 1 .. (n - 1) : k < i
      BY <1>2, <1>12
    <3> QED BY <1>1, <1>3, <1>4, <1>12, <2>1, <3>1
  <2>3. /\ M.sz = n - 1 /\ M.head = s[1] /\ M.tail = s[n - 1] /\ M.prev = L.prev
        /\ M.next = [L.next EXCEPT ![s[n - 1]] = NULL]
    BY <1>4, <1>7, <2>1, <2>2
  <2>4. n - 1 # 0 /\ t[1] = s[1] /\ t[n - 1] = s[n - 1]
    BY <1>2, <1>12, <2>2
  <2>5. ASSUME NEW k \in 1 .. (n - 1)
        PROVE  /\ M.next[t[k]] = (IF k = n - 1 THEN NULL ELSE t[k + 1])
               /\ M.prev[t[k]] = (IF k = 1 THEN NULL ELSE t[k - 1])
    <3>1. k \in 1 .. n /\ k # n /\ t[k] = s[k] /\ s[k] \in Block /\ k \in Nat /\ k >= 1
      BY <1>2, <2>2
    <3>2. M.prev[t[k]] = (IF k = 1 THEN NULL ELSE s[k - 1])
      BY <1>4, <2>3, <3>1
    <3>3. k # 1 => t[k - 1] = s[k - 1]
      <4>1. k # 1 => k - 1 \in 1 .. (n - 1)
        BY <1>2, <3>1
      <4> QED BY <2>2, <4>1
    <3>4. CASE k = n - 1
      BY <1>8, <2>3, <3>1, <3>2, <3>3, <3>4
    <3>5. CASE k # n - 1
      <4>1. s[k] # s[n - 1]
        BY <1>4, <2>1, <3>1, <3>5
      <4>2. M.next[t[k]] = L.next[s[k]]
        BY <1>8, <2>3, <3>1, <4>1
      <4>3. k + 1 \in 1 .. (n - 1)
        BY <1>2, <3>5
      <4>4. t[k + 1] = s[k + 1]
        BY <2>2, <4>3
      <4> QED BY <1>4, <3>1, <3>2, <3>3, <3>5, <4>2, <4>4
    <3> QED BY <3>4, <3>5
  <2> QED BY <2>3, <2>4, <2>5
<1>13. CASE n > 1 /\ i # 1 /\ i # n
  <2>1. /\ b # L.head /\ b # L.tail /\ L.sz > 1 /\ n - 1 # 0
        /\ i - 1 \in 1 .. n /\ i + 1 \in 1 .. n /\ i - 1 \in 1 .. (n - 1)
        /\ i \in 1 .. (n - 1)
    <3>1. 1 \in 1 .. n /\ n \in 1 .. n
      BY <1>2, <1>13
    <3> QED BY <1>1, <1>2, <1>4, <1>13, <3>1
  <2>2. L.prev[b] = s[i - 1] /\ L.next[b] = s[i + 1]
    BY <1>1, <1>4, <1>13
  <2>3. /\ M.sz = n - 1 /\ M.head = s[1] /\ M.tail = s[n]
        /\ M.next = [L.next EXCEPT ![s[i - 1]] = s[i + 1]]
        /\ M.prev = [L.prev EXCEPT ![s[i + 1]] = s[i - 1]]
    BY <1>4, <1>7, <2>1, <2>2
  <2>4. t[1] = s[1] /\ t[n - 1] = s[n]
    <3>1. 1 \in 1 .. (n - 1) /\ 1 < i /\ n - 1 \in 1 .. (n - 1) /\ ~ (n - 1 < i)
          /\ (n - 1) + 1 = n
      BY <1>2, <1>13
    <3> QED BY <1>3, <3>1
  <2>5. ASSUME NEW k \in 1 .. (n - 1)
        PROVE  M.next[t[k]] = (IF k = n - 1 THEN NULL ELSE t[k + 1])
    <3>0. /\ k \in 1 .. n /\ k + 1 \in 1 .. n /\ s[k] \in Block /\ s[k + 1] \in Block
          /\ k # n - 1 => k + 1 \in 1 .. (n - 1)
      BY <1>2
    <3>1. CASE k = i - 1
      <4>1. t[k] = s[i - 1] /\ k # n - 1 /\ k + 1 = i /\ k < i /\ ~ (i < i)
        BY <1>2, <1>3, <1>13, <3>1
      <4>2. M.next[t[k]] = s[i + 1]
        BY <1>8, <2>3, <3>0, <3>1, <4>1
      <4>3. t[i] = s[i + 1]
        BY <1>3, <2>1, <4>1
      <4> QED BY <4>1, <4>2, <4>3
    <3>2. CASE k < i - 1
      <4>1. k < i /\ k + 1 < i /\ k # n - 1 /\ k # n
        BY <1>2, <3>2
      <4>2. t[k] = s[k] /\ t[k + 1] = s[k + 1]
        BY <1>3, <3>0, <4>1
      <4>3. s[k] # s[i - 1]
        BY <1>2, <1>4, <2>1, <3>0, <3>2
      <4>4. M.next[t[k]] = L.next[s[k]]
        <5>1. t[k] = s[k] /\ M.next = [L.next EXCEPT ![s[i - 1]] = s[i + 1]]
          BY <2>3, <4>2
        <5> QED BY <1>8, <3>0, <4>3, <5>1
      <4> QED BY <1>4, <3>0, <4>1, <4>2, <4>4
    <3>3. CASE ~ (k < i)
      <4>1. t[k] = s[k + 1] /\ ~ (k + 1 < i) /\ k + 1 # i - 1
        BY <1>2, <1>3, <3>3
      <4>2. k # n - 1 => t[k + 1] = s[(k + 1) + 1]
        BY <1>3, <3>0, <4>1
      <4>3. s[k + 1] # s[i - 1]
        BY <1>4, <2>1, <3>0, <4>1
      <4>4. M.next[t[k]] = L.next[s[k + 1]]
        <5>1. t[k] = s[k + 1] /\ M.next = [L.next EXCEPT ![s[i - 1]] = s[i + 1]]
          BY <2>3, <4>1
        <5> QED BY <1>8, <3>0, <4>3, <5>1
      <4>5. L.next[s[k + 1]] = (IF k + 1 = n THEN NULL ELSE s[(k + 1) + 1])
        BY <1>4, <3>0
      <4> QED BY <1>2, <4>2, <4>4, <4>5
    <3> QED BY <1>2, <3>1, <3>2, <3>3
  <2>6. ASSUME NEW k \in 1 .. (n - 1)
        PROVE  M.prev[t[k]] = (IF k = 1 THEN NULL ELSE t[k - 1])
    <3>0. /\ k \in 1 .. n /\ k + 1 \in 1 .. n /\ s[k] \in Block /\ s[k + 1] \in Block
          /\ k # 1 => k - 1 \in 1 .. (n - 1)
      BY <1>2
    <3>1. CASE k = i
      <4>1. t[k] = s[i + 1] /\ k # 1 /\ k - 1 < i
        BY <1>2, <1>3, <1>13, <3>1
      <4>2. M.prev[t[k]] = s[i - 1]
        BY <1>8, <2>3, <3>0, <3>1, <4>1
      <4>3. t[k - 1] = s[k - 1]
        BY <1>3, <3>0, <4>1
      <4> QED BY <3>1, <4>1, <4>2, <4>3
    <3>2. CASE k < i
      <4>1. t[k] = s[k] /\ (k # 1 => t[k - 1] = s[k - 1]) /\ k # i + 1
        <5>1. k - 1 < i /\ k # i + 1
          BY <1>2, <3>2
        <5> QED BY <1>3, <3>0, <3>2, <5>1
      <4>2. s[k] # s[i + 1]
        BY <1>4, <2>1, <3>0, <4>1
      <4>3. M.prev[t[k]] = L.prev[s[k]]
        <5>1. t[k] = s[k] /\ M.prev = [L.prev EXCEPT ![s[i + 1]] = s[i - 1]]
          BY <2>3, <4>1
        <5> QED BY <1>8, <3>0, <4>2, <5>1
      <4> QED BY <1>4, <3>0, <4>1, <4>3
    <3>3. CASE k > i
      <4>1. t[k] = s[k + 1] /\ k # 1 /\ ~ (k - 1 < i) /\ k + 1 # i + 1 /\ (k - 1) + 1 = k
            /\ k + 1 # 1 /\ (k + 1) - 1 = k
        BY <1>2, <1>3, <3>3
      <4>2. t[k - 1] = s[k]
        BY <1>3, <3>0, <4>1
      <4>3. s[k + 1] # s[i + 1]
        BY <1>4, <2>1, <3>0, <4>1
      <4>4. M.prev[t[k]] = L.prev[s[k + 1]]
        <5>1. t[k] = s[k + 1] /\ M.prev = [L.prev EXCEPT ![s[i + 1]] = s[i - 1]]
          BY <2>3, <4>1
        <5> QED BY <1>8, <3>0, <4>3, <5>1
      <4>5. L.prev[s[k + 1]] = s[(k + 1) - 1]
        BY <1>4, <3>0, <4>1
      <4> QED BY <4>1, <4>2, <4>4, <4>5
    <3> QED BY <1>2, <3>1, <3>2, <3>3
  <2> QED BY <2>1, <2>3, <2>4, <2>5, <2>6
<1> QED BY <1>2, <1>10, <1>11, <1>12, <1>13

\* The pointers of a block that is not linked may change.
LEMMA ForgetLinked ==
  ASSUME NEW L \in ListRecord, NEW s \in Seq(Block), Linked(L, s),
         NEW b \in Block, b \notin ToSet(s)
  PROVE  Linked([L EXCEPT !.next[b] = NULL, !.prev[b] = NULL], s)
<1> DEFINE f == [L.next EXCEPT ![b] = NULL]
           g == [L.prev EXCEPT ![b] = NULL]
           M == [L EXCEPT !.next = f, !.prev = g]
<1>1. [L EXCEPT !.next[b] = NULL, !.prev[b] = NULL] = M
  OBVIOUS
<1>2. /\ f \in [Block -> Block \cup {NULL}] /\ g \in [Block -> Block \cup {NULL}]
      /\ \A c \in Block \ {b} : f[c] = L.next[c] /\ g[c] = L.prev[c]
  BY ListFields, LinkTo
<1>3. \A k \in 1 .. Len(s) : s[k] \in Block \ {b}
  BY InSeq
<1> HIDE DEF f, g
<1>4. /\ M.head = L.head /\ M.tail = L.tail /\ M.sz = L.sz
      /\ M.next = f /\ M.prev = g
  BY <1>2 DEF ListRecord
<1> HIDE DEF M
<1>5. Linked(M, s)
  BY <1>2, <1>3, <1>4 DEF Linked
<1> QED BY <1>1, <1>5

-----------------------------------------------------------------------------
(* Walks along the links                                                   *)

\* A walk along the links of s meets s, from its first element to its last.
LEMMA WalkMeets ==
  ASSUME NEW L, NEW forward \in BOOLEAN, NEW s \in Seq(Block), NEW n \in Nat, n >= Len(s),
         LL!First(L, forward) = (IF Len(s) = 0 THEN NULL ELSE s[1]),
         \A k \in 1 .. Len(s) :
            LL!Step(L, forward, s[k]) = (IF k = Len(s) THEN NULL ELSE s[k + 1])
  PROVE  LL!Walk(L, forward, n) = s
<1> DEFINE w == CHOOSE w : w = [k \in 0 .. n |->
                    IF k = 0 THEN LL!Start(L, forward) ELSE LL!Longer(L, forward, w[k - 1])]
           Reach(k) == IF k < Len(s) THEN k + 1 ELSE Len(s)
           v == [k \in 0 .. n |-> SubSeq(s, 1, Reach(k))]
<1>0. /\ Len(s) \in Nat /\ NULL \notin Block /\ \A k \in 1 .. Len(s) : s[k] \in Block
  BY InSeq, BlockAssumption
<1>1. LL!Walk(L, forward, n) = w[n]
  BY DEF LL!Walk
<1>2. v[0] = LL!Start(L, forward)
  <2>1. CASE Len(s) = 0
    <3>1. s = <<>> /\ SubSeq(s, 1, 0) = <<>>
      BY <2>1
    <3> QED BY <2>1, <3>1 DEF LL!Start
  <2>2. CASE Len(s) # 0
    <3>0. 0 < Len(s) /\ 1 \in 1 .. Len(s)
      BY <1>0, <2>2
    <3>1. SubSeq(s, 1, 1) = <<s[1]>>
      <4> DEFINE q == SubSeq(s, 1, 1)
      <4>1. q \in Seq(Block) /\ Len(q) = 1 /\ q[1] = s[1]
        BY <3>0
      <4> HIDE DEF q
      <4>2. q = <<q[1]>>
        BY <4>1
      <4> QED BY <4>1, <4>2 DEF q
    <3>2. v[0] = SubSeq(s, 1, 1)
      BY <3>0
    <3> QED BY <1>0, <2>2, <3>0, <3>1, <3>2 DEF LL!Start
  <2> QED BY <2>1, <2>2
<1>3. ASSUME NEW k \in 1 .. n PROVE v[k] = LL!Longer(L, forward, v[k - 1])
  <2> DEFINE p == v[k - 1]
             m == Reach(k - 1)
  <2>0. k \in Nat /\ k - 1 \in 0 .. n /\ k \in 0 .. n
    OBVIOUS
  <2>1. /\ p = SubSeq(s, 1, m) /\ m \in 0 .. Len(s) /\ Len(p) = m /\ p \in Seq(Block)
        /\ \A j \in 1 .. m : p[j] = s[j]
    BY <1>0, <2>0
  <2>2. CASE Len(s) = 0
    <3>1. p = <<>> /\ v[k] = <<>>
      BY <1>0, <2>0, <2>1, <2>2
    <3> QED BY <3>1 DEF LL!Longer
  <2>3. CASE Len(s) # 0
    <3>1. m \in 1 .. Len(s) /\ p # <<>>
      BY <1>0, <2>0, <2>1, <2>3
    <3>2. LL!Last(p) = s[m]
      BY <2>1, <3>1 DEF LL!Last
    <3> HIDE DEF p, m
    <3>3. LL!Step(L, forward, LL!Last(p)) = (IF m = Len(s) THEN NULL ELSE s[m + 1])
      BY <3>1, <3>2
    <3>4. CASE m = Len(s)
      <4>1. Reach(k) = m
        BY <1>0, <2>0, <3>1, <3>4 DEF m
      <4>2. v[k] = p
        BY <2>0, <2>1, <4>1
      <4> QED BY <3>3, <3>4, <4>2 DEF LL!Longer, p
    <3>5. CASE m # Len(s)
      <4>1. Reach(k) = m + 1 /\ m + 1 \in 1 .. Len(s)
        BY <1>0, <2>0, <3>1, <3>5 DEF m
      <4>2. v[k] = SubSeq(s, 1, m + 1)
        BY <2>0, <4>1
      <4>3. SubSeq(s, 1, m + 1) = Append(SubSeq(s, 1, m), s[m + 1])
        BY <1>0, <3>1, <4>1
      <4>4. s[m + 1] # NULL
        BY <1>0, <4>1
      <4>5. LL!Longer(L, forward, p) = Append(p, s[m + 1])
        BY <3>1, <3>3, <3>5, <4>4 DEF LL!Longer
      <4>6. v[k] = Append(p, s[m + 1])
        <5> HIDE DEF v
        <5> QED BY <2>1, <4>2, <4>3
      <4> HIDE DEF v
      <4> QED BY <4>5, <4>6 DEF p
    <3> QED BY <3>4, <3>5
  <2> QED BY <2>2, <2>3
<1>4. w = [k \in 0 .. n |-> IF k = 0 THEN LL!Start(L, forward)
                            ELSE LL!Longer(L, forward, w[k - 1])]
  <2>1. v = [k \in 0 .. n |-> IF k = 0 THEN LL!Start(L, forward)
                              ELSE LL!Longer(L, forward, v[k - 1])]
    <3> DEFINE x == [k \in 0 .. n |-> IF k = 0 THEN LL!Start(L, forward)
                                      ELSE LL!Longer(L, forward, v[k - 1])]
    <3>1. \A k \in 0 .. n : v[k] = x[k]
      <4> TAKE k \in 0 .. n
      <4>1. CASE k = 0
        BY <1>2, <4>1
      <4>2. CASE k # 0
        <5>1. k \in 1 .. n
          BY <4>2
        <5> HIDE DEF v
        <5> QED BY <1>3, <4>2, <5>1
      <4> QED BY <4>1, <4>2
    <3>2. v = [k \in 0 .. n |-> v[k]] /\ x = [k \in 0 .. n |-> x[k]]
      OBVIOUS
    <3> HIDE DEF v, x
    <3>3. v = x
      BY <3>1, <3>2
    <3> QED BY <3>3 DEF x
  <2> HIDE DEF v
  <2> QED BY <2>1
<1> HIDE DEF w, v
<1>5. ASSUME \E k \in 0 .. n : w[k] # v[k] PROVE FALSE
  <2> DEFINE S == {k \in 0 .. n : w[k] # v[k]}
  <2>1. S \subseteq Nat /\ S # {}
    BY <1>5
  <2>2. PICK x \in S : \A y \in S : x <= y
    <3> HIDE DEF S
    <3> QED BY <2>1, Least
  <2>3. CASE x = 0
    BY <1>2, <1>4, <2>2, <2>3
  <2>4. CASE x # 0
    <3>1. x \in 1 .. n /\ x - 1 \in 0 .. n /\ ~ (x <= x - 1)
      BY <2>2, <2>4
    <3>2. w[x - 1] = v[x - 1]
      BY <2>2, <3>1
    <3>3. w[x] = LL!Longer(L, forward, w[x - 1])
      BY <1>4, <3>1
    <3>4. v[x] = LL!Longer(L, forward, v[x - 1])
      BY <1>3, <3>1
    <3> QED BY <2>2, <3>2, <3>3, <3>4
  <2> QED BY <2>3, <2>4
<1>6. w[n] = v[n]
  BY <1>5
<1>7. v[n] = s
  <2>1. Reach(n) = Len(s) /\ n \in 0 .. n
    BY <1>0
  <2>2. v[n] = SubSeq(s, 1, Len(s))
    BY <2>1 DEF v
  <2> QED BY <1>0, <2>2
<1> QED BY <1>1, <1>6, <1>7

\* The elements of a sequence without repetition are no more than the blocks.
LEMMA NoMoreThanBlocks ==
  ASSUME NEW s \in Seq(Block), \A j, k \in 1 .. Len(s) : s[j] = s[k] => j = k
  PROVE  Len(s) <= Cardinality(Block) /\ Cardinality(Block) \in Nat
<1> DEFINE I == 1 .. Len(s)
<1>0. Len(s) \in Nat
  OBVIOUS
<1>1. s \in [I -> Block]
  BY InSeq
<1>2. IsFiniteSet(I) /\ Cardinality(I) = Len(s)
  <2>1. 1 \in Int /\ Len(s) \in Int
    BY <1>0
  <2>2. IsFiniteSet(I) /\ Cardinality(I) = IF 1 > Len(s) THEN 0 ELSE Len(s) - 1 + 1
    BY <2>1, FS_Interval
  <2> HIDE DEF I
  <2> QED BY <1>0, <2>2
<1> HIDE DEF I
<1>3. s \in Injection(I, Block)
  BY <1>1 DEF I, Injection, IsInjective
<1>4. Cardinality(I) <= Cardinality(Block) /\ Cardinality(Block) \in Nat
  BY <1>3, BlockAssumption, FS_Injection, FS_CardinalityType
<1> QED BY <1>2, <1>4

\* The list and its elements: it links the members, which are all there.
Chain ==
    /\ \E s \in Seq(Block) : Linked(ll, s) /\ ToSet(s) = member
    /\ \A b \in member : Live(b)

\* A list that links the members is met in both directions.
LEMMA ChainWalks ==
  ASSUME NEW s \in Seq(Block), Linked(ll, s)
  PROVE  /\ Listed = s /\ LL!Walk(ll, FALSE, Cardinality(Block) + 1) = Reverse(s)
         /\ IsInjective(s)
<1> DEFINE r == Reverse(s)
           n == Len(s)
           N == Cardinality(Block) + 1
<1>1. /\ n \in Nat /\ DOMAIN s = 1 .. n /\ \A k \in 1 .. n : s[k] \in Block
      /\ Cardinality(Block) \in Nat /\ n <= Cardinality(Block)
  BY InSeq, NoMoreThanBlocks DEF Linked
<1>2. N \in Nat /\ N >= n
  BY <1>1
<1>3. /\ \A j, k \in 1 .. n : s[j] = s[k] => j = k
      /\ ll.head = (IF n = 0 THEN NULL ELSE s[1])
      /\ ll.tail = (IF n = 0 THEN NULL ELSE s[n])
      /\ \A k \in 1 .. n : /\ ll.next[s[k]] = (IF k = n THEN NULL ELSE s[k + 1])
                           /\ ll.prev[s[k]] = (IF k = 1 THEN NULL ELSE s[k - 1])
  BY DEF Linked
<1>4. /\ r \in Seq(Block) /\ Len(r) = n
      /\ \A k \in 1 .. n : r[k] = s[n - k + 1] /\ n - k + 1 \in 1 .. n
  <2>1. \A k \in 1 .. n : (n - k) + 1 \in 1 .. n
    BY <1>1
  <2>2. r = [k \in 1 .. n |-> s[(n - k) + 1]]
    BY DEF Reverse
  <2>3. r \in [1 .. n -> Block]
    BY <1>1, <2>1, <2>2
  <2> HIDE DEF n, r
  <2> QED BY <1>1, <2>1, <2>2, <2>3
<1> HIDE DEF n, r, N
<1>5. LL!Walk(ll, TRUE, N) = s
  <2>1. LL!First(ll, TRUE) = (IF Len(s) = 0 THEN NULL ELSE s[1])
    BY <1>3 DEF LL!First, n
  <2>2. \A k \in 1 .. Len(s) :
            LL!Step(ll, TRUE, s[k]) = (IF k = Len(s) THEN NULL ELSE s[k + 1])
    BY <1>3 DEF LL!Step, n
  <2> QED BY <1>2, <2>1, <2>2, WalkMeets DEF n
<1>6. LL!Walk(ll, FALSE, N) = r
  <2>1. LL!First(ll, FALSE) = (IF Len(r) = 0 THEN NULL ELSE r[1])
    <3>1. n # 0 => 1 \in 1 .. n /\ n - 1 + 1 = n
      BY <1>1
    <3> QED BY <1>3, <1>4, <3>1 DEF LL!First
  <2>2. ASSUME NEW k \in 1 .. n
        PROVE  LL!Step(ll, FALSE, r[k]) = (IF k = n THEN NULL ELSE r[k + 1])
    <3>1. LL!Step(ll, FALSE, r[k]) = ll.prev[s[n - k + 1]]
      BY <1>4 DEF LL!Step
    <3>2. ll.prev[s[n - k + 1]] = (IF n - k + 1 = 1 THEN NULL ELSE s[(n - k + 1) - 1])
      BY <1>3, <1>4
    <3>3. /\ n - k + 1 = 1 <=> k = n
          /\ k # n => k + 1 \in 1 .. n /\ n - (k + 1) + 1 = (n - k + 1) - 1
      BY <1>1
    <3>4. k # n => r[k + 1] = s[n - (k + 1) + 1]
      BY <1>4, <3>3
    <3>5. k # n => r[k + 1] = s[(n - k + 1) - 1]
      BY <3>3, <3>4
    <3> HIDE DEF r, n
    <3> QED BY <3>1, <3>2, <3>3, <3>5
  <2>3. \A k \in 1 .. Len(r) :
            LL!Step(ll, FALSE, r[k]) = (IF k = Len(r) THEN NULL ELSE r[k + 1])
    BY <1>4, <2>2
  <2>4. r \in Seq(Block) /\ N >= Len(r) /\ FALSE \in BOOLEAN
    BY <1>2, <1>4
  <2> QED BY <1>2, <2>1, <2>3, <2>4, WalkMeets
<1>7. IsInjective(s)
  BY <1>1, <1>3 DEF IsInjective
<1> QED BY <1>5, <1>6, <1>7 DEF Listed, N, r

\* A chain is what ListSound asks of the list.
LEMMA ChainSound ==
  ASSUME Chain
  PROVE  ListSound
<1>1. PICK s \in Seq(Block) : Linked(ll, s) /\ ToSet(s) = member
  BY DEF Chain
<1> QED BY <1>1, ChainWalks DEF ListSound, Chain, Linked

-----------------------------------------------------------------------------
(* The invariant of the cluster list                                       *)

\* The types that hold whatever was destroyed, and where every thread is.
TenderRecord == [pc : {"sleep", "at", "tending", "next", "cancelled"},
                 e : Block \cup {NULL}, look : SUBSET Host]
PlaceOK(u) ==
    /\ ux[u].at >= 1 /\ (ux[u].pc # "idle" => Busy(u))
    /\ ux[u].pc \in Making \cup Ending \cup {"release"} => ux[u].asc \in Block
LTypes ==
    /\ plan \in Plans /\ Types /\ ll \in ListRecord /\ \A u \in User : PlaceOK(u)
    /\ tender \in TenderRecord
    /\ tender.pc \in {"at", "tending", "next"} => tender.e \in Block

\* Whoever takes a cluster apart has it for itself: it is out of the list, still
\* there, and no tend of it begins any more once it is marked.
Apart == {"free", "freeing"}
EndersOK ==
    /\ \A u \in User : ux[u].pc \in Apart => ux[u].asc \notin member /\ Live(ux[u].asc)
    /\ \A u \in User : ux[u].pc = "freeing" => blk[ux[u].asc].freed
    /\ \A u, v \in User : ux[u].pc \in Apart /\ ux[v].pc \in Apart /\ u # v =>
          ux[u].asc # ux[v].asc

\* Whoever tends a cluster has set its flag, and nobody else tends it.
Held(b) == Live(b) /\ blk[b].tending /\ ~ blk[b].freed
TendersOK ==
    /\ tender.pc = "tending" => Held(tender.e)
    /\ \A u \in User : ux[u].pc = "tending" =>
        Held(ux[u].asc) /\ (tender.pc = "tending" => tender.e # ux[u].asc)
    /\ \A u, v \in User : ux[u].pc = "tending" /\ ux[v].pc = "tending" /\ u # v =>
          ux[u].asc # ux[v].asc

\* What is being created is in the list and has no host before it is complete.
Young == {"ready", "add"}
NewOK ==
    /\ \A u \in User : ux[u].pc \in Young => ux[u].asc \in member
    /\ \A u \in User : ux[u].pc = "ready" => blk[ux[u].asc].hosts = {}
    /\ \A u \in User : ux[u].pc = "add" => blk[ux[u].asc].ready
    /\ \A u, v \in User : ux[u].pc \in Young /\ ux[v].pc \in Young /\ u # v =>
          ux[u].asc # ux[v].asc
    /\ \A b \in Block : Live(b) /\ blk[b].hosts # {} => blk[b].ready

LSafe == Chain /\ EndersOK /\ TendersOK /\ (~ torn => NewOK)
LInv == LTypes /\ (~ twice => LSafe)

-----------------------------------------------------------------------------
(* Types of what a step changes                                            *)

\* The call a thread is in.
LEMMA CallTypes ==
  ASSUME LTypes, NEW u \in User
  PROVE  /\ ux[u] \in ThreadRecord /\ ux[u].at \in Nat /\ ux[u].at >= 1
         /\ Len(plan[u]) \in Nat
         /\ Busy(u) => Call(u).slot \in Slot /\ Call(u).host \in Host
<1> DEFINE C == [op : {"get_or_create", "cluster_get", "release", "shutdown"},
                 slot : Slot, host : Host]
<1>0. plan \in Plans
  BY DEF LTypes
<1>1. plan[u] \in Seq(C)
  BY <1>0, PlansAssumption, Zenon
<1> HIDE DEF C
<1>2. ux[u] \in ThreadRecord
  BY DEF LTypes, Types
<1>3. ux[u].at \in Nat /\ ux[u].at >= 1
  BY <1>2 DEF LTypes, PlaceOK, ThreadRecord
<1>4. ASSUME Busy(u) PROVE Call(u) \in C
  BY <1>1, <1>3, <1>4 DEF Busy, Call
<1> QED BY <1>1, <1>2, <1>3, <1>4 DEF C

\* One block is written.
LEMMA BlockWritten ==
  ASSUME LTypes, NEW b \in Block, NEW c \in ClusterRecord, blk' = [blk EXCEPT ![b] = c]
  PROVE  /\ blk' \in [Block -> ClusterRecord] /\ blk'[b] = c
         /\ \A d \in Block \ {b} : blk'[d] = blk[d]
  BY DEF LTypes, Types

\* What a thread's slots hold after a step.
LEMMA SlotsWritten ==
  ASSUME LTypes, NEW u \in User, NEW s \in Slot, NEW x \in Block \cup {NULL}
  PROVE  /\ [handle EXCEPT ![u][s] = x] \in [User -> [Slot -> Block \cup {NULL}]]
         /\ [own EXCEPT ![u] = @ \cup {s}] \in [User -> SUBSET Slot]
         /\ [own EXCEPT ![u] = @ \ {s}] \in [User -> SUBSET Slot]
  BY DEF LTypes, Types

\* A step of a thread keeps the types when what it writes has them.
LEMMA ThreadTypes ==
  ASSUME LTypes, NEW u \in User, NEW r \in ThreadRecord, plan' = plan,
         ux' = [ux EXCEPT ![u] = r], r.at >= 1, r.pc # "idle" => r.at <= Len(plan[u]),
         r.pc \in Making \cup Ending \cup {"release"} => r.asc \in Block,
         blk' \in [Block -> ClusterRecord],
         handle' \in [User -> [Slot -> Block \cup {NULL}]], own' \in [User -> SUBSET Slot],
         ll' \in ListRecord, tender' \in TenderRecord,
         tender'.pc \in {"at", "tending", "next"} => tender'.e \in Block
  PROVE  /\ LTypes' /\ ux'[u] = r
         /\ \A v \in User \ {u} : ux'[v] = ux[v]
<1>1. /\ ux' \in [User -> ThreadRecord] /\ ux'[u] = r
      /\ \A v \in User \ {u} : ux'[v] = ux[v]
  BY DEF LTypes, Types
<1>2. Types'
  BY <1>1 DEF Types
<1>3. ASSUME NEW v \in User PROVE PlaceOK(v)'
  <2>1. CASE v = u
    BY <1>1, <2>1 DEF PlaceOK, Busy
  <2>2. CASE v # u
    BY <1>1, <2>2 DEF PlaceOK, Busy, LTypes
  <2> QED BY <2>1, <2>2
<1> QED BY <1>1, <1>2, <1>3 DEF LTypes

\* So does a step of the tender.
LEMMA TenderTypes ==
  ASSUME LTypes, UNCHANGED <<plan, ux, handle, own, ll>>, blk' \in [Block -> ClusterRecord],
         tender' \in TenderRecord,
         tender'.pc \in {"at", "tending", "next"} => tender'.e \in Block
  PROVE  LTypes'
<1>1. Types'
  BY DEF LTypes, Types
<1>2. \A u \in User : PlaceOK(u)'
  BY DEF LTypes, PlaceOK, Busy
<1> QED BY <1>1, <1>2 DEF LTypes

-----------------------------------------------------------------------------
(* Steps that do not change what is said of the clusters                   *)

\* The places of a thread about which something is said.
Marked == Apart \cup Young \cup {"tending"}

\* The fields of a cluster that matter here.
Alike(b) ==
    /\ blk'[b].mem = blk[b].mem /\ blk'[b].tending = blk[b].tending
    /\ blk'[b].freed = blk[b].freed /\ blk'[b].ready = blk[b].ready
    /\ blk'[b].hosts = blk[b].hosts

\* Members are blocks.
LEMMA Members ==
  ASSUME Chain
  PROVE  member \subseteq Block
  BY InSeq DEF Chain

\* The list is left alone, and no member freed.
LEMMA ChainKept ==
  ASSUME Chain, ll' = ll, member' = member, \A b \in member : blk'[b].mem = blk[b].mem
  PROVE  Chain'
  BY DEF Chain, Live

\* The threads of which something is said are at blocks.
LEMMA MarkedPlace ==
  ASSUME LTypes
  PROVE  \A u \in User : ux[u].pc \in Marked => ux[u].asc \in Block
  BY DEF LTypes, PlaceOK, Marked, Apart, Young, Making, Ending

\* Nobody begins to take a cluster apart, and those who did still have it.
LEMMA EndersKept ==
  ASSUME EndersOK,
         \A v \in User : ux'[v].pc \in Apart =>
            /\ ux'[v] = ux[v] /\ ux[v].asc \notin member' /\ blk'[ux[v].asc].mem = "live"
            /\ blk[ux[v].asc].freed => blk'[ux[v].asc].freed
  PROVE  EndersOK'
<1>1. \A v \in User : ux'[v].pc \in Apart => ux'[v].asc \notin member' /\ blk'[ux'[v].asc].mem = "live"
  OBVIOUS
<1>2. \A v \in User : ux'[v].pc = "freeing" => blk'[ux'[v].asc].freed
  BY DEF EndersOK, Apart
<1>3. \A v, w \in User : ux'[v].pc \in Apart /\ ux'[w].pc \in Apart /\ v # w =>
        ux'[v].asc # ux'[w].asc
  BY DEF EndersOK
<1> QED BY <1>1, <1>2, <1>3 DEF EndersOK, Live

\* No tend begins, and those under way still hold their cluster.
HeldThen(b) == blk'[b].mem = "live" /\ blk'[b].tending /\ ~ blk'[b].freed
LEMMA TendersKept ==
  ASSUME TendersOK,
         tender'.pc = "tending" =>
            tender.pc = "tending" /\ tender'.e = tender.e /\ HeldThen(tender.e),
         \A v \in User : ux'[v].pc = "tending" => ux'[v] = ux[v] /\ HeldThen(ux[v].asc)
  PROVE  TendersOK'
<1>1. tender'.pc = "tending" => HeldThen(tender'.e)
  OBVIOUS
<1>2. \A v \in User : ux'[v].pc = "tending" =>
        HeldThen(ux'[v].asc) /\ (tender'.pc = "tending" => tender'.e # ux'[v].asc)
  BY DEF TendersOK
<1>3. \A v, w \in User : ux'[v].pc = "tending" /\ ux'[w].pc = "tending" /\ v # w =>
        ux'[v].asc # ux'[w].asc
  BY DEF TendersOK
<1> QED BY <1>1, <1>2, <1>3 DEF TendersOK, Held, HeldThen, Live

\* No cluster is new, and the new ones are still in the list.
LEMMA NewKept ==
  ASSUME NewOK,
         \A v \in User : ux'[v].pc \in Young =>
            /\ ux'[v] = ux[v] /\ ux[v].asc \in member'
            /\ blk'[ux[v].asc].hosts = blk[ux[v].asc].hosts
            /\ blk[ux[v].asc].ready => blk'[ux[v].asc].ready,
         \A b \in Block : blk'[b].mem = "live" /\ blk'[b].hosts # {} => blk'[b].ready
  PROVE  NewOK'
<1>1. \A v \in User : ux'[v].pc \in Young => ux'[v].asc \in member'
  OBVIOUS
<1>2. \A v \in User : /\ ux'[v].pc = "ready" => blk'[ux'[v].asc].hosts = {}
                      /\ ux'[v].pc = "add" => blk'[ux'[v].asc].ready
  BY DEF NewOK, Young
<1>3. \A v, w \in User : ux'[v].pc \in Young /\ ux'[w].pc \in Young /\ v # w =>
        ux'[v].asc # ux'[w].asc
  BY DEF NewOK
<1> QED BY <1>1, <1>2, <1>3 DEF NewOK, Live

\* Threads that move do so to a place about which nothing is said.
LEMMA QuietSafe ==
  ASSUME LTypes, LSafe, ll' = ll, member' = member, torn' = torn,
         \A b \in Block : Alike(b),
         \A v \in User : ux'[v] = ux[v] \/ ux'[v].pc \notin Marked,
         tender'.pc = "tending" => tender.pc = "tending" /\ tender'.e = tender.e
  PROVE  LSafe'
<1>0. Chain /\ EndersOK /\ TendersOK /\ (~ torn => NewOK)
  BY DEF LSafe
<1>1. Chain'
  BY <1>0, Members, ChainKept DEF Alike
<1>2. ASSUME NEW v \in User, ux'[v].pc \in Marked
      PROVE  ux'[v] = ux[v] /\ ux[v].asc \in Block /\ Alike(ux[v].asc)
  BY <1>2, MarkedPlace
<1>3. EndersOK'
  <2>1. ASSUME NEW v \in User, ux'[v].pc \in Apart
        PROVE  /\ ux'[v] = ux[v] /\ ux[v].asc \notin member' /\ blk'[ux[v].asc].mem = "live"
               /\ blk[ux[v].asc].freed => blk'[ux[v].asc].freed
    BY <1>0, <1>2, <2>1 DEF EndersOK, Live, Alike, Marked
  <2> QED BY <1>0, <2>1, EndersKept
<1>4. TendersOK'
  <2>1. tender'.pc = "tending" => HeldThen(tender.e)
    BY <1>0 DEF LTypes, TendersOK, Held, Live, HeldThen, Alike
  <2>2. ASSUME NEW v \in User, ux'[v].pc = "tending"
        PROVE  ux'[v] = ux[v] /\ HeldThen(ux[v].asc)
    BY <1>0, <1>2, <2>2 DEF TendersOK, Held, Live, HeldThen, Alike, Marked
  <2> QED BY <1>0, <2>1, <2>2, TendersKept
<1>5. ASSUME ~ torn PROVE NewOK'
  <2>0. NewOK
    BY <1>0, <1>5
  <2>1. ASSUME NEW v \in User, ux'[v].pc \in Young
        PROVE  /\ ux'[v] = ux[v] /\ ux[v].asc \in member'
               /\ blk'[ux[v].asc].hosts = blk[ux[v].asc].hosts
               /\ blk[ux[v].asc].ready => blk'[ux[v].asc].ready
    BY <2>0, <1>2, <2>1 DEF NewOK, Alike, Marked
  <2>2. \A b \in Block : blk'[b].mem = "live" /\ blk'[b].hosts # {} => blk'[b].ready
    BY <2>0 DEF NewOK, Live, Alike
  <2> QED BY <2>0, <2>1, <2>2, NewKept
<1> QED BY <1>1, <1>3, <1>4, <1>5 DEF LSafe

-----------------------------------------------------------------------------
(* The steps that leave the clusters' state alone                          *)

\* A step after which nothing is said.
LEMMA UndefinedKeeps ==
  ASSUME LInv, Undefined
  PROVE  LInv'
<1>1. UNCHANGED <<plan, blk, ll, member, ux, handle, own, tender, twice, torn>>
  BY DEF Undefined, ghosts
<1>2. LTypes /\ LTypes'
  BY <1>1, TenderTypes DEF LInv, LTypes, Types
<1>3. ~ twice => LSafe'
  BY <1>1, <1>2, QuietSafe DEF LInv, Alike
<1> QED BY <1>1, <1>2, <1>3 DEF LInv

\* A quiet step of one thread.
LEMMA QuietKeeps ==
  ASSUME LInv, NEW u \in User, NEW r \in ThreadRecord, plan' = plan,
         ux' = [ux EXCEPT ![u] = r], r.at >= 1, r.pc # "idle" => r.at <= Len(plan[u]),
         r.pc \in Making \cup Ending \cup {"release"} => r.asc \in Block,
         r.pc \notin Marked, UNCHANGED <<ll, member, torn, twice>>,
         blk' \in [Block -> ClusterRecord], \A b \in Block : Alike(b),
         handle' \in [User -> [Slot -> Block \cup {NULL}]], own' \in [User -> SUBSET Slot],
         tender' \in TenderRecord,
         tender'.pc \in {"at", "tending", "next"} => tender'.e \in Block,
         tender'.pc = "tending" => tender.pc = "tending" /\ tender'.e = tender.e
  PROVE  LInv'
<1>1. LTypes /\ ll' \in ListRecord
  BY DEF LInv, LTypes
<1>2. LTypes' /\ ux'[u] = r /\ \A v \in User \ {u} : ux'[v] = ux[v]
  BY <1>1, ThreadTypes
<1>3. \A v \in User : ux'[v] = ux[v] \/ ux'[v].pc \notin Marked
  BY <1>2
<1>4. ~ twice => LSafe'
  BY <1>1, <1>3, QuietSafe DEF LInv
<1> QED BY <1>2, <1>4 DEF LInv

\* A quiet step that writes no more than its thread.
LEMMA ThreadKeeps ==
  ASSUME LInv, NEW u \in User, NEW r \in ThreadRecord,
         ux' = [ux EXCEPT ![u] = r], r.at >= 1, r.pc # "idle" => r.at <= Len(plan[u]),
         r.pc \in Making \cup Ending \cup {"release"} => r.asc \in Block,
         r.pc \notin Marked, UNCHANGED <<plan, blk, ll, member, torn, twice, tender>>,
         handle' \in [User -> [Slot -> Block \cup {NULL}]], own' \in [User -> SUBSET Slot]
  PROVE  LInv'
<1>1. /\ blk' \in [Block -> ClusterRecord] /\ tender' \in TenderRecord
      /\ tender'.pc \in {"at", "tending", "next"} => tender'.e \in Block
  BY DEF LInv, LTypes, Types
<1>2. \A b \in Block : Alike(b)
  BY DEF Alike
<1> QED BY <1>1, <1>2, QuietKeeps

\* A thread that returns from its call.
LEMMA ReturnPlace ==
  ASSUME LTypes, NEW u \in User
  PROVE  LET r == Idle(ux[u].at + 1)
         IN /\ r \in ThreadRecord /\ r.at >= 1 /\ r.pc = "idle" /\ r.pc \notin Marked
            /\ r.pc \notin Making \cup Ending \cup {"release"}
<1>1. ux[u].at + 1 \in Nat /\ ux[u].at + 1 >= 1
  BY CallTypes
<1>2. Idle(ux[u].at + 1) \in ThreadRecord
  BY <1>1, IdleType
<1> QED BY <1>1, <1>2 DEF Idle, Marked, Apart, Young, Making, Ending

\* A thread that goes on in its call.
LEMMA GoOn ==
  ASSUME LTypes, NEW u \in User, ux[u].pc # "idle" \/ Busy(u), NEW p \in Places
  PROVE  LET r == [ux[u] EXCEPT !.pc = p]
         IN /\ r \in ThreadRecord /\ r.at >= 1 /\ r.at <= Len(plan[u])
            /\ r.pc = p /\ r.asc = ux[u].asc /\ r.at = ux[u].at
<1>1. ux[u] \in ThreadRecord /\ ux[u].at >= 1
  BY CallTypes
<1>2. ux[u].at <= Len(plan[u])
  BY DEF LTypes, PlaceOK, Busy
<1> QED BY <1>1, <1>2 DEF ThreadRecord

\* A get finds a cluster or goes on to create one.
LEMMA GetKeeps ==
  ASSUME LInv, NEW u \in User, Get(u)
  PROVE  LInv'
<1> DEFINE r == [ux[u] EXCEPT !.pc = "create"]
           hits == Found(Call(u).host)
           s == Call(u).slot
<1>0. LTypes /\ Busy(u) /\ s \in Slot /\ Call(u).host \in Host
  BY CallTypes DEF LInv, Get
<1>1. CASE \E c \in ToSet(Listed) : ~ Live(c)
  <2>1. Undefined
    BY <1>1 DEF Get
  <2> QED BY <2>1, UndefinedKeeps
<1>2. CASE ~ (\E c \in ToSet(Listed) : ~ Live(c))
  <2>1. /\ UNCHANGED <<plan, ll, member, tender, twice, torn>>
        /\ \/ \E b \in hits : GetHit(u, b)
           \/ UNCHANGED <<blk, handle, own>> /\ ux' = [ux EXCEPT ![u] = r]
    BY <1>2 DEF Get, Goto
  <2>2. ASSUME NEW b \in hits, GetHit(u, b) PROVE LInv'
    <3> DEFINE d == [blk[b] EXCEPT !.ref = @ + 1]
               q == Idle(ux[u].at + 1)
    <3>1. b \in Block
      BY DEF Found
    <3>2. /\ handle' = [handle EXCEPT ![u][s] = b] /\ ux' = [ux EXCEPT ![u] = q]
          /\ \/ own' = [own EXCEPT ![u] = @ \cup {s}] /\ blk' = [blk EXCEPT ![b] = d]
             \/ own' = own /\ blk' = blk
      BY <2>2 DEF GetHit, Return
    <3>3. blk[b] \in ClusterRecord /\ blk \in [Block -> ClusterRecord]
      BY <1>0, <3>1 DEF LTypes, Types
    <3>4. /\ d \in ClusterRecord /\ d.mem = blk[b].mem /\ d.tending = blk[b].tending
          /\ d.freed = blk[b].freed /\ d.ready = blk[b].ready /\ d.hosts = blk[b].hosts
      BY <3>3 DEF ClusterRecord
    <3>5. /\ q \in ThreadRecord /\ q.at >= 1 /\ q.pc = "idle" /\ q.pc \notin Marked
          /\ q.pc \notin Making \cup Ending \cup {"release"}
      BY <1>0, ReturnPlace
    <3> HIDE DEF d, q, s, hits
    <3>6. blk' \in [Block -> ClusterRecord] /\ \A c \in Block : Alike(c)
      BY <3>1, <3>2, <3>3, <3>4 DEF Alike
    <3>7. /\ handle' \in [User -> [Slot -> Block \cup {NULL}]]
          /\ own' \in [User -> SUBSET Slot]
      <4>1. own \in [User -> SUBSET Slot] /\ b \in Block \cup {NULL}
        BY <1>0, <3>1 DEF LTypes, Types
      <4>2. /\ [handle EXCEPT ![u][s] = b] \in [User -> [Slot -> Block \cup {NULL}]]
            /\ [own EXCEPT ![u] = @ \cup {s}] \in [User -> SUBSET Slot]
        BY <1>0, <4>1, SlotsWritten
      <4>3. /\ handle' = [handle EXCEPT ![u][s] = b]
            /\ own' = [own EXCEPT ![u] = @ \cup {s}] \/ own' = own
        BY <3>2
      <4> QED BY <4>1, <4>2, <4>3
    <3>8. /\ tender' \in TenderRecord
          /\ tender'.pc \in {"at", "tending", "next"} => tender'.e \in Block
          /\ tender'.pc = "tending" => tender.pc = "tending" /\ tender'.e = tender.e
      BY <1>0, <2>1 DEF LTypes
    <3> QED BY <2>1, <3>2, <3>5, <3>6, <3>7, <3>8, QuietKeeps
  <2>3. ASSUME UNCHANGED <<blk, handle, own>>, ux' = [ux EXCEPT ![u] = r] PROVE LInv'
    <3>1. /\ r \in ThreadRecord /\ r.at >= 1 /\ r.at <= Len(plan[u]) /\ r.pc = "create"
      BY <1>0, GoOn DEF Places
    <3>2. r.pc \notin Marked /\ r.pc \notin Making \cup Ending \cup {"release"}
      BY <3>1 DEF Marked, Apart, Young, Making, Ending
    <3>3. /\ handle' \in [User -> [Slot -> Block \cup {NULL}]]
          /\ own' \in [User -> SUBSET Slot]
      BY <1>0, <2>3 DEF LTypes, Types
    <3> HIDE DEF r
    <3> QED BY <2>1, <2>3, <3>1, <3>2, <3>3, ThreadKeeps
  <2> HIDE DEF r, hits
  <2> QED BY <2>1, <2>2, <2>3
<1> QED BY <1>1, <1>2

\* A cluster is returned to the caller, or given up.
LEMMA AddHostReturnsKeeps ==
  ASSUME LInv, NEW u \in User, AddHostReturns(u)
  PROVE  LInv'
<1> DEFINE s == Call(u).slot
           p == IF Call(u).op = "cluster_get" THEN "destroy" ELSE "release"
           r == [ux[u] EXCEPT !.pc = p]
           q == Idle(ux[u].at + 1)
<1>0. /\ LTypes /\ ux[u].pc = "added" /\ ux[u].asc \in Block
      /\ UNCHANGED <<plan, blk, ll, member, tender, twice, torn>>
  BY DEF LInv, LTypes, PlaceOK, AddHostReturns, At, ghosts, Making
<1>1. Busy(u) /\ s \in Slot
  <2>1. Busy(u)
    BY <1>0 DEF LTypes, PlaceOK
  <2> QED BY <1>0, <2>1, CallTypes
<1>2. CASE ux[u].ok
  <2>1. /\ handle' = [handle EXCEPT ![u][s] = ux[u].asc]
        /\ own' = [own EXCEPT ![u] = @ \cup {s}] /\ ux' = [ux EXCEPT ![u] = q]
    BY <1>2 DEF AddHostReturns, Return
  <2>2. /\ q \in ThreadRecord /\ q.at >= 1 /\ q.pc = "idle" /\ q.pc \notin Marked
        /\ q.pc \notin Making \cup Ending \cup {"release"}
    BY <1>0, ReturnPlace
  <2> HIDE DEF q, s
  <2>3. /\ handle' \in [User -> [Slot -> Block \cup {NULL}]] /\ own' \in [User -> SUBSET Slot]
    BY <1>0, <1>1, <2>1, SlotsWritten
  <2> QED BY <1>0, <2>1, <2>2, <2>3, ThreadKeeps
<1>3. CASE ~ ux[u].ok
  <2>1. UNCHANGED <<handle, own>> /\ ux' = [ux EXCEPT ![u] = r]
    BY <1>3 DEF AddHostReturns, Goto
  <2>2. p \in Places /\ p \notin Marked /\ p # "idle"
    BY DEF Places, Ending, Marked, Apart, Young
  <2> HIDE DEF p
  <2>3. /\ r \in ThreadRecord /\ r.at >= 1 /\ r.at <= Len(plan[u]) /\ r.pc = p
        /\ r.asc = ux[u].asc
    BY <1>0, <1>1, <2>2, GoOn
  <2> HIDE DEF r
  <2>4. /\ handle' \in [User -> [Slot -> Block \cup {NULL}]] /\ own' \in [User -> SUBSET Slot]
    BY <1>0, <2>1 DEF LTypes, Types
  <2> QED BY <1>0, <2>1, <2>2, <2>3, <2>4, ThreadKeeps
<1> QED BY <1>2, <1>3

\* A thread gives back what it has in its slot, or had nothing.
LEMMA CloseKeeps ==
  ASSUME LInv, NEW u \in User, Close(u)
  PROVE  LInv'
<1> DEFINE b == handle[u][Call(u).slot]
           r == [ux[u] EXCEPT !.pc = "release", !.asc = b]
           q == Idle(ux[u].at + 1)
<1>0. /\ LTypes /\ Busy(u) /\ UNCHANGED <<plan, blk, ll, member, handle, own, tender, twice, torn>>
  BY DEF LInv, Close, ghosts
<1>1. ux[u] \in ThreadRecord /\ ux[u].at >= 1 /\ b \in Block \cup {NULL}
  BY <1>0, CallTypes DEF LTypes, Types
<1>2. handle' \in [User -> [Slot -> Block \cup {NULL}]] /\ own' \in [User -> SUBSET Slot]
  BY <1>0 DEF LTypes, Types
<1>3. CASE b = NULL
  <2>1. ux' = [ux EXCEPT ![u] = q]
    BY <1>3 DEF Close, Return
  <2>2. /\ q \in ThreadRecord /\ q.at >= 1 /\ q.pc = "idle" /\ q.pc \notin Marked
        /\ q.pc \notin Making \cup Ending \cup {"release"}
    BY <1>0, ReturnPlace
  <2> HIDE DEF q, b
  <2> QED BY <1>0, <1>2, <2>1, <2>2, ThreadKeeps
<1>4. CASE b # NULL
  <2>1. ux' = [ux EXCEPT ![u] = r]
    BY <1>4 DEF Close
  <2>2. /\ r \in ThreadRecord /\ r.pc = "release" /\ r.asc = b /\ r.at = ux[u].at
        /\ r.pc \notin Marked
    BY <1>1 DEF ThreadRecord, Places, Marked, Apart, Young
  <2>3. r.at >= 1 /\ r.at <= Len(plan[u])
    BY <1>0, <1>1, <2>2 DEF Busy
  <2> HIDE DEF r, b
  <2> QED BY <1>0, <1>1, <1>2, <1>4, <2>1, <2>2, <2>3, ThreadKeeps
<1> QED BY <1>3, <1>4

\* A reference is given back.
LEMMA ReleaseKeeps ==
  ASSUME LInv, NEW u \in User, Release(u)
  PROVE  LInv'
<1> DEFINE b == ux[u].asc
           s == Call(u).slot
           d == [blk[b] EXCEPT !.ref = IF @ > 0 THEN @ - 1 ELSE @]
           r == [ux[u] EXCEPT !.pc = "destroy"]
           q == Idle(ux[u].at + 1)
<1>0. LTypes /\ ux[u].pc = "release" /\ Busy(u) /\ b \in Block
  BY DEF LInv, LTypes, PlaceOK, Release, At
<1>1. s \in Slot /\ blk[b] \in ClusterRecord /\ blk \in [Block -> ClusterRecord]
  BY <1>0, CallTypes DEF LTypes, Types
<1>2. CASE ~ Live(b)
  <2>1. Undefined
    BY <1>2 DEF Release
  <2> QED BY <2>1, UndefinedKeeps
<1>3. CASE Live(b)
  <2>1. /\ blk' = [blk EXCEPT ![b] = d] /\ UNCHANGED <<plan, ll, member, tender, twice, torn>>
        /\ own' = [own EXCEPT ![u] = @ \ {s}] \/ own' = own
        /\ \/ ux' = [ux EXCEPT ![u] = r] /\ handle' = handle
           \/ /\ ux' = [ux EXCEPT ![u] = q]
              /\ handle' = handle \/ handle' = [handle EXCEPT ![u][s] = NULL]
    BY <1>3 DEF Release, Goto, Return, Nothing, ghosts
  <2>2. /\ d \in ClusterRecord /\ d.mem = blk[b].mem /\ d.tending = blk[b].tending
        /\ d.freed = blk[b].freed /\ d.ready = blk[b].ready /\ d.hosts = blk[b].hosts
    BY <1>1 DEF ClusterRecord
  <2>3. /\ q \in ThreadRecord /\ q.at >= 1 /\ q.pc = "idle" /\ q.pc \notin Marked
        /\ q.pc \notin Making \cup Ending \cup {"release"}
    BY <1>0, ReturnPlace
  <2>4. /\ r \in ThreadRecord /\ r.at >= 1 /\ r.at <= Len(plan[u]) /\ r.pc = "destroy"
        /\ r.asc = b /\ r.pc \notin Marked
    <3>1. "destroy" \in Places /\ "destroy" \notin Marked
      BY DEF Places, Ending, Marked, Apart, Young
    <3> QED BY <1>0, <3>1, GoOn
  <2> HIDE DEF b, s, d, r, q
  <2>5. blk' \in [Block -> ClusterRecord] /\ \A c \in Block : Alike(c)
    BY <1>0, <1>1, <2>1, <2>2 DEF Alike
  <2>6. /\ handle' \in [User -> [Slot -> Block \cup {NULL}]]
        /\ own' \in [User -> SUBSET Slot]
    <3>1. /\ handle \in [User -> [Slot -> Block \cup {NULL}]]
          /\ own \in [User -> SUBSET Slot]
      BY <1>0 DEF LTypes, Types
    <3>2. NULL \in Block \cup {NULL} /\ s \in Slot
      BY <1>1
    <3>3. /\ [handle EXCEPT ![u][s] = NULL] \in [User -> [Slot -> Block \cup {NULL}]]
          /\ [own EXCEPT ![u] = @ \ {s}] \in [User -> SUBSET Slot]
      BY <1>0, <3>2, SlotsWritten
    <3> QED BY <2>1, <3>1, <3>3
  <2>7. /\ tender' \in TenderRecord
        /\ tender'.pc \in {"at", "tending", "next"} => tender'.e \in Block
        /\ tender'.pc = "tending" => tender.pc = "tending" /\ tender'.e = tender.e
    BY <1>0, <2>1 DEF LTypes
  <2>8. CASE ux' = [ux EXCEPT ![u] = r]
    BY <1>0, <2>1, <2>4, <2>5, <2>6, <2>7, <2>8, QuietKeeps
  <2>9. CASE ux' = [ux EXCEPT ![u] = q]
    BY <2>1, <2>3, <2>5, <2>6, <2>7, <2>9, QuietKeeps
  <2> QED BY <2>1, <2>8, <2>9
<1> QED BY <1>2, <1>3

\* shutdown takes the next cluster of the list, or ends.
LEMMA ShutdownKeeps ==
  ASSUME LInv, NEW u \in User, Shutdown(u) \/ ShutdownJoin(u)
  PROVE  LInv'
<1> DEFINE p == IF ll.head = NULL THEN "join" ELSE "destroy"
           r == [ux[u] EXCEPT !.pc = p, !.asc = ll.head]
           q == Idle(ux[u].at + 1)
<1>0. LTypes /\ UNCHANGED <<plan, blk, ll, member, handle, own, twice, torn>>
  BY DEF LInv, Shutdown, ShutdownJoin, ghosts
<1>1. /\ ux[u] \in ThreadRecord /\ ux[u].at >= 1 /\ ll.head \in Block \cup {NULL}
      /\ blk' \in [Block -> ClusterRecord] /\ tender \in TenderRecord
      /\ handle' \in [User -> [Slot -> Block \cup {NULL}]] /\ own' \in [User -> SUBSET Slot]
  BY <1>0, CallTypes, ListFields DEF LTypes, Types
<1>2. CASE Shutdown(u)
  <2>1. ux' = [ux EXCEPT ![u] = r] /\ Busy(u) /\ tender' = tender
    BY <1>2 DEF Shutdown
  <2>0. (ll.head = NULL /\ p = "join") \/ (ll.head # NULL /\ p = "destroy")
    OBVIOUS
  <2>2. p \in Places /\ p \notin Marked /\ p \notin Making
    BY <2>0 DEF Places, Making, Ending, Marked, Apart, Young
  <2> HIDE DEF p
  <2>3. r \in ThreadRecord /\ r.pc = p /\ r.asc = ll.head /\ r.at = ux[u].at
    BY <1>1, <2>2 DEF ThreadRecord
  <2>4. r.at >= 1 /\ r.at <= Len(plan[u])
    BY <1>1, <2>1, <2>3 DEF Busy
  <2>5. r.pc \in Making \cup Ending \cup {"release"} => r.asc \in Block
    BY <1>1, <2>0, <2>2, <2>3 DEF Ending
  <2> HIDE DEF r
  <2> QED BY <1>0, <1>1, <2>1, <2>2, <2>3, <2>4, <2>5, ThreadKeeps
<1>3. CASE ShutdownJoin(u)
  <2>1. ux' = [ux EXCEPT ![u] = q] /\ tender' = [tender EXCEPT !.pc = "cancelled"]
    BY <1>3 DEF ShutdownJoin, Return
  <2>2. /\ q \in ThreadRecord /\ q.at >= 1 /\ q.pc = "idle" /\ q.pc \notin Marked
        /\ q.pc \notin Making \cup Ending \cup {"release"}
    BY <1>0, ReturnPlace
  <2>3. tender' \in TenderRecord /\ tender'.pc = "cancelled"
    BY <1>1, <2>1 DEF TenderRecord
  <2>4. \A b \in Block : Alike(b)
    BY <1>0 DEF Alike
  <2> HIDE DEF q
  <2> QED BY <1>0, <1>1, <2>1, <2>2, <2>3, <2>4, QuietKeeps
<1> QED BY <1>2, <1>3

-----------------------------------------------------------------------------
(* The steps that make a cluster                                           *)

\* A new cluster is appended, that nobody knows yet.
LEMMA CreateKeeps ==
  ASSUME LInv, NEW u \in User, citrusleaf_cluster_create(u)
  PROVE  LInv'
<1> DEFINE c == [Blank EXCEPT !.mem = "live", !.ref = 1]
<1>0. LTypes /\ ux[u].pc = "create" /\ Busy(u)
  BY DEF LInv, LTypes, PlaceOK, citrusleaf_cluster_create, At
<1>1. PICK b \in Malloced :
        /\ blk' = [blk EXCEPT ![b] = c]
        /\ ll' = LL!cf_ll_append(ll, b) /\ member' = member \cup {b}
        /\ ux' = [ux EXCEPT ![u].pc = "ready", ![u].asc = b]
  BY DEF citrusleaf_cluster_create
<1>2. b \in Block /\ ~ Live(b) /\ UNCHANGED <<plan, handle, own, tender, twice, torn>>
  BY DEF citrusleaf_cluster_create, ghosts, Malloced, Fresh, Live
<1> DEFINE r == [ux[u] EXCEPT !.pc = "ready", !.asc = b]
<1>3. ux' = [ux EXCEPT ![u] = r]
  BY <1>1
<1>4. /\ c \in ClusterRecord /\ c.mem = "live" /\ c.hosts = {}
  BY DEF ClusterRecord, Blank
<1>5. ux[u] \in ThreadRecord /\ ux[u].at >= 1 /\ ux[u].at <= Len(plan[u])
  BY <1>0, CallTypes DEF Busy
<1>6. r \in ThreadRecord /\ r.pc = "ready" /\ r.asc = b /\ r.at = ux[u].at
  BY <1>2, <1>5 DEF ThreadRecord, Places, Making
<1> HIDE DEF c, r
<1>7. /\ blk' \in [Block -> ClusterRecord] /\ blk'[b] = c
      /\ \A d \in Block \ {b} : blk'[d] = blk[d]
  BY <1>0, <1>1, <1>2, <1>4, BlockWritten
<1>8. /\ LTypes' /\ ux'[u] = r /\ \A v \in User \ {u} : ux'[v] = ux[v]
  <2>1. /\ handle' \in [User -> [Slot -> Block \cup {NULL}]] /\ own' \in [User -> SUBSET Slot]
        /\ tender' \in TenderRecord
        /\ tender'.pc \in {"at", "tending", "next"} => tender'.e \in Block
    BY <1>0, <1>2 DEF LTypes, Types
  <2>2. ll' \in ListRecord
    BY <1>0, <1>1, <1>2, AppendType DEF LTypes
  <2> QED BY <1>0, <1>2, <1>3, <1>5, <1>6, <1>7, <2>1, <2>2, ThreadTypes
<1>10. member' = member \cup {b}
  BY <1>1
<1>9. ASSUME ~ twice PROVE LSafe'
  <2>0. Chain /\ EndersOK /\ TendersOK /\ (~ torn => NewOK)
    BY <1>9 DEF LInv, LSafe
  <2>1. b \notin member
    BY <1>2, <2>0 DEF Chain
  <2>2. Chain'
    <3>1. PICK s \in Seq(Block) : Linked(ll, s) /\ ToSet(s) = member
      BY <2>0 DEF Chain
    <3>2. /\ Append(s, b) \in Seq(Block) /\ Linked(ll', Append(s, b))
          /\ ToSet(Append(s, b)) = member'
      BY <1>0, <1>1, <1>2, <2>1, <3>1, AppendLinked DEF LTypes
    <3>3. \A d \in member' : blk'[d].mem = "live"
      BY <1>1, <1>2, <1>4, <1>7, <2>0, Members DEF Chain, Live
    <3> QED BY <3>2, <3>3 DEF Chain, Live
  <2>3. \A v \in User : ux[v].pc \in Marked => ux[v].asc \in Block
    BY <1>0 DEF LTypes, PlaceOK, Marked, Apart, Young, Making, Ending
  <2>4. EndersOK'
    <3>1. \A v \in User : ux'[v].pc \in Apart => v # u /\ ux'[v] = ux[v] /\ ux[v].asc \in Block \ {b}
      BY <1>2, <1>6, <1>8, <2>0, <2>3 DEF EndersOK, Apart, Marked
    <3>2. ASSUME NEW v \in User, ux'[v].pc \in Apart
          PROVE  ux'[v].asc \notin member' /\ blk'[ux'[v].asc].mem = "live"
      <4>1. ux'[v] = ux[v] /\ ux[v].asc \in Block \ {b}
        BY <3>1, <3>2
      <4>2. ux[v].asc \notin member /\ blk[ux[v].asc].mem = "live"
        BY <2>0, <3>2, <4>1 DEF EndersOK, Live
      <4>3. blk'[ux[v].asc] = blk[ux[v].asc]
        BY <1>7, <4>1
      <4> QED BY <1>10, <4>1, <4>2, <4>3
    <3>3. \A v \in User : ux'[v].pc = "freeing" => blk'[ux'[v].asc].freed
      BY <1>7, <2>0, <3>1 DEF EndersOK, Apart
    <3>4. \A v, w \in User : ux'[v].pc \in Apart /\ ux'[w].pc \in Apart /\ v # w =>
            ux'[v].asc # ux'[w].asc
      BY <2>0, <3>1 DEF EndersOK
    <3> QED BY <3>2, <3>3, <3>4 DEF EndersOK, Live
  <2>5. TendersOK'
    <3>1. \A v \in User : ux'[v].pc = "tending" => v # u /\ ux'[v] = ux[v] /\ ux[v].asc \in Block \ {b}
      BY <1>2, <1>6, <1>8, <2>0, <2>3 DEF TendersOK, Held, Marked
    <3>2. tender.pc = "tending" => tender.e \in Block \ {b}
      BY <1>0, <1>2, <2>0 DEF TendersOK, Held, LTypes
    <3> QED BY <1>2, <1>7, <2>0, <3>1, <3>2 DEF TendersOK, Held, Live
  <2>6. ASSUME ~ torn PROVE NewOK'
    <3>1. \A v \in User \ {u} : ux[v].pc \in Young => ux[v].asc \in Block \ {b}
      BY <2>0, <2>1, <2>3, <2>6 DEF NewOK, Marked
    <3>2. \A v \in User : ux'[v].pc \in Young => ux'[v].asc \in member'
      <4>1. ux'[u].asc \in member'
        BY <1>1, <1>6, <1>8
      <4>2. \A v \in User \ {u} : ux[v].pc \in Young => ux[v].asc \in member
        BY <2>0, <2>6 DEF NewOK
      <4>3. ASSUME NEW v \in User, ux'[v].pc \in Young PROVE ux'[v].asc \in member'
        <5>1. CASE v = u
          BY <4>1, <5>1
        <5>2. CASE v # u
          BY <1>8, <1>10, <4>2, <4>3, <5>2
        <5> QED BY <5>1, <5>2
      <4> QED BY <4>3
    <3>3. \A v \in User : /\ ux'[v].pc = "ready" => blk'[ux'[v].asc].hosts = {}
                          /\ ux'[v].pc = "add" => blk'[ux'[v].asc].ready
      BY <1>4, <1>6, <1>7, <1>8, <2>0, <2>6, <3>1 DEF NewOK, Young
    <3>4. \A v, w \in User : ux'[v].pc \in Young /\ ux'[w].pc \in Young /\ v # w =>
            ux'[v].asc # ux'[w].asc
      BY <1>6, <1>8, <2>0, <2>6, <3>1 DEF NewOK
    <3>5. \A d \in Block : blk'[d].mem = "live" /\ blk'[d].hosts # {} => blk'[d].ready
      BY <1>4, <1>7, <2>0, <2>6 DEF NewOK, Live
    <3> QED BY <3>2, <3>3, <3>4, <3>5 DEF NewOK, Live
  <2> QED BY <1>2, <2>2, <2>4, <2>5, <2>6 DEF LSafe
<1> QED BY <1>2, <1>8, <1>9 DEF LInv

\* A step that frees nothing and leaves the list alone keeps the list, and those
\* who take clusters apart.
LEMMA ListKept ==
  ASSUME LTypes, LSafe, ll' = ll, member' = member,
         \A b \in Block : blk'[b].mem = blk[b].mem /\ blk'[b].freed = blk[b].freed,
         \A v \in User : ux'[v] = ux[v] \/ ux'[v].pc \notin Apart
  PROVE  Chain' /\ EndersOK'
<1>0. Chain /\ EndersOK
  BY DEF LSafe
<1>1. Chain'
  BY <1>0, Members, ChainKept
<1>2. ASSUME NEW v \in User, ux'[v].pc \in Apart
      PROVE  /\ ux'[v] = ux[v] /\ ux[v].asc \notin member' /\ blk'[ux[v].asc].mem = "live"
             /\ blk[ux[v].asc].freed => blk'[ux[v].asc].freed
  <2>1. ux'[v] = ux[v] /\ ux[v].asc \in Block
    BY <1>2, MarkedPlace DEF Marked
  <2> QED BY <1>0, <1>2, <2>1 DEF EndersOK, Live
<1> QED BY <1>0, <1>1, <1>2, EndersKept

\* One that starts and ends no tend keeps the tends.
LEMMA TendsKept ==
  ASSUME LTypes, TendersOK, tender' = tender,
         \A b \in Block : /\ blk'[b].mem = blk[b].mem /\ blk'[b].freed = blk[b].freed
                          /\ blk'[b].tending = blk[b].tending,
         \A v \in User : ux'[v] = ux[v] \/ ux'[v].pc # "tending"
  PROVE  TendersOK'
<1>1. tender'.pc = "tending" => HeldThen(tender.e)
  BY DEF LTypes, TendersOK, Held, Live, HeldThen
<1>2. ASSUME NEW v \in User, ux'[v].pc = "tending"
      PROVE  ux'[v] = ux[v] /\ HeldThen(ux[v].asc)
  <2>1. ux'[v] = ux[v] /\ ux[v].asc \in Block
    BY <1>2, MarkedPlace DEF Marked
  <2> QED BY <1>2, <2>1 DEF TendersOK, Held, Live, HeldThen
<1> QED BY <1>1, <1>2, TendersKept

\* One that makes no cluster and adds no host keeps the new clusters.
LEMMA NewStays ==
  ASSUME LTypes, NewOK, member' = member,
         \A b \in Block : /\ blk'[b].mem = blk[b].mem /\ blk'[b].hosts = blk[b].hosts
                          /\ blk'[b].ready = blk[b].ready,
         \A v \in User : ux'[v] = ux[v] \/ ux'[v].pc \notin Young
  PROVE  NewOK'
<1>1. ASSUME NEW v \in User, ux'[v].pc \in Young
      PROVE  /\ ux'[v] = ux[v] /\ ux[v].asc \in member'
             /\ blk'[ux[v].asc].hosts = blk[ux[v].asc].hosts
             /\ blk[ux[v].asc].ready => blk'[ux[v].asc].ready
  <2>1. ux'[v] = ux[v] /\ ux[v].asc \in Block
    BY <1>1, MarkedPlace DEF Marked
  <2> QED BY <1>1, <2>1 DEF NewOK
<1>2. \A b \in Block : blk'[b].mem = "live" /\ blk'[b].hosts # {} => blk'[b].ready
  BY DEF NewOK, Live
<1> QED BY <1>1, <1>2, NewKept

\* The types after a step of a thread that writes its cluster.
LEMMA ClusterStep ==
  ASSUME LTypes, NEW u \in User, NEW b \in Block, NEW c \in ClusterRecord,
         NEW r \in ThreadRecord, blk' = [blk EXCEPT ![b] = c], ux' = [ux EXCEPT ![u] = r],
         r.at = ux[u].at, ux[u].pc # "idle", r.asc = ux[u].asc, ux[u].asc = b,
         UNCHANGED <<plan, ll, handle, own, tender>>
  PROVE  /\ LTypes' /\ ux'[u] = r /\ blk'[b] = c
         /\ \A v \in User \ {u} : ux'[v] = ux[v]
         /\ \A d \in Block \ {b} : blk'[d] = blk[d]
<1>1. /\ blk' \in [Block -> ClusterRecord] /\ blk'[b] = c
      /\ \A d \in Block \ {b} : blk'[d] = blk[d]
  BY BlockWritten
<1>2. r.at >= 1 /\ r.at <= Len(plan[u])
  BY CallTypes DEF LTypes, PlaceOK, Busy
<1>3. /\ handle' \in [User -> [Slot -> Block \cup {NULL}]] /\ own' \in [User -> SUBSET Slot]
      /\ ll' \in ListRecord /\ tender' \in TenderRecord
      /\ tender'.pc \in {"at", "tending", "next"} => tender'.e \in Block
  BY DEF LTypes, Types
<1> QED BY <1>1, <1>2, <1>3, ThreadTypes

\* The last fields of a new cluster are set.
LEMMA CreateEndKeeps ==
  ASSUME LInv, NEW u \in User, CreateEnd(u)
  PROVE  LInv'
<1> DEFINE b == ux[u].asc
           c == [blk[b] EXCEPT !.ready = TRUE]
           r == [ux[u] EXCEPT !.pc = "add"]
<1>0. LTypes /\ ux[u].pc = "ready" /\ b \in Block /\ Busy(u)
  BY DEF LInv, LTypes, PlaceOK, CreateEnd, At, Making
<1>1. CASE ~ Live(b)
  <2>1. Undefined
    BY <1>1 DEF CreateEnd
  <2> QED BY <2>1, UndefinedKeeps
<1>2. CASE Live(b)
  <2>1. /\ blk' = [blk EXCEPT ![b] = c] /\ ux' = [ux EXCEPT ![u] = r]
        /\ UNCHANGED <<plan, ll, member, handle, own, tender, torn, twice>>
    BY <1>2 DEF CreateEnd, Goto, ghosts
  <2>2. blk[b] \in ClusterRecord /\ ux[u] \in ThreadRecord
    BY <1>0 DEF LTypes, Types
  <2>3. /\ c \in ClusterRecord /\ c.mem = blk[b].mem /\ c.tending = blk[b].tending
        /\ c.freed = blk[b].freed /\ c.ready /\ c.hosts = blk[b].hosts
    BY <2>2 DEF ClusterRecord
  <2>4. r \in ThreadRecord /\ r.pc = "add" /\ r.asc = b /\ r.at = ux[u].at
    BY <2>2 DEF ThreadRecord, Places, Making
  <2> HIDE DEF c, r
  <2>5. /\ LTypes' /\ ux'[u] = r /\ blk'[b] = c
        /\ \A v \in User \ {u} : ux'[v] = ux[v]
        /\ \A d \in Block \ {b} : blk'[d] = blk[d]
    BY <1>0, <2>1, <2>3, <2>4, ClusterStep
  <2>6. \A d \in Block : /\ blk'[d].mem = blk[d].mem /\ blk'[d].freed = blk[d].freed
                         /\ blk'[d].tending = blk[d].tending /\ blk'[d].hosts = blk[d].hosts
                         /\ blk[d].ready => blk'[d].ready
    BY <2>3, <2>5
  <2>7. ASSUME ~ twice PROVE LSafe'
    <3>0. LSafe /\ TendersOK /\ (~ torn => NewOK)
      BY <2>7 DEF LInv, LSafe
    <3>1. \A v \in User : ux'[v] = ux[v] \/ (v = u /\ ux'[v].pc = "add")
      BY <2>4, <2>5
    <3>2. Chain' /\ EndersOK'
      BY <1>0, <2>1, <2>6, <3>0, <3>1, ListKept DEF Apart
    <3>3. TendersOK'
      BY <1>0, <2>1, <2>6, <3>0, <3>1, TendsKept
    <3>4. ASSUME ~ torn PROVE NewOK'
      <4>0. NewOK
        BY <3>0, <3>4
      <4>1. \A v \in User : ux'[v].pc \in Young => ux[v].pc \in Young /\ ux'[v].asc = ux[v].asc
        BY <1>0, <2>4, <2>5 DEF Young
      <4>2. \A v \in User : ux'[v].pc \in Young => ux'[v].asc \in member'
        BY <2>1, <4>0, <4>1 DEF NewOK
      <4>3. ASSUME NEW v \in User
            PROVE  /\ ux'[v].pc = "ready" => blk'[ux'[v].asc].hosts = {}
                   /\ ux'[v].pc = "add" => blk'[ux'[v].asc].ready
        <5>1. CASE v = u
          BY <2>3, <2>4, <2>5, <5>1
        <5>2. CASE v # u
          BY <1>0, <2>5, <2>6, <4>0, <5>2, MarkedPlace DEF NewOK, Marked, Young
        <5> QED BY <5>1, <5>2
      <4>4. \A v, w \in User : ux'[v].pc \in Young /\ ux'[w].pc \in Young /\ v # w =>
              ux'[v].asc # ux'[w].asc
        BY <4>0, <4>1 DEF NewOK
      <4>5. \A d \in Block : blk'[d].mem = "live" /\ blk'[d].hosts # {} => blk'[d].ready
        BY <2>6, <4>0 DEF NewOK, Live
      <4> QED BY <4>2, <4>3, <4>4, <4>5 DEF NewOK, Live
    <3> QED BY <2>1, <3>2, <3>3, <3>4 DEF LSafe
  <2> QED BY <2>1, <2>5, <2>7 DEF LInv
<1> QED BY <1>1, <1>2

\* A host is added to a cluster, or not.
LEMMA AddHostKeeps ==
  ASSUME LInv, NEW u \in User, AddHost(u)
  PROVE  LInv'
<1> DEFINE b == ux[u].asc
           h == Call(u).host
           c == [blk[b] EXCEPT !.hosts = @ \cup {h}]
           r == [ux[u] EXCEPT !.pc = "tend", !.tends = MaxTends]
           q == [ux[u] EXCEPT !.pc = "added"]
<1>0. LTypes /\ ux[u].pc = "add" /\ b \in Block /\ Busy(u)
  BY DEF LInv, LTypes, PlaceOK, AddHost, At, Making
<1>1. CASE ~ Live(b)
  <2>1. Undefined
    BY <1>1 DEF AddHost
  <2> QED BY <2>1, UndefinedKeeps
<1>2. CASE Live(b)
  <2>1. /\ UNCHANGED <<plan, ll, member, handle, own, tender, torn, twice>>
        /\ \/ blk' = [blk EXCEPT ![b] = c] /\ ux' = [ux EXCEPT ![u] = r]
           \/ blk' = blk /\ ux' = [ux EXCEPT ![u] = q]
    BY <1>2 DEF AddHost, Goto, ghosts
  <2>2. blk[b] \in ClusterRecord /\ ux[u] \in ThreadRecord /\ h \in Host
    BY <1>0, CallTypes DEF LTypes, Types
  <2>3. /\ c \in ClusterRecord /\ c.mem = blk[b].mem /\ c.tending = blk[b].tending
        /\ c.freed = blk[b].freed /\ c.ready = blk[b].ready
    BY <2>2 DEF ClusterRecord
  <2>4. r \in ThreadRecord /\ r.pc = "tend" /\ r.asc = b /\ r.at = ux[u].at
    <3>1. MaxTends \in Int
      BY DEF MaxTends
    <3>2. "tend" \in Places
      BY DEF Places, Making
    <3> QED BY <2>2, <3>1, <3>2 DEF ThreadRecord
  <2>5. /\ q \in ThreadRecord /\ q.pc = "added" /\ q.asc = b /\ q.at >= 1 /\ q.at <= Len(plan[u])
    BY <1>0, GoOn DEF Places, Making
  <2>6. CASE blk' = [blk EXCEPT ![b] = c] /\ ux' = [ux EXCEPT ![u] = r]
    <3> HIDE DEF c, r, q, h
    <3>1. /\ LTypes' /\ ux'[u] = r /\ blk'[b] = c
          /\ \A v \in User \ {u} : ux'[v] = ux[v]
          /\ \A d \in Block \ {b} : blk'[d] = blk[d]
      BY <1>0, <2>1, <2>3, <2>4, <2>6, ClusterStep
    <3>2. \A d \in Block : /\ blk'[d].mem = blk[d].mem /\ blk'[d].freed = blk[d].freed
                           /\ blk'[d].tending = blk[d].tending /\ blk'[d].ready = blk[d].ready
      BY <2>3, <3>1
    <3>3. ASSUME ~ twice PROVE LSafe'
      <4>0. LSafe /\ TendersOK /\ (~ torn => NewOK)
        BY <3>3 DEF LInv, LSafe
      <4>1. \A v \in User : ux'[v] = ux[v] \/ (v = u /\ ux'[v].pc = "tend")
        BY <2>4, <3>1
      <4>2. Chain' /\ EndersOK'
        BY <1>0, <2>1, <3>2, <4>0, <4>1, ListKept DEF Apart
      <4>3. TendersOK'
        BY <1>0, <2>1, <3>2, <4>0, <4>1, TendsKept
      <4>4. ASSUME ~ torn PROVE NewOK'
        <5>0. NewOK
          BY <4>0, <4>4
        <5>1. ASSUME NEW v \in User, ux'[v].pc \in Young
              PROVE  /\ ux'[v] = ux[v] /\ ux[v].asc \in member'
                     /\ blk'[ux[v].asc].hosts = blk[ux[v].asc].hosts
                     /\ blk[ux[v].asc].ready => blk'[ux[v].asc].ready
          <6>1. v # u /\ ux'[v] = ux[v]
            BY <2>4, <3>1, <5>1 DEF Young
          <6>2. ux[v].asc \in Block \ {b}
            BY <1>0, <5>0, <5>1, <6>1, MarkedPlace DEF NewOK, Marked, Young
          <6> QED BY <2>1, <3>1, <5>0, <5>1, <6>1, <6>2 DEF NewOK
        <5>2. blk[b].ready
          BY <1>0, <5>0 DEF NewOK
        <5>3. \A d \in Block : blk'[d].mem = "live" /\ blk'[d].hosts # {} => blk'[d].ready
          BY <2>3, <3>1, <5>0, <5>2 DEF NewOK, Live
        <5> QED BY <5>0, <5>1, <5>3, NewKept
      <4> QED BY <2>1, <4>2, <4>3, <4>4 DEF LSafe
    <3> QED BY <2>1, <3>1, <3>3 DEF LInv
  <2>7. CASE blk' = blk /\ ux' = [ux EXCEPT ![u] = q]
    <3>1. /\ handle' \in [User -> [Slot -> Block \cup {NULL}]]
          /\ own' \in [User -> SUBSET Slot]
      BY <1>0, <2>1 DEF LTypes, Types
    <3>2. q.pc \notin Marked
      BY <2>5 DEF Marked, Apart, Young
    <3> HIDE DEF q
    <3> QED BY <1>0, <2>1, <2>5, <2>7, <3>1, <3>2, ThreadKeeps
  <2> QED BY <2>1, <2>6, <2>7
<1> QED BY <1>1, <1>2

-----------------------------------------------------------------------------
(* The steps that tend a cluster                                           *)

\* A thread begins to tend its cluster, unless it is tended or being freed.
LEMMA AddHostTendKeeps ==
  ASSUME LInv, NEW u \in User, AddHostTend(u)
  PROVE  LInv'
<1> DEFINE b == ux[u].asc
           c == [blk[b] EXCEPT !.tending = TRUE]
           r == [ux[u] EXCEPT !.pc = "tending", !.look = blk[b].hosts]
           p == [ux[u] EXCEPT !.pc = "added", !.ok = blk[b].nodes]
           q == [ux[u] EXCEPT !.tends = @ - 1]
<1>0. LTypes /\ ux[u].pc = "tend" /\ b \in Block /\ Busy(u)
  BY DEF LInv, LTypes, PlaceOK, AddHostTend, At, Making
<1>1. CASE ~ Live(b)
  <2>1. Undefined
    BY <1>1 DEF AddHostTend
  <2> QED BY <2>1, UndefinedKeeps
<1>2. CASE Live(b)
  <2>1. /\ UNCHANGED <<plan, ll, member, handle, own, tender, torn, twice>>
        /\ \/ /\ ~ blk[b].freed /\ ~ blk[b].tending
              /\ blk' = [blk EXCEPT ![b] = c] /\ ux' = [ux EXCEPT ![u] = r]
           \/ blk' = blk /\ ux' = [ux EXCEPT ![u] = p]
           \/ blk' = blk /\ ux' = [ux EXCEPT ![u] = q]
    BY <1>2 DEF AddHostTend, TendBegins, TendLooks, ghosts
  <2>2. blk[b] \in ClusterRecord /\ ux[u] \in ThreadRecord
    BY <1>0 DEF LTypes, Types
  <2>3. /\ c \in ClusterRecord /\ c.mem = blk[b].mem /\ c.tending
        /\ c.freed = blk[b].freed /\ c.ready = blk[b].ready /\ c.hosts = blk[b].hosts
    BY <2>2 DEF ClusterRecord
  <2>4. r \in ThreadRecord /\ r.pc = "tending" /\ r.asc = b /\ r.at = ux[u].at
    <3>1. blk[b].hosts \in SUBSET Host
      BY <2>2 DEF ClusterRecord
    <3>2. "tending" \in Places
      BY DEF Places, Making
    <3> QED BY <2>2, <3>1, <3>2 DEF ThreadRecord
  <2>5. p \in ThreadRecord /\ p.pc = "added" /\ p.asc = b /\ p.at = ux[u].at
    <3>1. blk[b].nodes \in BOOLEAN
      BY <2>2 DEF ClusterRecord
    <3>2. "added" \in Places
      BY DEF Places, Making
    <3> QED BY <2>2, <3>1, <3>2 DEF ThreadRecord
  <2>6. q \in ThreadRecord /\ q.pc = "tend" /\ q.asc = b /\ q.at = ux[u].at
    <3>1. ux[u].tends - 1 \in Int
      BY <2>2 DEF ThreadRecord
    <3> QED BY <1>0, <2>2, <3>1 DEF ThreadRecord
  <2>7. ux[u].at >= 1 /\ ux[u].at <= Len(plan[u])
    BY <1>0, CallTypes DEF Busy
  <2>8. /\ handle' \in [User -> [Slot -> Block \cup {NULL}]] /\ own' \in [User -> SUBSET Slot]
    BY <1>0, <2>1 DEF LTypes, Types
  <2>9. "added" \notin Marked /\ "tend" \notin Marked
    BY DEF Marked, Apart, Young
  <2> HIDE DEF c, r, p, q
  <2>10. CASE blk' = blk /\ ux' = [ux EXCEPT ![u] = p]
    BY <1>0, <2>1, <2>5, <2>7, <2>8, <2>9, <2>10, ThreadKeeps
  <2>11. CASE blk' = blk /\ ux' = [ux EXCEPT ![u] = q]
    BY <1>0, <2>1, <2>6, <2>7, <2>8, <2>9, <2>11, ThreadKeeps
  <2>12. CASE /\ ~ blk[b].freed /\ ~ blk[b].tending
              /\ blk' = [blk EXCEPT ![b] = c] /\ ux' = [ux EXCEPT ![u] = r]
    <3>1. /\ LTypes' /\ ux'[u] = r /\ blk'[b] = c
          /\ \A v \in User \ {u} : ux'[v] = ux[v]
          /\ \A d \in Block \ {b} : blk'[d] = blk[d]
      BY <1>0, <2>1, <2>3, <2>4, <2>12, ClusterStep
    <3>2. \A d \in Block : /\ blk'[d].mem = blk[d].mem /\ blk'[d].freed = blk[d].freed
                           /\ blk'[d].hosts = blk[d].hosts /\ blk'[d].ready = blk[d].ready
      BY <2>3, <3>1
    <3>3. ASSUME ~ twice PROVE LSafe'
      <4>0. LSafe /\ TendersOK /\ (~ torn => NewOK)
        BY <3>3 DEF LInv, LSafe
      <4>1. \A v \in User : ux'[v] = ux[v] \/ (v = u /\ ux'[v].pc = "tending")
        BY <2>4, <3>1
      <4>2. Chain' /\ EndersOK'
        BY <1>0, <2>1, <3>2, <4>0, <4>1, ListKept DEF Apart
      <4>3. TendersOK'
        <5>1. ASSUME NEW v \in User \ {u}, ux'[v].pc = "tending"
              PROVE  ux'[v] = ux[v] /\ ux[v].asc \in Block \ {b} /\ Held(ux[v].asc)
          BY <2>12, <3>1, <4>0, <5>1, <1>0, MarkedPlace DEF TendersOK, Held, Marked
        <5>2. tender.pc = "tending" => tender.e \in Block \ {b} /\ Held(tender.e)
          BY <1>0, <2>12, <4>0 DEF LTypes, TendersOK, Held
        <5>3. HeldThen(b)
          BY <1>2, <2>3, <2>12, <3>1 DEF HeldThen, Live
        <5>4. \A d \in Block \ {b} : Held(d) => HeldThen(d)
          BY <3>1 DEF Held, HeldThen, Live
        <5>5. tender'.pc = "tending" => HeldThen(tender'.e)
          BY <2>1, <5>2, <5>4
        <5>6. ASSUME NEW v \in User, ux'[v].pc = "tending"
              PROVE  HeldThen(ux'[v].asc) /\ (tender'.pc = "tending" => tender'.e # ux'[v].asc)
          <6>1. CASE v = u
            BY <2>1, <2>4, <3>1, <5>2, <5>3, <6>1
          <6>2. CASE v # u
            BY <2>1, <4>0, <5>1, <5>4, <5>6, <6>2 DEF TendersOK
          <6> QED BY <6>1, <6>2
        <5>7. ASSUME NEW v \in User, NEW w \in User, ux'[v].pc = "tending",
                     ux'[w].pc = "tending", v # w
              PROVE  ux'[v].asc # ux'[w].asc
          <6>1. CASE v = u
            BY <2>4, <3>1, <5>1, <5>7, <6>1
          <6>2. CASE w = u
            BY <2>4, <3>1, <5>1, <5>7, <6>2
          <6>3. CASE v # u /\ w # u
            BY <4>0, <5>1, <5>7, <6>3 DEF TendersOK
          <6> QED BY <6>1, <6>2, <6>3
        <5> QED BY <5>5, <5>6, <5>7 DEF TendersOK, Held, HeldThen, Live
      <4>4. ~ torn => NewOK'
        BY <1>0, <2>1, <3>2, <4>0, <4>1, NewStays DEF Young
      <4> QED BY <2>1, <4>2, <4>3, <4>4 DEF LSafe
    <3> QED BY <2>1, <3>1, <3>3 DEF LInv
  <2> QED BY <2>1, <2>10, <2>11, <2>12
<1> QED BY <1>1, <1>2

\* A thread ends its tend.
LEMMA AddHostTendedKeeps ==
  ASSUME LInv, NEW u \in User, AddHostTended(u)
  PROVE  LInv'
<1> DEFINE b == ux[u].asc
           r == [ux[u] EXCEPT !.pc = "tend", !.tends = @ - 1]
<1>0. LTypes /\ ux[u].pc = "tending" /\ b \in Block /\ Busy(u)
  BY DEF LInv, LTypes, PlaceOK, AddHostTended, At, Making
<1>1. blk[b] \in ClusterRecord /\ ux[u] \in ThreadRecord
  BY <1>0 DEF LTypes, Types
<1>2. PICK found \in BOOLEAN :
        blk' = [blk EXCEPT ![b].tending = FALSE, ![b].nodes = @ \/ found]
  BY DEF AddHostTended, TendEnds
<1> DEFINE c == [blk[b] EXCEPT !.tending = FALSE, !.nodes = @ \/ found]
<1>3. /\ blk' = [blk EXCEPT ![b] = c] /\ ux' = [ux EXCEPT ![u] = r]
      /\ UNCHANGED <<plan, ll, member, handle, own, tender, torn, twice>>
  BY <1>0, <1>1, <1>2 DEF AddHostTended, ghosts, LTypes, Types
<1>4. /\ c \in ClusterRecord /\ c.mem = blk[b].mem /\ ~ c.tending
      /\ c.freed = blk[b].freed /\ c.ready = blk[b].ready /\ c.hosts = blk[b].hosts
  BY <1>1 DEF ClusterRecord
<1>5. r \in ThreadRecord /\ r.pc = "tend" /\ r.asc = b /\ r.at = ux[u].at
  <2>1. ux[u].tends - 1 \in Int /\ "tend" \in Places
    BY <1>1 DEF ThreadRecord, Places, Making
  <2> QED BY <1>1, <2>1 DEF ThreadRecord
<1> HIDE DEF c, r
<1>6. /\ LTypes' /\ ux'[u] = r /\ blk'[b] = c
      /\ \A v \in User \ {u} : ux'[v] = ux[v]
      /\ \A d \in Block \ {b} : blk'[d] = blk[d]
  BY <1>0, <1>3, <1>4, <1>5, ClusterStep
<1>7. \A d \in Block : /\ blk'[d].mem = blk[d].mem /\ blk'[d].freed = blk[d].freed
                       /\ blk'[d].hosts = blk[d].hosts /\ blk'[d].ready = blk[d].ready
  BY <1>4, <1>6
<1>8. ASSUME ~ twice PROVE LSafe'
  <2>0. LSafe /\ TendersOK /\ (~ torn => NewOK)
    BY <1>8 DEF LInv, LSafe
  <2>1. \A v \in User : ux'[v] = ux[v] \/ (v = u /\ ux'[v].pc = "tend")
    BY <1>5, <1>6
  <2>2. Chain' /\ EndersOK'
    BY <1>0, <1>3, <1>7, <2>0, <2>1, ListKept DEF Apart
  <2>3. TendersOK'
    <3>1. tender'.pc = "tending" =>
            tender.pc = "tending" /\ tender'.e = tender.e /\ HeldThen(tender.e)
      <4>1. tender.pc = "tending" => tender.e \in Block \ {b}
        BY <1>0, <2>0 DEF LTypes, TendersOK
      <4> QED BY <1>3, <1>6, <2>0, <4>1 DEF TendersOK, Held, HeldThen, Live
    <3>2. ASSUME NEW v \in User, ux'[v].pc = "tending"
          PROVE  ux'[v] = ux[v] /\ HeldThen(ux[v].asc)
      <4>1. v # u /\ ux'[v] = ux[v]
        BY <1>5, <1>6, <3>2
      <4>2. ux[v].asc \in Block \ {b} /\ Held(ux[v].asc)
        BY <1>0, <2>0, <3>2, <4>1, MarkedPlace DEF TendersOK, Marked
      <4> QED BY <1>6, <4>1, <4>2 DEF Held, HeldThen, Live
    <3> QED BY <2>0, <3>1, <3>2, TendersKept
  <2>4. ~ torn => NewOK'
    BY <1>0, <1>3, <1>7, <2>0, <2>1, NewStays DEF Young
  <2> QED BY <1>3, <2>2, <2>3, <2>4 DEF LSafe
<1> QED BY <1>3, <1>6, <1>8 DEF LInv

\* The tender moves along the list without tending.
LEMMA TenderMoves ==
  ASSUME LInv, UNCHANGED <<plan, blk, ll, member, ux, handle, own, torn, twice>>,
         tender' \in TenderRecord, tender'.pc # "tending",
         tender'.pc \in {"at", "next"} => tender'.e \in Block
  PROVE  LInv'
<1>1. LTypes /\ blk' \in [Block -> ClusterRecord]
  BY DEF LInv, LTypes, Types
<1>2. LTypes'
  BY <1>1, TenderTypes
<1>3. ~ twice => LSafe'
  BY <1>1, QuietSafe DEF LInv, Alike
<1> QED BY <1>2, <1>3 DEF LInv

\* What the tender does when it does not tend.
LEMMA TenderWalksKeeps ==
  ASSUME LInv, TenderWakes \/ TenderNext
  PROVE  LInv'
<1>0. LTypes /\ tender \in TenderRecord /\ ll \in ListRecord
  BY DEF LInv, LTypes
<1>1. CASE TenderWakes
  <2>1. /\ tender' = [tender EXCEPT !.pc = "at", !.e = ll.head] /\ ll.head \in Block
        /\ UNCHANGED <<plan, blk, ll, member, ux, handle, own, torn, twice>>
    BY <1>0, <1>1, ListFields DEF TenderWakes, ghosts
  <2>2. tender' \in TenderRecord /\ tender'.pc = "at" /\ tender'.e \in Block
    BY <1>0, <2>1 DEF TenderRecord
  <2> QED BY <2>1, <2>2, TenderMoves
<1>2. CASE TenderNext
  <2> DEFINE e == ll.next[tender.e]
             p == IF e = NULL THEN "sleep" ELSE "at"
  <2>1. CASE ~ Live(tender.e)
    <3>1. Undefined
      BY <1>2, <2>1 DEF TenderNext
    <3> QED BY <3>1, UndefinedKeeps
  <2>2. CASE Live(tender.e)
    <3>1. /\ tender' = [tender EXCEPT !.e = e, !.pc = p]
          /\ UNCHANGED <<plan, blk, ll, member, ux, handle, own, torn, twice>>
      BY <1>2, <2>2 DEF TenderNext, ghosts
    <3>2. tender.e \in Block
      BY <1>0, <1>2 DEF TenderNext, TenderAt, LTypes
    <3>3. e \in Block \cup {NULL}
      BY <1>0, <3>2, ListFields
    <3> HIDE DEF e
    <3>4. /\ tender' \in TenderRecord /\ tender'.pc \in {"sleep", "at"}
          /\ tender'.pc = "at" => tender'.e \in Block
      BY <1>0, <3>1, <3>3 DEF TenderRecord
    <3> HIDE DEF p
    <3> QED BY <3>1, <3>4, TenderMoves
  <2> QED BY <2>1, <2>2
<1> QED BY <1>1, <1>2

\* The tender begins to tend a cluster, or passes it by.
LEMMA TenderTendsKeeps ==
  ASSUME LInv, TenderTends \/ TenderPasses
  PROVE  LInv'
<1> DEFINE b == tender.e
           c == [blk[b] EXCEPT !.tending = TRUE]
           r == [tender EXCEPT !.pc = "tending", !.look = blk[b].hosts]
<1>0. LTypes /\ tender \in TenderRecord /\ tender.pc = "at" /\ b \in Block
  BY DEF LInv, LTypes, TenderTends, TenderPasses, TenderAt
<1>1. CASE ~ Live(b)
  <2>1. Undefined
    BY <1>1 DEF TenderTends, TenderPasses
  <2> QED BY <2>1, UndefinedKeeps
<1>2. CASE Live(b)
  <2>1. /\ UNCHANGED <<plan, ll, member, ux, handle, own, torn, twice>>
        /\ \/ /\ ~ blk[b].freed /\ ~ blk[b].tending
              /\ blk' = [blk EXCEPT ![b] = c] /\ tender' = r
           \/ blk' = blk /\ tender' = [tender EXCEPT !.pc = "next"]
    BY <1>2 DEF TenderTends, TenderPasses, TendBegins, TendLooks, ghosts
  <2>2. blk[b] \in ClusterRecord /\ blk \in [Block -> ClusterRecord]
    BY <1>0 DEF LTypes, Types
  <2>3. /\ c \in ClusterRecord /\ c.mem = blk[b].mem /\ c.tending
        /\ c.freed = blk[b].freed /\ c.ready = blk[b].ready /\ c.hosts = blk[b].hosts
    BY <2>2 DEF ClusterRecord
  <2>4. r \in TenderRecord /\ r.pc = "tending" /\ r.e = b
    <3>1. blk[b].hosts \in SUBSET Host
      BY <2>2 DEF ClusterRecord
    <3> QED BY <1>0, <3>1 DEF TenderRecord
  <2>5. CASE blk' = blk /\ tender' = [tender EXCEPT !.pc = "next"]
    <3>1. tender' \in TenderRecord /\ tender'.pc = "next" /\ tender'.e = b
      BY <1>0, <2>5 DEF TenderRecord
    <3> QED BY <1>0, <2>1, <2>5, <3>1, TenderMoves
  <2> HIDE DEF c, r
  <2>6. CASE /\ ~ blk[b].freed /\ ~ blk[b].tending
             /\ blk' = [blk EXCEPT ![b] = c] /\ tender' = r
    <3>1. /\ blk' \in [Block -> ClusterRecord] /\ blk'[b] = c
          /\ \A d \in Block \ {b} : blk'[d] = blk[d]
      BY <1>0, <2>3, <2>6, BlockWritten
    <3>2. LTypes'
      BY <1>0, <2>1, <2>4, <2>6, <3>1, TenderTypes
    <3>3. \A d \in Block : /\ blk'[d].mem = blk[d].mem /\ blk'[d].freed = blk[d].freed
                           /\ blk'[d].hosts = blk[d].hosts /\ blk'[d].ready = blk[d].ready
      BY <2>3, <3>1
    <3>4. ASSUME ~ twice PROVE LSafe'
      <4>0. LSafe /\ TendersOK /\ (~ torn => NewOK)
        BY <3>4 DEF LInv, LSafe
      <4>1. Chain' /\ EndersOK'
        BY <1>0, <2>1, <3>3, <4>0, ListKept
      <4>2. TendersOK'
        <5>1. ASSUME NEW v \in User, ux[v].pc = "tending"
              PROVE  ux[v].asc \in Block \ {b} /\ HeldThen(ux[v].asc)
          <6>1. ux[v].asc \in Block \ {b} /\ Held(ux[v].asc)
            BY <1>0, <2>6, <4>0, <5>1, MarkedPlace DEF TendersOK, Held, Marked
          <6> QED BY <3>1, <6>1 DEF Held, HeldThen, Live
        <5>2. HeldThen(b) /\ tender'.e = b
          BY <1>2, <2>3, <2>4, <2>6, <3>1 DEF HeldThen, Live
        <5>3. \A v, w \in User : ux'[v].pc = "tending" /\ ux'[w].pc = "tending" /\ v # w =>
                ux'[v].asc # ux'[w].asc
          BY <2>1, <4>0 DEF TendersOK
        <5> QED BY <2>1, <5>1, <5>2, <5>3 DEF TendersOK, Held, HeldThen, Live
      <4>3. ~ torn => NewOK'
        BY <1>0, <2>1, <3>3, <4>0, NewStays
      <4> QED BY <2>1, <4>1, <4>2, <4>3 DEF LSafe
    <3> QED BY <2>1, <3>2, <3>4 DEF LInv
  <2> QED BY <2>1, <2>5, <2>6
<1> QED BY <1>1, <1>2

\* The tender ends its tend.
LEMMA TenderTendedKeeps ==
  ASSUME LInv, TenderTended
  PROVE  LInv'
<1> DEFINE b == tender.e
<1>0. LTypes /\ tender \in TenderRecord /\ tender.pc = "tending" /\ b \in Block
  BY DEF LInv, LTypes, TenderTended, TenderAt
<1>1. blk[b] \in ClusterRecord
  BY <1>0 DEF LTypes, Types
<1>2. PICK found \in BOOLEAN :
        blk' = [blk EXCEPT ![b].tending = FALSE, ![b].nodes = @ \/ found]
  BY DEF TenderTended, TendEnds
<1> DEFINE c == [blk[b] EXCEPT !.tending = FALSE, !.nodes = @ \/ found]
<1>3. /\ blk' = [blk EXCEPT ![b] = c] /\ tender' = [tender EXCEPT !.pc = "next", !.look = {}]
      /\ UNCHANGED <<plan, ll, member, ux, handle, own, torn, twice>>
  BY <1>0, <1>1, <1>2 DEF TenderTended, ghosts, LTypes, Types
<1>4. /\ c \in ClusterRecord /\ c.mem = blk[b].mem
      /\ c.freed = blk[b].freed /\ c.ready = blk[b].ready /\ c.hosts = blk[b].hosts
  BY <1>1 DEF ClusterRecord
<1>5. tender' \in TenderRecord /\ tender'.pc = "next" /\ tender'.e = b
  BY <1>0, <1>3 DEF TenderRecord
<1> HIDE DEF c
<1>6. /\ blk' \in [Block -> ClusterRecord] /\ blk'[b] = c
      /\ \A d \in Block \ {b} : blk'[d] = blk[d]
  BY <1>0, <1>3, <1>4, BlockWritten
<1>7. LTypes'
  BY <1>0, <1>3, <1>5, <1>6, TenderTypes
<1>8. \A d \in Block : /\ blk'[d].mem = blk[d].mem /\ blk'[d].freed = blk[d].freed
                       /\ blk'[d].hosts = blk[d].hosts /\ blk'[d].ready = blk[d].ready
  BY <1>4, <1>6
<1>9. ASSUME ~ twice PROVE LSafe'
  <2>0. LSafe /\ TendersOK /\ (~ torn => NewOK)
    BY <1>9 DEF LInv, LSafe
  <2>1. Chain' /\ EndersOK'
    BY <1>0, <1>3, <1>8, <2>0, ListKept
  <2>2. TendersOK'
    <3>1. ASSUME NEW v \in User, ux'[v].pc = "tending"
          PROVE  ux'[v] = ux[v] /\ HeldThen(ux[v].asc)
      <4>1. ux[v].asc \in Block \ {b} /\ Held(ux[v].asc)
        BY <1>0, <1>3, <2>0, <3>1, MarkedPlace DEF TendersOK, Marked
      <4> QED BY <1>3, <1>6, <4>1 DEF Held, HeldThen, Live
    <3> QED BY <1>5, <2>0, <3>1, TendersKept
  <2>3. ~ torn => NewOK'
    BY <1>0, <1>3, <1>8, <2>0, NewStays
  <2> QED BY <1>3, <2>1, <2>2, <2>3 DEF LSafe
<1> QED BY <1>3, <1>7, <1>9 DEF LInv

-----------------------------------------------------------------------------
(* The steps that take a cluster apart                                     *)

\* A cluster is taken out of the list.
LEMMA UnlinkKeeps ==
  ASSUME LInv, NEW u \in User, Unlink(u)
  PROVE  LInv'
<1> DEFINE b == ux[u].asc
           r == [ux[u] EXCEPT !.pc = "free"]
<1>0. LTypes /\ ux[u].pc = "destroy" /\ b \in Block /\ Busy(u)
  BY DEF LInv, LTypes, PlaceOK, Unlink, At, Ending
<1>1. CASE ~ Live(b) \/ LL!DeleteFaults(ll, b)
  <2>1. Undefined
    BY <1>1 DEF Unlink
  <2> QED BY <2>1, UndefinedKeeps
<1>2. CASE Live(b) /\ ~ LL!DeleteFaults(ll, b)
  <2>1. /\ ux' = [ux EXCEPT ![u] = r] /\ UNCHANGED <<plan, blk, handle, own, tender>>
        /\ ll' = LL!cf_ll_delete(ll, b)
    BY <1>2 DEF Unlink, Goto
  <2>2. member' = member \ {b}
    BY <1>2 DEF Unlink
  <2>3. twice' = (twice \/ b \notin member)
    BY <1>2 DEF Unlink
  <2>4. torn' = (torn \/ \E v \in User : ux[v].pc \in {"ready", "add"} /\ ux[v].asc = b)
    BY <1>2 DEF Unlink
  <2>5. r \in ThreadRecord /\ r.pc = "free" /\ r.asc = b /\ r.at = ux[u].at
        /\ r.at >= 1 /\ r.at <= Len(plan[u])
    BY <1>0, GoOn DEF Places, Ending
  <2>6. /\ blk' \in [Block -> ClusterRecord] /\ tender' \in TenderRecord
        /\ tender'.pc \in {"at", "tending", "next"} => tender'.e \in Block
        /\ handle' \in [User -> [Slot -> Block \cup {NULL}]] /\ own' \in [User -> SUBSET Slot]
    BY <1>0, <2>1 DEF LTypes, Types
  <2>7. ll' \in ListRecord
    BY <1>0, <2>1, DeleteFields DEF LTypes
  <2> HIDE DEF r
  <2>8. /\ LTypes' /\ ux'[u] = r /\ \A v \in User \ {u} : ux'[v] = ux[v]
    BY <1>0, <2>1, <2>5, <2>6, <2>7, ThreadTypes
  <2>9. \A d \in Block : blk'[d] = blk[d]
    BY <2>1
  <2>10. ASSUME ~ twice' PROVE LSafe'
    <3>0. ~ twice /\ b \in member
      BY <2>3, <2>10
    <3>1. Chain /\ EndersOK /\ TendersOK /\ (~ torn => NewOK)
      BY <3>0 DEF LInv, LSafe
    <3>2. Chain'
      <4>1. PICK s \in Seq(Block) : Linked(ll, s) /\ ToSet(s) = member
        BY <3>1 DEF Chain
      <4>2. \E t \in Seq(Block) : Linked(ll', t) /\ ToSet(t) = member'
        BY <1>0, <2>1, <2>2, <3>0, <4>1, DeleteLinked DEF LTypes
      <4>3. \A d \in member' : blk'[d].mem = "live"
        BY <2>1, <2>2, <3>1 DEF Chain, Live
      <4> QED BY <4>2, <4>3 DEF Chain, Live
    <3>3. EndersOK'
      <4>1. ASSUME NEW v \in User, v # u, ux'[v].pc \in Apart
            PROVE  /\ ux'[v] = ux[v] /\ ux[v].asc \notin member /\ ux[v].asc # b
                   /\ blk[ux[v].asc].mem = "live"
                   /\ ux'[v].pc = "freeing" => blk[ux[v].asc].freed
        BY <2>8, <3>0, <3>1, <4>1 DEF EndersOK, Live
      <4>2. ASSUME NEW v \in User, ux'[v].pc \in Apart
            PROVE  /\ ux'[v].asc \notin member' /\ blk'[ux'[v].asc].mem = "live"
                   /\ ux'[v].pc = "freeing" => blk'[ux'[v].asc].freed
        <5>1. CASE v = u
          BY <1>2, <2>1, <2>2, <2>5, <2>8, <5>1 DEF Live
        <5>2. CASE v # u
          BY <2>1, <2>2, <4>1, <4>2, <5>2
        <5> QED BY <5>1, <5>2
      <4>3. ASSUME NEW v \in User, NEW w \in User, ux'[v].pc \in Apart,
                   ux'[w].pc \in Apart, v # w
            PROVE  ux'[v].asc # ux'[w].asc
        <5>1. CASE v = u
          BY <2>5, <2>8, <4>1, <4>3, <5>1
        <5>2. CASE w = u
          BY <2>5, <2>8, <4>1, <4>3, <5>2
        <5>3. CASE v # u /\ w # u
          BY <3>1, <4>1, <4>3, <5>3 DEF EndersOK
        <5> QED BY <5>1, <5>2, <5>3
      <4>4. \A v \in User : ux'[v].pc = "freeing" => blk'[ux'[v].asc].freed
        BY <4>2 DEF Apart
      <4> QED BY <4>2, <4>3, <4>4 DEF EndersOK, Live
    <3>4. TendersOK'
      <4>1. \A v \in User : ux'[v] = ux[v] \/ ux'[v].pc # "tending"
        BY <2>5, <2>8
      <4> QED BY <1>0, <2>1, <2>9, <3>1, <4>1, TendsKept
    <3>5. ASSUME ~ torn' PROVE NewOK'
      <4>0. NewOK /\ \A v \in User : ux[v].pc \in Young => ux[v].asc # b
        BY <2>4, <3>1, <3>5 DEF Young
      <4>1. ASSUME NEW v \in User, ux'[v].pc \in Young
            PROVE  /\ ux'[v] = ux[v] /\ ux[v].asc \in member'
                   /\ blk'[ux[v].asc].hosts = blk[ux[v].asc].hosts
                   /\ blk[ux[v].asc].ready => blk'[ux[v].asc].ready
        <5>1. ux'[v] = ux[v]
          BY <2>5, <2>8, <4>1 DEF Young
        <5> QED BY <2>1, <2>2, <4>0, <4>1, <5>1 DEF NewOK
      <4>2. \A d \in Block : blk'[d].mem = "live" /\ blk'[d].hosts # {} => blk'[d].ready
        BY <2>9, <4>0 DEF NewOK, Live
      <4> QED BY <4>0, <4>1, <4>2, NewKept
    <3> QED BY <3>2, <3>3, <3>4, <3>5 DEF LSafe
  <2> QED BY <2>8, <2>10 DEF LInv
<1> QED BY <1>1, <1>2

\* A cluster is marked, so that nobody tends it any more.
LEMMA MarkFreedKeeps ==
  ASSUME LInv, NEW u \in User, MarkFreed(u)
  PROVE  LInv'
<1> DEFINE b == ux[u].asc
           c == [blk[b] EXCEPT !.freed = TRUE]
           r == [ux[u] EXCEPT !.pc = "freeing"]
<1>0. LTypes /\ ux[u].pc = "free" /\ b \in Block /\ Busy(u)
  BY DEF LInv, LTypes, PlaceOK, MarkFreed, At, Ending
<1>1. CASE ~ Live(b)
  <2>1. Undefined
    BY <1>1 DEF MarkFreed
  <2> QED BY <2>1, UndefinedKeeps
<1>2. CASE Live(b)
  <2>1. /\ blk' = [blk EXCEPT ![b] = c] /\ ux' = [ux EXCEPT ![u] = r] /\ ~ blk[b].tending
        /\ UNCHANGED <<plan, ll, member, handle, own, tender, torn, twice>>
    BY <1>2 DEF MarkFreed, Destroyable, Goto, ghosts
  <2>2. blk[b] \in ClusterRecord
    BY <1>0 DEF LTypes, Types
  <2>3. /\ c \in ClusterRecord /\ c.mem = blk[b].mem /\ c.tending = blk[b].tending
        /\ c.freed /\ c.ready = blk[b].ready /\ c.hosts = blk[b].hosts
    BY <2>2 DEF ClusterRecord
  <2>4. r \in ThreadRecord /\ r.pc = "freeing" /\ r.asc = b /\ r.at = ux[u].at
    BY <1>0, GoOn DEF Places, Ending
  <2> HIDE DEF c, r
  <2>5. /\ LTypes' /\ ux'[u] = r /\ blk'[b] = c
        /\ \A v \in User \ {u} : ux'[v] = ux[v]
        /\ \A d \in Block \ {b} : blk'[d] = blk[d]
    BY <1>0, <2>1, <2>3, <2>4, ClusterStep
  <2>6. \A d \in Block : /\ blk'[d].mem = blk[d].mem /\ blk'[d].tending = blk[d].tending
                         /\ blk'[d].hosts = blk[d].hosts /\ blk'[d].ready = blk[d].ready
                         /\ blk[d].freed => blk'[d].freed
    BY <2>3, <2>5
  <2>7. ASSUME ~ twice PROVE LSafe'
    <3>0. Chain /\ EndersOK /\ TendersOK /\ (~ torn => NewOK)
      BY <2>7 DEF LInv, LSafe
    <3>1. \A v \in User : ux'[v] = ux[v] \/ (v = u /\ ux'[v].pc = "freeing")
      BY <2>4, <2>5
    <3>2. Chain'
      BY <2>1, <2>6, <3>0, Members, ChainKept
    <3>3. EndersOK'
      <4>1. \A v \in User : ux'[v].pc \in Apart =>
              ux[v].pc \in Apart /\ ux'[v].asc = ux[v].asc /\ ux[v].asc \in Block
        BY <1>0, <2>4, <2>5, MarkedPlace DEF Apart, Marked
      <4>2. \A v \in User : ux'[v].pc \in Apart =>
              ux'[v].asc \notin member' /\ blk'[ux'[v].asc].mem = "live"
        BY <2>1, <2>6, <3>0, <4>1 DEF EndersOK, Live
      <4>3. ASSUME NEW v \in User, ux'[v].pc = "freeing"
            PROVE  blk'[ux'[v].asc].freed
        <5>1. CASE v = u
          BY <2>3, <2>4, <2>5, <5>1
        <5>2. CASE v # u
          <6>1. ux'[v] = ux[v] /\ ux[v].asc \in Block
            BY <2>5, <4>1, <4>3, <5>2 DEF Apart
          <6> QED BY <2>6, <3>0, <4>3, <6>1 DEF EndersOK
        <5> QED BY <5>1, <5>2
      <4>4. \A v, w \in User : ux'[v].pc \in Apart /\ ux'[w].pc \in Apart /\ v # w =>
              ux'[v].asc # ux'[w].asc
        BY <3>0, <4>1 DEF EndersOK
      <4> QED BY <4>2, <4>3, <4>4 DEF EndersOK, Live
    <3>4. TendersOK'
      <4>1. tender'.pc = "tending" =>
              tender.pc = "tending" /\ tender'.e = tender.e /\ HeldThen(tender.e)
        <5>1. tender.pc = "tending" => tender.e \in Block \ {b}
          BY <1>0, <2>1, <3>0 DEF LTypes, TendersOK, Held
        <5> QED BY <2>1, <2>5, <3>0, <5>1 DEF TendersOK, Held, HeldThen, Live
      <4>2. ASSUME NEW v \in User, ux'[v].pc = "tending"
            PROVE  ux'[v] = ux[v] /\ HeldThen(ux[v].asc)
        <5>1. ux'[v] = ux[v]
          BY <3>1, <4>2
        <5>2. ux[v].asc \in Block \ {b} /\ Held(ux[v].asc)
          BY <1>0, <2>1, <3>0, <4>2, <5>1, MarkedPlace DEF TendersOK, Held, Marked
        <5> QED BY <2>5, <5>1, <5>2 DEF Held, HeldThen, Live
      <4> QED BY <3>0, <4>1, <4>2, TendersKept
    <3>5. ~ torn => NewOK'
      BY <1>0, <2>1, <2>6, <3>0, <3>1, NewStays DEF Young
    <3> QED BY <2>1, <3>2, <3>3, <3>4, <3>5 DEF LSafe
  <2> QED BY <2>1, <2>5, <2>7 DEF LInv
<1> QED BY <1>1, <1>2

\* The pointers of a block that is freed are forgotten.
LEMMA ForgetType ==
  ASSUME NEW L \in ListRecord, NEW b \in Block
  PROVE  [L EXCEPT !.next[b] = NULL, !.prev[b] = NULL] \in ListRecord
<1> DEFINE f == [L.next EXCEPT ![b] = NULL]
           g == [L.prev EXCEPT ![b] = NULL]
           M == [L EXCEPT !.next = f, !.prev = g]
<1>1. [L EXCEPT !.next[b] = NULL, !.prev[b] = NULL] = M
  OBVIOUS
<1>2. f \in [Block -> Block \cup {NULL}] /\ g \in [Block -> Block \cup {NULL}]
  BY ListFields, LinkTo
<1> HIDE DEF f, g
<1>3. M \in ListRecord
  BY <1>2 DEF ListRecord
<1> QED BY <1>1, <1>3

\* A cluster is freed.
LEMMA FreeKeeps ==
  ASSUME LInv, NEW u \in User, Free(u)
  PROVE  LInv'
<1> DEFINE b == ux[u].asc
           s == Call(u).slot
           c == [Blank EXCEPT !.mem = "freed"]
           r == [ux[u] EXCEPT !.pc = "idle"]
           q == Idle(ux[u].at + 1)
<1>0. LTypes /\ ux[u].pc = "freeing" /\ b \in Block /\ Busy(u) /\ s \in Slot
  <2>1. LTypes /\ ux[u].pc = "freeing" /\ b \in Block /\ Busy(u)
    BY DEF LInv, LTypes, PlaceOK, Free, At, Ending
  <2> QED BY <2>1, CallTypes
<1>1. CASE ~ Live(b)
  <2>1. Undefined
    BY <1>1 DEF Free
  <2> QED BY <2>1, UndefinedKeeps
<1>2. CASE Live(b)
  <2>1. /\ UNCHANGED <<plan, member, own, tender, torn, twice>>
        /\ ll' = [ll EXCEPT !.next[b] = NULL, !.prev[b] = NULL]
        /\ blk' = [blk EXCEPT ![b] = c]
    BY <1>2 DEF Free, ghosts
  <2>2. /\ ux' = [ux EXCEPT ![u] = r] \/ ux' = [ux EXCEPT ![u] = q]
        /\ handle' = handle \/ handle' = [handle EXCEPT ![u][s] = NULL]
    BY <1>2 DEF Free, Goto, Nothing, Return
  <2>3. c \in ClusterRecord /\ c.mem = "freed"
    BY DEF ClusterRecord, Blank
  <2>4. r \in ThreadRecord /\ r.pc = "idle" /\ r.at >= 1
    BY <1>0, GoOn DEF Places
  <2>5. q \in ThreadRecord /\ q.pc = "idle" /\ q.at >= 1
    BY <1>0, ReturnPlace
  <2> HIDE DEF c, r, q, s
  <2>6. /\ blk' \in [Block -> ClusterRecord] /\ blk'[b] = c
        /\ \A d \in Block \ {b} : blk'[d] = blk[d]
    BY <1>0, <2>1, <2>3, BlockWritten
  <2>7. /\ handle' \in [User -> [Slot -> Block \cup {NULL}]] /\ own' \in [User -> SUBSET Slot]
        /\ tender' \in TenderRecord
        /\ tender'.pc \in {"at", "tending", "next"} => tender'.e \in Block
    <3>1. handle \in [User -> [Slot -> Block \cup {NULL}]]
      BY <1>0 DEF LTypes, Types
    <3>2. [handle EXCEPT ![u][s] = NULL] \in [User -> [Slot -> Block \cup {NULL}]]
      BY <1>0, SlotsWritten
    <3>3. /\ own' \in [User -> SUBSET Slot] /\ tender' \in TenderRecord
          /\ tender'.pc \in {"at", "tending", "next"} => tender'.e \in Block
      BY <1>0, <2>1 DEF LTypes, Types
    <3> QED BY <2>2, <3>1, <3>2, <3>3
  <2>8. ll' \in ListRecord
    BY <1>0, <2>1, ForgetType DEF LTypes
  <2>9. /\ LTypes' /\ ux'[u].pc = "idle" /\ \A v \in User \ {u} : ux'[v] = ux[v]
    <3>1. "idle" \notin Making \cup Ending \cup {"release"}
      BY DEF Making, Ending
    <3>2. CASE ux' = [ux EXCEPT ![u] = r]
      <4>1. /\ r.pc # "idle" => r.at <= Len(plan[u])
            /\ r.pc \in Making \cup Ending \cup {"release"} => r.asc \in Block
        BY <2>4, <3>1
      <4>2. plan' = plan /\ r \in ThreadRecord /\ r.at >= 1
        BY <2>1, <2>4
      <4>3. /\ LTypes' /\ ux'[u] = r /\ \A v \in User \ {u} : ux'[v] = ux[v]
        BY <1>0, <2>6, <2>7, <2>8, <3>2, <4>1, <4>2, ThreadTypes
      <4> QED BY <2>4, <4>3
    <3>3. CASE ux' = [ux EXCEPT ![u] = q]
      <4>1. /\ q.pc # "idle" => q.at <= Len(plan[u])
            /\ q.pc \in Making \cup Ending \cup {"release"} => q.asc \in Block
        BY <2>5, <3>1
      <4>2. plan' = plan /\ q \in ThreadRecord /\ q.at >= 1
        BY <2>1, <2>5
      <4>3. /\ LTypes' /\ ux'[u] = q /\ \A v \in User \ {u} : ux'[v] = ux[v]
        BY <1>0, <2>6, <2>7, <2>8, <3>3, <4>1, <4>2, ThreadTypes
      <4> QED BY <2>5, <4>3
    <3> QED BY <2>2, <3>2, <3>3
  <2>10. ASSUME ~ twice PROVE LSafe'
    <3>0. Chain /\ EndersOK /\ TendersOK /\ (~ torn => NewOK)
      BY <2>10 DEF LInv, LSafe
    <3>1. b \notin member /\ blk[b].freed
      BY <1>0, <3>0 DEF EndersOK, Apart
    <3>2. \A v \in User : ux'[v].pc \in Marked => v # u /\ ux'[v] = ux[v] /\ ux[v].asc \in Block
      BY <1>0, <2>9, MarkedPlace DEF Marked, Apart, Young
    <3>3. Chain'
      <4>1. PICK t \in Seq(Block) : Linked(ll, t) /\ ToSet(t) = member
        BY <3>0 DEF Chain
      <4>2. Linked(ll', t) /\ ToSet(t) = member'
        BY <1>0, <2>1, <3>1, <4>1, ForgetLinked DEF LTypes
      <4>3. \A d \in member' : blk'[d].mem = "live"
        BY <2>1, <2>6, <3>0, <3>1, Members DEF Chain, Live
      <4> QED BY <4>2, <4>3 DEF Chain, Live
    <3>4. EndersOK'
      <4>1. ASSUME NEW v \in User, ux'[v].pc \in Apart
            PROVE  /\ ux'[v] = ux[v] /\ ux[v].asc \notin member' /\ blk'[ux[v].asc].mem = "live"
                   /\ blk[ux[v].asc].freed => blk'[ux[v].asc].freed
        <5>1. ux'[v] = ux[v] /\ ux[v].asc \in Block \ {b}
          BY <1>0, <3>0, <3>2, <4>1 DEF EndersOK, Marked, Apart
        <5> QED BY <2>1, <2>6, <3>0, <4>1, <5>1 DEF EndersOK, Live
      <4> QED BY <3>0, <4>1, EndersKept
    <3>5. TendersOK'
      <4>1. tender'.pc = "tending" =>
              tender.pc = "tending" /\ tender'.e = tender.e /\ HeldThen(tender.e)
        <5>1. tender.pc = "tending" => tender.e \in Block \ {b}
          BY <1>0, <3>0, <3>1 DEF LTypes, TendersOK, Held
        <5> QED BY <2>1, <2>6, <3>0, <5>1 DEF TendersOK, Held, HeldThen, Live
      <4>2. ASSUME NEW v \in User, ux'[v].pc = "tending"
            PROVE  ux'[v] = ux[v] /\ HeldThen(ux[v].asc)
        <5>1. ux'[v] = ux[v] /\ ux[v].asc \in Block
          BY <3>2, <4>2 DEF Marked
        <5>2. ux[v].asc # b /\ Held(ux[v].asc)
          BY <3>0, <3>1, <4>2, <5>1 DEF TendersOK, Held
        <5> QED BY <2>6, <5>1, <5>2 DEF Held, HeldThen, Live
      <4> QED BY <3>0, <4>1, <4>2, TendersKept
    <3>6. ASSUME ~ torn PROVE NewOK'
      <4>0. NewOK
        BY <3>0, <3>6
      <4>1. ASSUME NEW v \in User, ux'[v].pc \in Young
            PROVE  /\ ux'[v] = ux[v] /\ ux[v].asc \in member'
                   /\ blk'[ux[v].asc].hosts = blk[ux[v].asc].hosts
                   /\ blk[ux[v].asc].ready => blk'[ux[v].asc].ready
        <5>1. ux'[v] = ux[v] /\ ux[v].asc \in Block /\ ux[v].asc \in member
          BY <3>2, <4>0, <4>1 DEF Marked, NewOK
        <5>2. blk'[ux[v].asc] = blk[ux[v].asc]
          BY <2>6, <3>1, <5>1
        <5> QED BY <2>1, <5>1, <5>2
      <4>2. \A d \in Block : blk'[d].mem = "live" /\ blk'[d].hosts # {} => blk'[d].ready
        BY <2>3, <2>6, <4>0 DEF NewOK, Live
      <4> QED BY <4>0, <4>1, <4>2, NewKept
    <3> QED BY <2>1, <3>3, <3>4, <3>5, <3>6 DEF LSafe
  <2> QED BY <2>1, <2>9, <2>10 DEF LInv
<1> QED BY <1>1, <1>2

-----------------------------------------------------------------------------
(* The cluster list is sound                                               *)

\* It holds of an empty list.
LEMMA InitKeeps ==
  ASSUME Init
  PROVE  LInv
<1>1. /\ plan \in Plans /\ ux = [u \in User |-> Idle(1)] /\ blk = [b \in Block |-> Blank]
      /\ handle = [u \in User |-> [s \in Slot |-> NULL]] /\ own = [u \in User |-> {}]
      /\ tender = [pc |-> "sleep", e |-> NULL, look |-> {}] /\ member = {}
  BY DEF Init
<1>2. ll \in ListRecord /\ ll.sz = 0 /\ ll.head = NULL /\ ll.tail = NULL
  BY DEF Init, LL!cf_ll_init, ListRecord
<1>3. Blank \in ClusterRecord /\ Blank.mem = "fresh" /\ Idle(1) \in ThreadRecord
  BY IdleType DEF Blank, ClusterRecord
<1>4. Types
  BY <1>1, <1>3 DEF Types
<1>5. \A u \in User : PlaceOK(u) /\ ux[u].pc = "idle"
  BY <1>1 DEF PlaceOK, Idle, Making, Ending
<1>6. LTypes
  BY <1>1, <1>2, <1>4, <1>5 DEF LTypes, TenderRecord
<1>7. Chain
  <2>1. <<>> \in Seq(Block) /\ ToSet(<<>>) = {} /\ Len(<<>>) = 0
    BY DEF ToSet
  <2>2. Linked(ll, <<>>)
    BY <1>2, <2>1 DEF Linked
  <2> QED BY <1>1, <2>1, <2>2 DEF Chain
<1>8. EndersOK /\ TendersOK /\ NewOK
  <2>1. \A b \in Block : ~ Live(b)
    BY <1>1, <1>3 DEF Live
  <2> QED BY <1>1, <1>5, <2>1 DEF EndersOK, TendersOK, NewOK, Apart, Young
<1> QED BY <1>6, <1>7, <1>8 DEF LInv, LSafe

\* It holds after every step.
LEMMA NextKeeps ==
  ASSUME LInv, [Next]_vars
  PROVE  LInv'
<1>1. ASSUME NEW u \in User, Thread(u) PROVE LInv'
  <2>1. CASE Get(u)
    BY <2>1, GetKeeps
  <2>2. CASE citrusleaf_cluster_create(u)
    BY <2>2, CreateKeeps
  <2>3. CASE CreateEnd(u)
    BY <2>3, CreateEndKeeps
  <2>4. CASE AddHost(u)
    BY <2>4, AddHostKeeps
  <2>5. CASE AddHostTend(u)
    BY <2>5, AddHostTendKeeps
  <2>6. CASE AddHostTended(u)
    BY <2>6, AddHostTendedKeeps
  <2>7. CASE AddHostReturns(u)
    BY <2>7, AddHostReturnsKeeps
  <2>8. CASE Close(u)
    BY <2>8, CloseKeeps
  <2>9. CASE Release(u)
    BY <2>9, ReleaseKeeps
  <2>10. CASE Unlink(u)
    BY <2>10, UnlinkKeeps
  <2>11. CASE MarkFreed(u)
    BY <2>11, MarkFreedKeeps
  <2>12. CASE Free(u)
    BY <2>12, FreeKeeps
  <2>13. CASE Shutdown(u) \/ ShutdownJoin(u)
    BY <2>13, ShutdownKeeps
  <2> QED BY <1>1, <2>1, <2>2, <2>3, <2>4, <2>5, <2>6, <2>7, <2>8, <2>9, <2>10, <2>11,
             <2>12, <2>13 DEF Thread
<1>2. CASE TenderWakes \/ TenderNext
  BY <1>2, TenderWalksKeeps
<1>3. CASE TenderTends \/ TenderPasses
  BY <1>3, TenderTendsKeeps
<1>4. CASE TenderTended
  BY <1>4, TenderTendedKeeps
<1>5. CASE UNCHANGED vars
  <2>1. UNCHANGED <<plan, blk, ll, member, ux, handle, own, tender, twice, torn>>
    BY <1>5 DEF vars
  <2>2. LTypes /\ LTypes'
    BY <2>1, TenderTypes DEF LInv, LTypes, Types
  <2>3. ~ twice => LSafe'
    BY <2>1, <2>2, QuietSafe DEF LInv, Alike
  <2> QED BY <2>1, <2>2, <2>3 DEF LInv
<1> QED BY <1>1, <1>2, <1>3, <1>4, <1>5 DEF Next, Tender

\* One thread at most tends a cluster.
LEMMA OneTends ==
  ASSUME LTypes, TendersOK, NEW b \in Block
  PROVE  /\ Cardinality(Tending(b)) <= 1
         /\ Tending(b) # {} => Held(b)
<1> DEFINE Us == {u \in User : ux[u].pc = "tending" /\ ux[u].asc = b}
           Ts == {t \in {NULL} : tender.pc = "tending" /\ tender.e = b}
<1>0. Tending(b) = Us \cup Ts
  BY DEF Tending
<1>1. \A u, v \in Us : u = v
  BY DEF TendersOK
<1>2. Us # {} => Ts = {} /\ Held(b)
  BY DEF TendersOK
<1>3. Ts # {} => Ts = {NULL} /\ Held(b)
  BY DEF TendersOK
<1> HIDE DEF Us, Ts
<1>4. CASE Us \cup Ts = {}
  BY <1>0, <1>4, FS_EmptySet
<1>5. CASE Us # {}
  <2>1. PICK u \in Us : TRUE
    BY <1>5
  <2>2. Tending(b) = {u}
    BY <1>0, <1>1, <1>2, <1>5, <2>1
  <2>3. Cardinality(Tending(b)) = 1
    BY <2>2, FS_Singleton
  <2> QED BY <1>2, <1>5, <2>3
<1>6. CASE Us = {} /\ Ts # {}
  <2>1. Tending(b) = {NULL}
    BY <1>0, <1>3, <1>6
  <2>2. Cardinality(Tending(b)) = 1
    BY <2>1, FS_Singleton
  <2> QED BY <1>3, <1>6, <2>2
<1> QED BY <1>4, <1>5, <1>6

\* The invariant of the cluster list, of those who take clusters out of it and free
\* them, of the tends and of what is being created.
THEOREM ListInvariance == Spec => []LInv
<1>1. Init => LInv
  BY InitKeeps
<1>2. LInv /\ [Next]_vars => LInv'
  BY NextKeeps
<1> QED BY <1>1, <1>2, PTL DEF Spec

\* The global list links exactly the clusters that were created and not yet destroyed,
\* in both directions; a cluster is tended by one thread at a time and not freed under
\* it; and it has its last fields before it has a host: whatever get_or_create,
\* cluster_get, release, shutdown and the tender do, until a cluster is destroyed twice.
THEOREM ClustersSoundHolds == Spec => []ClustersSound
<1>1. ASSUME LInv PROVE TypeOK
  <2>1. LTypes
    BY <1>1 DEF LInv
  <2>2. \A b \in Block : /\ blk[b].mem \in {"fresh", "live", "freed"} /\ blk[b].ref \in Nat
                         /\ blk[b].hosts \subseteq Host
                         /\ blk[b].nodes \in BOOLEAN /\ blk[b].ready \in BOOLEAN
    BY <2>1 DEF LTypes, Types, ClusterRecord
  <2>3. /\ ll.head \in Block \cup {NULL} /\ ll.tail \in Block \cup {NULL} /\ ll.sz \in Nat
    BY <2>1, ListFields DEF LTypes
  <2>4. \A u \in User : handle[u] \in [Slot -> Block \cup {NULL}] /\ own[u] \subseteq Slot
    BY <2>1 DEF LTypes, Types
  <2>5. /\ tender.pc \in {"sleep", "at", "tending", "next", "cancelled"}
        /\ tender.e \in Block \cup {NULL}
    BY <2>1 DEF LTypes, TenderRecord
  <2> QED BY <2>2, <2>3, <2>4, <2>5 DEF TypeOK
<1>2. ASSUME LInv PROVE ListSound
  <2>1. ~ twice => Chain
    BY <1>2 DEF LInv, LSafe
  <2>2. CASE twice
    BY <2>2 DEF ListSound
  <2>3. CASE ~ twice
    BY <2>1, <2>3, ChainSound
  <2> QED BY <2>2, <2>3
<1>3. ASSUME LInv PROVE TendPinned
  <2>1. ASSUME ~ twice, NEW b \in Block
        PROVE  /\ Cardinality(Tending(b)) <= 1
               /\ Tending(b) # {} => Live(b) /\ ~ blk[b].freed
               /\ ~ torn /\ blk[b].hosts # {} /\ Live(b) => blk[b].ready
    <3>1. LTypes /\ TendersOK /\ (~ torn => NewOK)
      BY <1>3, <2>1 DEF LInv, LSafe
    <3>2. Cardinality(Tending(b)) <= 1 /\ (Tending(b) # {} => Held(b))
      BY <3>1, OneTends
    <3>3. ~ torn /\ blk[b].hosts # {} /\ Live(b) => blk[b].ready
      BY <3>1 DEF NewOK
    <3> QED BY <3>2, <3>3 DEF Held
  <2> QED BY <2>1 DEF TendPinned
<1>4. LInv => ClustersSound
  BY <1>1, <1>2, <1>3 DEF ClustersSound
<1> QED BY <1>4, ListInvariance, PTL

=============================================================================
