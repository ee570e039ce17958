------------------------------ MODULE Message ------------------------------
(***************************************************************************)
(* The values of citrusleaf.c and their way to the server and back: the     *)
(* caller's bins and the heap blocks in them, the request that cl_compile   *)
(* lays out in the space it has computed beforehand, and what cl_parse      *)
(* makes of the reply.  One caller, one record; its transport is Transaction.*)
(*                                                                         *)
(* A name is a sequence of letters, a value a type and its bytes; an integer *)
(* has its eight bytes, highest first.  Sizes are those of the structures of *)
(* proto.h.  The blob types all behave as CL_BLOB.                          *)
(***************************************************************************)
EXTENDS Integers, FiniteSets, Sequences, SequencesExt, FiniteSetsExt, Functions

CONSTANTS
    Name,       \* bin names
    Data,       \* per name: the values written to a bin of that name
    KeyData,    \* values used as keys
    MaxBlocks,  \* bound on the blocks allocated for values
    MaxBins,    \* bound on the bins of an array
    NULL

VARIABLES
    rec,        \* the server's record: per name a value, NULL when not there
    want,       \* the record as the caller's calls should have left it
    bins,       \* the caller's bins
    copy,       \* the array made by citrusleaf_copy_bins
    blocks,     \* blocks allocated for values, but for the forgotten ones
    last        \* the last request and what its caller is due

msgVars == <<rec, want, bins, copy, blocks, last>>

Block == 1 .. MaxBlocks
Nothing == [type |-> "NULL", bytes |-> <<>>]
Quiet == [sized |-> 0, laid |-> 0, spare |-> 0, digest |-> NULL, sync |-> NULL, due |-> {}]

Init ==
    /\ rec = [n \in Name |-> NULL] /\ want = rec
    /\ bins = <<>> /\ copy = <<>> /\ blocks = {} /\ last = Quiet

-----------------------------------------------------------------------------
\* Objects and bins.

\* citrusleaf_object_init_str, _int, _blob and _null: the value stays the caller's.
Object(v) == v @@ [blk |-> NULL, there |-> TRUE]
Bin(n, v) == [name |-> n] @@ Object(v)

\* A caller names the bins it is going to ask for or write.
SetUp(names) ==
    /\ bins = <<>> /\ bins' = [i \in DOMAIN names |-> Bin(names[i], Nothing)]
    /\ last' = Quiet /\ UNCHANGED <<rec, want, copy, blocks>>

Assign(i, v) ==
    /\ bins[i].blk = NULL /\ copy = <<>>
    /\ bins' = [bins EXCEPT ![i] = Bin(@.name, v)]
    /\ last' = Quiet /\ UNCHANGED <<rec, want, copy, blocks>>

Owned(array) == {array[i].blk : i \in DOMAIN array} \ {NULL}

\* The pointer to the value is left as it was, and dangles.
citrusleaf_object_free(i) ==
    /\ bins[i].blk # NULL /\ copy = <<>> /\ blocks' = blocks \ {bins[i].blk}
    /\ bins' = [bins EXCEPT ![i].blk = NULL, ![i].there = FALSE]
    /\ last' = Quiet /\ UNCHANGED <<rec, want, copy>>

\* citrusleaf_bins_free, of the bins or of their copy; the caller goes on with
\* the other array.
citrusleaf_bins_free(array, other) ==
    /\ array # <<>> /\ blocks' = blocks \ Owned(array) /\ bins' = other /\ copy' = <<>>
    /\ last' = Quiet /\ UNCHANGED <<rec, want>>

\* malloc gives the lowest block that is free; which one makes no difference.
Malloc(used) == CHOOSE b \in Block \ used : \A c \in Block \ used : b <= c
Heaped(o) == o.type \in {"STR", "BLOB"}

citrusleaf_copy_object(o, used) == [o EXCEPT !.blk = IF Heaped(o) THEN Malloc(used) ELSE NULL]

\* The first n bins of the array, copied one after the other.
Copied(array, n) ==
    FoldLeft(LAMBDA a, o : LET c == citrusleaf_copy_object(o, a.blocks)
                           IN [array |-> Append(a.array, c), blocks |-> a.blocks \cup ({c.blk} \ {NULL})],
             [array |-> <<>>, blocks |-> blocks], SubSeq(array, 1, n))

\* If the copy of a bin fails, the blocks of the bins before it are freed.
Unwound(c) == c.blocks \ Owned(c.array)

citrusleaf_copy_bins ==
    /\ copy = <<>> /\ bins # <<>> /\ \A i \in DOMAIN bins : bins[i].there
    /\ Cardinality(blocks) + Len(bins) <= MaxBlocks
    /\ \/ LET c == Copied(bins, Len(bins)) IN copy' = c.array /\ blocks' = c.blocks
       \/ \E i \in DOMAIN bins :
            Heaped(bins[i]) /\ blocks' = Unwound(Copied(bins, i - 1)) /\ UNCHANGED copy
    /\ last' = Quiet /\ UNCHANGED <<rec, want, bins>>

-----------------------------------------------------------------------------
\* cl_compile.

as_msg == 30
cl_msg_field == 5
cl_msg_op == 8
cf_digest == 20
cl_scan_param_field == 2

Total(s) == FoldLeft(+, 0, s)
If(c, n) == IF c THEN n ELSE 0

cl_value_to_op_get_size(op) == IF op.type = "INT" THEN 8 ELSE Len(op.bytes)

\* The size, computed before anything is laid out.
SizeOf(r) ==
    as_msg + (cl_msg_field + r.ns) + If(r.set > 0, cl_msg_field + r.set)
    + If(r.key # NULL, cl_msg_field + 1 + Len(r.key.bytes))
    + If(r.digest, cl_msg_field + 1 + cf_digest) + If(r.trid, cl_msg_field + 8)
    + If(r.scan, cl_msg_field + 1 + cl_scan_param_field)
    + Total([i \in DOMAIN r.ops |->
            cl_msg_op + Len(r.ops[i].name) + cl_value_to_op_get_size(r.ops[i])])

\* An integer lies in memory lowest byte first and is sent highest byte first.
InMemory(v) == IF v.type = "INT" THEN Reverse(v.bytes) ELSE v.bytes
value_to_op_int(v) == Reverse(InMemory(v))
ToWire(v) == IF v.type = "INT" THEN value_to_op_int(v) ELSE v.bytes

\* The fields in their order, each with the field_sz written to it.
write_fields(r) ==
    <<r.ns + 1>>
    \o (IF r.set > 0 THEN <<r.set + 1>> ELSE <<>>)
    \o (IF r.trid THEN <<8 + 1>> ELSE <<>>)
    \o (IF r.scan THEN <<cl_scan_param_field + 1>> ELSE <<>>)
    \o (IF r.key # NULL THEN <<Len(ToWire(r.key)) + 2>> ELSE <<>>)
    \o (IF r.digest THEN <<cf_digest + 1>> ELSE <<>>)

\* The blob of an MC_INCR is two integers of eight bytes.
cl_value_to_op(op) ==
    cl_msg_op + Len(op.name) - 4
    + IF op.op = "MC_INCR" /\ op.type = "BLOB" THEN 16 ELSE Len(ToWire(op))

Laid(r) ==
    as_msg + Total([i \in DOMAIN write_fields(r) |-> 4 + write_fields(r)[i]])
    + Total([i \in DOMAIN r.ops |-> 4 + cl_value_to_op(r.ops[i])])

\* What a record is found by: the digest of the set and of the key with its
\* type, as write_fields computes it and as citrusleaf_calculate_digest does.
DigestOf(set, type, bytes) == <<set, type, bytes>>
DigestCompiled(r) == DigestOf(r.set, r.key.type,
    IF r.key.type = "INT" THEN Reverse(InMemory(r.key)) ELSE r.key.bytes)
citrusleaf_calculate_digest(set, key) == DigestOf(set, key.type, ToWire(key))

Request(r) ==
    [sized |-> SizeOf(r), laid |-> Laid(r), spare |-> If(r.digest, 1) + If(r.scan, 1),
     digest |-> IF r.key = NULL THEN NULL ELSE DigestCompiled(r),
     sync |-> IF r.key = NULL THEN NULL ELSE citrusleaf_calculate_digest(r.set, r.key)]

-----------------------------------------------------------------------------
\* The server.  It carries out the operations the info bits speak of.

Writes(ops, n) == {i \in DOMAIN ops : ops[i].name = n /\ ops[i].op = "WRITE"}
Stored(op) == IF op.type = "NULL" THEN NULL ELSE [type |-> op.type, bytes |-> op.bytes]
Effect(record, ops) == [n \in Name |-> IF Writes(ops, n) = {} THEN record[n]
                                       ELSE Stored(ops[Max(Writes(ops, n))])]
Missing(record) == \A n \in Name : record[n] = NULL

Served(info, ops) ==
    CASE \/ "WRITE" \notin info \/ {"DELETE", "VERIFY"} \subseteq info
         \/ "REPLACE" \in info /\ Missing(rec) -> rec
      [] {"DELETE", "WRITE"} \subseteq info -> [n \in Name |-> NULL]
      [] OTHER -> Effect(rec, ops)

\* An integer is answered in eight bytes or in as few as hold it.
Zeros(n) == [i \in 1 .. n |-> 0]
Extended(bytes) == [i \in 1 .. (8 - Len(bytes)) |->
                        IF bytes # <<>> /\ bytes[1] >= 128 THEN 255 ELSE 0] \o bytes
Widths(v) == IF v.type # "INT" THEN {v.bytes}
             ELSE LET first == Max({i \in 1 .. 9 : Extended(SubSeq(v.bytes, i, 8)) = v.bytes})
                  IN {v.bytes, SubSeq(v.bytes, first, 8)}

Asked(info, ops) ==
    IF "READ" \notin info \/ "NOBINDATA" \in info THEN <<>>
    ELSE IF "GET_ALL" \in info THEN SetToSeq({n \in Name : rec[n] # NULL})
    ELSE LET read == SelectSeq(ops, LAMBDA o : o.op = "READ" /\ rec[o.name] # NULL)
         IN [i \in DOMAIN read |-> read[i].name]

-----------------------------------------------------------------------------
\* cl_parse.

\* Mutant of op_to_value_int: a short integer is padded on the wrong side.
op_to_value_int_left(bytes) == bytes \o Zeros(8 - Len(bytes))

\* An integer of fewer bytes with its sign bit set is meant to be extended by
\* the sign; what is returned is its first byte as the highest of eight.
op_to_value_int(bytes) ==
    IF Len(bytes) = 8 THEN bytes
    ELSE IF bytes # <<>> /\ bytes[1] >= 128 THEN <<bytes[1]>> \o Zeros(7)
    ELSE Zeros(8 - Len(bytes)) \o bytes

\* An operation of the reply becomes a value, with a block of its own for a
\* string or blob.  When memory is short the type and the size are set and the
\* pointer is null, and the return code is looked at by nobody.
set_object(op, used, short) ==
    IF op.type = "INT" THEN Object([type |-> "INT", bytes |-> op_to_value_int(op.bytes)])
    ELSE IF short THEN [type |-> op.type, bytes |-> op.bytes, blk |-> NULL, there |-> FALSE]
    ELSE [type |-> op.type, bytes |-> op.bytes, blk |-> Malloc(used), there |-> TRUE]

\* The first bin whose name begins with the name in the reply; 0 if none does.
set_value_search(array, name) == SelectInSeq(array, LAMBDA b : IsPrefix(name, b.name))

\* The block of the value that was there before, if there was one, is forgotten.
Placed(a, i, o) ==
    [array |-> [a.array EXCEPT ![i] = [name |-> @.name] @@ o],
     blocks |-> (a.blocks \cup ({o.blk} \ {NULL})) \ {a.array[i].blk}]

\* With more operations than bins there is a new array, a bin for each of them;
\* else each goes to the bin found by its name.
cl_parse(array, ops, short) ==
    LET all == Len(ops) > Len(array)
        start == IF all THEN [i \in DOMAIN ops |-> Bin(ops[i].name, Nothing)] ELSE array
        One(a, i) ==
            LET at == IF all THEN i ELSE set_value_search(a.array, ops[i].name)
                o == set_object(ops[i], a.blocks, i \in short)
            IN IF at = 0 THEN a ELSE Placed(a, at, o)
    IN FoldLeft(One, [array |-> start, blocks |-> blocks],
                [i \in DOMAIN ops |-> i])

-----------------------------------------------------------------------------
\* The calls.

\* A bin whose name begins another's, or is begun by it, may get the other's value.
Apart(array, i) ==
    \A j \in DOMAIN array \ {i} : ~ IsPrefix(array[i].name, array[j].name)
                                  /\ ~ IsPrefix(array[j].name, array[i].name)
ShortNegative(op) == op.type = "INT" /\ Len(op.bytes) \in 1 .. 7 /\ op.bytes[1] >= 128
\* What the caller is due, the record's values, and which of them it does not get:
\* those for which memory was short, and short negative integers.
Due(array, reply, short) ==
    {[bin |-> j, value |-> rec[array[j].name], spoiled |-> k \in short \/ ShortNegative(reply[k])] :
        <<j, k>> \in {jk \in (DOMAIN array) \X (DOMAIN reply) :
                        /\ reply[jk[2]].name = array[jk[1]].name
                        /\ Apart(array, jk[1]) \/ Len(reply) > Len(bins)}}

\* Where a call finds its record: by a key in a set or in none, or by a digest.
Address == [ns : {4}, set : {0, 3}, key : KeyData, digest : {FALSE}, trid : {FALSE}, scan : {FALSE}]
           \cup [ns : {4}, set : {0, 3}, key : {NULL}, digest : {TRUE}, trid : {FALSE}, scan : {FALSE}]
With(a, ops) == a @@ [ops |-> ops]
OneAddress == CHOOSE a \in Address : a.set > 0 /\ a.key # NULL

\* The verify bit of a delete is cleared before it is sent.
Sent(info) == IF "DELETE" \in info THEN info \ {"VERIFY"} ELSE info

\* Values that are sent must be there.  A caller frees one of two arrays first.
Sendable == copy = <<>> /\ \A i \in DOMAIN bins : bins[i].there

\* do_the_full_monte seen from its caller: the request, its effect, the reply.
Monte(info, ops, intent) ==
    /\ Sendable /\ rec' = Served(Sent(info), ops) /\ want' = intent
    /\ LET names == Asked(info, ops)
       IN \E width \in [DOMAIN names -> UNION {Widths(rec[n]) : n \in ToSet(names)}],
             short \in SUBSET DOMAIN names :
            LET reply == [i \in DOMAIN names |->
                            [name |-> names[i], type |-> rec[names[i]].type, bytes |-> width[i]]]
                parsed == cl_parse(bins, reply, short)
            IN /\ \A i \in DOMAIN names : width[i] \in Widths(rec[names[i]])
               /\ Cardinality(blocks) + Len(names) <= MaxBlocks
               /\ bins' = parsed.array /\ blocks' = parsed.blocks
               /\ last' = Request(With(OneAddress, ops)) @@ [due |-> Due(parsed.array, reply, short)]
    /\ UNCHANGED copy

AllOps(op) == [i \in DOMAIN bins |-> [op |-> op] @@ bins[i]]

\* citrusleaf_get, citrusleaf_exists_key and citrusleaf_verify.
Read(bits) == bins # <<>> /\ Monte({"READ"} \cup bits, AllOps("READ"), want)
citrusleaf_get_all == bins = <<>> /\ Monte({"READ", "GET_ALL"}, <<>>, want)
\* citrusleaf_put and citrusleaf_restore, and citrusleaf_put_replace.
citrusleaf_put ==
    bins # <<>> /\ Monte({"WRITE"}, AllOps("WRITE"), Effect(want, AllOps("WRITE")))
citrusleaf_put_replace ==
    bins # <<>> /\ Monte({"WRITE", "REPLACE"}, AllOps("WRITE"),
                         IF Missing(want) THEN want ELSE Effect(want, AllOps("WRITE")))
\* citrusleaf_delete and citrusleaf_delete_verify.
citrusleaf_delete(bits) == Monte({"DELETE", "WRITE"} \cup bits, <<>>, [n \in Name |-> NULL])

\* Mutant of OperateInfo: the search for reads and writes ends with the first.
OperateInfoFirst(ops) == {IF ops[1].op = "READ" THEN "READ" ELSE "WRITE"}

\* The bits of an operate call come from its operations.
OperateInfo(ops) == {IF ops[i].op = "READ" THEN "READ" ELSE "WRITE" : i \in DOMAIN ops}

citrusleaf_operate(op) ==
    LET ops == [i \in DOMAIN bins |-> [op |-> op[i]] @@ bins[i]]
    IN bins # <<>> /\ Monte(OperateInfo(ops), ops, Effect(want, ops))

\* Requests whose replies are parsed elsewhere: the asynchronous calls, which
\* have a transaction id, the calls of all kinds of operations, and a scan,
\* which has its options and neither key nor digest.
CompileOnly(a, op) ==
    /\ Sendable
    /\ \A i \in DOMAIN bins : op = "MC_INCR" => Len(bins[i].bytes) = 16
    /\ \E r \in {With([a EXCEPT !.trid = TRUE], AllOps(op)), With(a, AllOps(op)),
                 With([a EXCEPT !.key = NULL, !.digest = FALSE, !.scan = TRUE], <<>>)} :
            last' = Request(r) @@ [due |-> {}]
    /\ UNCHANGED <<rec, want, bins, copy, blocks>>

CallerStep ==
    \/ \E k \in 1 .. MaxBins : \E names \in [1 .. k -> Name] : IsInjective(names) /\ SetUp(names)
    \/ \E i \in DOMAIN bins : \/ \E v \in Data[bins[i].name] : Assign(i, v)
                              \/ citrusleaf_object_free(i)
    \/ citrusleaf_bins_free(bins, copy) \/ citrusleaf_bins_free(copy, bins)
    \/ citrusleaf_copy_bins
    \/ \E bits \in {{}, {"NOBINDATA"}, {"VERIFY"}} : Read(bits)
    \/ citrusleaf_get_all \/ citrusleaf_put \/ citrusleaf_put_replace
    \/ \E bits \in {{}, {"VERIFY"}} : citrusleaf_delete(bits)
    \/ \E op \in [DOMAIN bins -> {"READ", "WRITE"}] : citrusleaf_operate(op)
    \/ \E a \in Address, op \in {"WRITE", "MC_INCR"} : CompileOnly(a, op)

\* What was last seen of a request is forgotten before the next step.
Forget == last # Quiet /\ last' = Quiet /\ UNCHANGED <<rec, want, bins, copy, blocks>>

Next == (last = Quiet /\ CallerStep) \/ Forget

-----------------------------------------------------------------------------
\* The parts of the properties.

Fits == last.laid + last.spare = last.sized
DigestInSync == last.digest = last.sync
RecordAsAsked == rec = want
Holds(i, v) == bins[i].there /\ bins[i].type = v.type /\ bins[i].bytes = v.bytes
Delivered == \A d \in last.due : d.spoiled \/ Holds(d.bin, d.value)
AllDelivered == \A d \in last.due : Holds(d.bin, d.value)
Owners(b) == Cardinality({i \in DOMAIN bins : bins[i].blk = b})
             + Cardinality({i \in DOMAIN copy : copy[i].blk = b})
BlocksOwned == \A b \in Block : Owners(b) = IF b \in blocks THEN 1 ELSE 0

=============================================================================
