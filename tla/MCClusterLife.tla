--------------------------- MODULE MCClusterLife ----------------------------
\* ClusterLife for TLC: two hosts, two or three threads and as many blocks, and
\* the ways in which they use clusters.
EXTENDS ClusterLife

CONSTANTS h1, h2, u1, u2, u3

Op(op, slot, host) == [op |-> op, slot |-> slot, host |-> host]
Use(op, slot, host) == <<Op(op, slot, host), Op("release", slot, host)>>
Both(p, q) == [u \in User |-> IF u = u1 THEN p ELSE IF u = u2 THEN q ELSE <<>>]
Down == Op("shutdown", 1, h1)

\* Counted use of one cluster and of two, which may both be kept; PHP objects that share a cluster, one
\* of them closed twice; PHP's connect beside a counted use; and shutdown.
MCPlans ==
    {Both(Use("get_or_create", 1, h1), Use("get_or_create", 1, h1)),
     Both(<<Op("get_or_create", 1, h1)>>, Use("get_or_create", 1, h2)),
     Both(<<Op("get_or_create", 1, h1)>>, <<Op("get_or_create", 1, h2)>>),
     Both(<<Op("cluster_get", 1, h1), Op("cluster_get", 2, h1),
            Op("release", 1, h1), Op("release", 2, h1), Op("release", 1, h1)>>, <<>>),
     Both(Use("cluster_get", 1, h1), Use("get_or_create", 1, h1)),
     Both(Use("get_or_create", 1, h1), <<Op("get_or_create", 1, h2), Down>>)}

\* Those, a use after a use, and a shutdown that takes a cluster apart while a
\* thread is creating it, so that another thread's create gets its memory.
ReusePlans ==
    MCPlans \cup
    {Both(<<Op("get_or_create", 1, h1)>>, Append(Use("get_or_create", 1, h2), Op("get_or_create", 1, h2))),
     [u \in User |-> IF u = u1 THEN <<Op("get_or_create", 1, h1)>>
                     ELSE IF u = u2 THEN <<Down>> ELSE <<Op("get_or_create", 1, h2)>>]}

=============================================================================
