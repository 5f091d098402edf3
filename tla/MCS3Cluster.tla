----------------------------- MODULE MCS3Cluster -----------------------------
(***************************************************************************)
(* Small clusters for TLC: two instances, a and b, and the wildcard "all". *)
(***************************************************************************)
EXTENDS S3Cluster

CONSTANTS a, b, all, j1, j2

MCGlobMatch == [g \in Globs |-> Instances]

EveryTwo == [kind |-> "interval", start |-> 1, length |-> 2, end |-> None]
EveryTwoTo(end) == [kind |-> "interval", start |-> 1, length |-> 2, end |-> end]
Calendar == [kind |-> "cron", at |-> {0, 1, 2, 4}]
Once == [kind |-> "date", run |-> 1]

Ask(target, trigger, coalesce) ==
    [target |-> target, trigger |-> trigger, coalesce |-> coalesce]

\* The bucket as the creator left it at time 0.
Stored(creator, r) ==
    [j \in JobIds |-> NewEnvelope(creator, r.target, r.trigger, r.coalesce, 0)]

\* One job for b alone, made by a; clients ask for the other one.
ExactBuckets == {Stored(a, Ask(b, EveryTwo, FALSE))}
ExactRequests == {Ask(b, Calendar, TRUE)}

\* Jobs for both, made by a.
BroadcastBuckets == {Stored(a, Ask(all, EveryTwoTo(3), FALSE))}
BroadcastRequests == {Ask(all, Calendar, TRUE)}

\* Either of the two.
SharedBuckets == ExactBuckets \cup BroadcastBuckets

Pair(r1, r2) ==
    [j \in JobIds |-> Stored(a, IF j = j1 THEN r1 ELSE r2)[j]]

\* One instance with two jobs of its own, one of which runs only once.
OwnBuckets == {Pair(Ask(a, EveryTwoTo(2), TRUE), Ask(a, Calendar, FALSE))}

\* A broadcast interval job next to a job of a's own, due at the same times.
PairBuckets == {Pair(Ask(all, EveryTwo, FALSE), Ask(a, EveryTwo, TRUE))}
OnceRequests == {Ask(a, Once, TRUE)}

\* Either of these two pairs.
TwoJobBuckets == OwnBuckets \cup PairBuckets

EmptyBuckets == {EmptyCache}

=============================================================================
