----------------------------- MODULE FlagCache -----------------------------
(***************************************************************************)
(* The resubmission cache of the ECSC flag submission server               *)
(* (flagcache.cpp): an array of atomic integers.  A submission owns one    *)
(* slot, addressed in mixed radix by submitter, service, victim, round and *)
(* payload, the last two modulo a number of buckets; the slot holds the    *)
(* key of the submission that came through it last.                        *)
(*                                                                         *)
(* A submission is a record of (at least) by, team, service, round and     *)
(* payload.  tc and sc are team_count and service_count.                   *)
(***************************************************************************)
EXTENDS Integers

CONSTANTS
    RoundBuckets,    \* FLAGCACHE_DEFAULT_BUCKETS + 1
    PayloadBuckets,  \* FLAGCACHE_DEFAULT_PAYLOAD_BUCKETS
    UIntRange        \* how many values a 32-bit unsigned integer has

ASSUME BucketsAssumption ==
    /\ RoundBuckets \in Nat \ {0} /\ PayloadBuckets \in Nat \ {0}
    /\ UIntRange \in Nat \ {0}

\* Mutant: one factor team_count is missing.
SlotCountOneTeam(tc, sc) == tc * sc * RoundBuckets * PayloadBuckets

\* cache_size, a product of 32-bit factors; the index below is computed in 64 bits.
SlotCount(tc, sc) == (tc * tc * sc * RoundBuckets * PayloadBuckets) % UIntRange

\* Ids outside the table are not cached; 0 wraps around and is outside as well.
Covered(tc, sc, s) == s.by \in 1..tc /\ s.team \in 1..tc /\ s.service \in 1..sc

\* The index, in mixed radix.
Slot(tc, sc, s) ==
    LET pair == ((s.by - 1) * sc + (s.service - 1)) * tc + (s.team - 1)
    IN  (pair * RoundBuckets + (s.round % RoundBuckets)) * PayloadBuckets
            + (s.payload % PayloadBuckets)

\* cache_key: 16 bits of round below 16 bits of payload.
Key(s) == s.round + 65536 * s.payload

\* exchange() on a cache given by its slots that are not 0.  No issued flag has
\* key 0: rounds start at 1.
Holds(cache, i, k) == i \in DOMAIN cache /\ cache[i] = k
Marked(cache, i, k) ==
    [j \in DOMAIN cache \cup {i} |-> IF j = i THEN k ELSE cache[j]]
NoMarks == [j \in {} |-> 0]
=============================================================================
