-------------------------- MODULE LocalsCorrelation --------------------------
(* Which captured locals belong to an error: the ring of captures of           *)
(* LocalsRingBuffer and the cascade of keys of _layer2Lookup.  An entry is      *)
(* what the debugger saw at a throw, a query what the stack of the error says:  *)
(* both carry req, name, msg, count and hash.  plain is the message without an  *)
(* error-name prefix, sig the positions of the frames, top the first function.  *)
EXTENDS Naturals, Orders

CONSTANTS Ttl, RecentAge   \* LOCALS_CACHE_TTL_MS, REQUEST_MISMATCH_RECENT_MATCH_MS

NoRequest == "none"

(* The ring: expired entries go, then the oldest beyond the capacity.  Fresh,   *)
(* Push and Consume say what the ring becomes: the one element of a set.        *)
Fresh(ring) == Kept(ring, {i \in DOMAIN ring : ring[i].age <= Ttl})
Fit(ring, cap) ==
  IF Len(ring) <= cap THEN ring ELSE SubSeq(ring, Len(ring) - cap + 1, Len(ring))
Push(ring, e, cap) == {Fit(Append(r, e), cap) : r \in Fresh(ring)}
Consume(ring, id) == Kept(ring, {i \in DOMAIN ring : ring[i].id /= id})

(* Entries that agree with the query on every one of the given fields.          *)
Matching(ring, q, fields) ==
  {i \in DOMAIN ring : \A f \in fields : ring[i][f] = q[f]}

Recent(ring, S) == {i \in S : ring[i].age <= RecentAge}
Newest(S) == CHOOSE i \in S : \A j \in S : j <= i

(* Of the caller's own request the newest recent match is taken; of another one *)
(* only if the recent matches show the same frames.                             *)
Pick(ring, S, own) ==
  LET R == Recent(ring, S)
  IN  IF Cardinality(S) = 1 THEN Newest(S)
      ELSE IF R /= {} /\ (own \/ Cardinality({ring[i].sig : i \in R}) = 1)
           THEN Newest(R) ELSE 0

Foreign(ring, q, S) == {i \in S : ring[i].req /= q.req}

LooksAlike(ring, q) ==
  {i \in Recent(ring, DOMAIN ring) :
     \/ ring[i].plain = q.plain
     \/ ring[i].name = "NonErrorThrown" /\ ring[i].top = q.top}

Exact == {"req", "name", "msg", "count", "hash"}

(* The stages in the order in which the cascade tries them.                     *)
Stages(ring, q) ==
  IF q.req = NoRequest
  THEN << [from |-> Matching(ring, q, Exact), how |-> "background"] >>
  ELSE << [from |-> Matching(ring, q, Exact), how |-> "exact"],
          [from |-> Matching(ring, q, Exact \ {"hash"}), how |-> "dropped_hash"],
          [from |-> Matching(ring, q, {"req", "name", "msg"}), how |-> "dropped_count"] >>
       \o [k \in 1..4 |->
            [how |-> "dropped_request",
             from |-> Foreign(ring, q,
                        CASE k = 1 -> Matching(ring, q, Exact \ {"req"})
                          [] k = 2 -> Matching(ring, q, {"name", "msg", "count"})
                          [] k = 3 -> Matching(ring, q, {"name", "msg"})
                          [] OTHER -> LooksAlike(ring, q))]]

(* An exact match takes the newest entry, a background match only a single one, *)
(* and the first stage that matches at all decides.                             *)
Chosen(ring, stage) ==
  CASE stage.how = "exact"      -> Newest(stage.from)
    [] stage.how = "background" -> IF Cardinality(stage.from) = 1 THEN Newest(stage.from) ELSE 0
    [] OTHER -> Pick(ring, stage.from, stage.how /= "dropped_request")

Layer2(ring, q) ==
  LET stages == Stages(ring, q)
      live   == {k \in DOMAIN stages : stages[k].from /= {}}
      first  == CHOOSE k \in live : \A j \in live : k <= j
  IN  IF live = {} THEN [how |-> "cache_miss", at |-> 0, among |-> {}]
      ELSE [how |-> stages[first].how, at |-> Chosen(ring, stages[first]),
            among |-> stages[first].from]

(* What a miss is blamed on: the entry that agrees best, the newest of equals,  *)
(* and the first field of the key on which it disagrees.                        *)
Weight == [req |-> 16, name |-> 8, msg |-> 4, count |-> 2, hash |-> 1]
Score(e, q) ==
  LET w(f) == IF e[f] = q[f] THEN Weight[f] ELSE 0
  IN  w("req") + w("name") + w("msg") + w("count") + w("hash")
DiagnoseMiss(ring, q) ==
  IF ring = << >> THEN "cache_empty"
  ELSE LET best == CHOOSE i \in DOMAIN ring :
                     \A j \in DOMAIN ring :
                       \/ Score(ring[j], q) < Score(ring[i], q)
                       \/ Score(ring[j], q) = Score(ring[i], q) /\ j <= i
           order == <<"req", "name", "msg", "count", "hash">>
           off  == {k \in 1..5 : ring[best][order[k]] /= q[order[k]]}
       IN  IF off = {} THEN "hash" ELSE order[CHOOSE k \in off : \A j \in off : k <= j]
=============================================================================
