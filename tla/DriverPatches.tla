----------------------------- MODULE DriverPatches -----------------------------
(* src/recording/patches: methods of database drivers are wrapped, and what they *)
(* are asked is recorded.  The functions that a method was ever set to are       *)
(* numbered; the first is the driver's own.                                      *)
EXTENDS Naturals, Sequences, FiniteSets

CONSTANTS Sdks,         \* instances of the SDK that come and go
          Queries,
          Statement,    \* [Queries -> their text and values]
          Contexts,
          MaxWraps      \* bound of the model

ASSUME QueriesAssumption == IsFiniteSet(Queries)

VARIABLES fns,       \* Seq of [kind, pred, owner, active]
          current,   \* what the method is now
          store,     \* OWNED_METHODS: the installation of the method, or 0
          installed, \* the instances that installed their patches and are up
          query,     \* [Queries -> [driver, shape, context, stage, sent]]
          active,    \* activePoolQueries: [Contexts -> [statements -> count]]
          records    \* Seq of [query, context, phase, error]
dvars == <<fns, current, store, installed, query, active, records>>
patchvars == <<fns, current, store, installed>>
queryvars == <<query, active, records>>

Statements == {Statement[q] : q \in Queries}
Shapes(driver) ==
  CASE driver \in {"pg", "pool"} -> {"callback", "promise", "stream"}
    [] driver = "mysql2"         -> {"callback", "promise", "emitter"}
    [] driver = "mongodb"        -> {"promise", "cursor"}
    [] driver \in {"ioredis", "pipeline"} -> {"promise"}
Drivers == {"pg", "pool", "mysql2", "mongodb", "ioredis", "pipeline"}

DInit ==
  /\ fns = << [kind |-> "driver", pred |-> 0, owner |-> "none", active |-> TRUE] >>
  /\ current = 1 /\ store = 0 /\ installed = {}
  /\ query = [q \in Queries |-> [driver |-> "none", shape |-> "none", context |-> "none",
                                 stage |-> "none", sent |-> FALSE]]
  /\ active = [c \in Contexts |-> [t \in Statements |-> 0]]
  /\ records = << >>

------------------------------------------------------------------------------
(* A wrapper that was deactivated calls its predecessor.                         *)
Deactivated(fs, f) == IF f = 0 \/ fs[f].kind /= "sdk" THEN fs ELSE [fs EXCEPT ![f].active = FALSE]

(* Mutant: the method is set back, and a wrapper that is hidden stays on.         *)
RestoredOnly(fs, cur) ==
  [fns |-> fs, current |-> IF store /= 0 /\ cur = store THEN fs[store].pred ELSE cur]

(* restore of an installation: the method is set back if it is still the last.   *)
Restored(fs, cur) ==
  [fns |-> Deactivated(fs, store), current |-> IF store /= 0 /\ cur = store THEN fs[store].pred ELSE cur]

(* installOwnedWrapper: a wrapper of ours that is there already is replaced.     *)
OwnedWrapper(fs, cur, i) ==
  LET ours == fs[cur].kind = "sdk"
  IN  Append(Deactivated(fs, IF ours THEN cur ELSE 0),
             [kind |-> "sdk", pred |-> IF ours THEN fs[cur].pred ELSE cur, owner |-> i, active |-> TRUE])

(* wrapMethod, for all methods of all drivers alike; unwrapMethod.               *)
Install(i) ==
  LET r == Restored(fns, current)
  IN  /\ i \notin installed /\ Len(fns) < MaxWraps
      /\ fns' = OwnedWrapper(r.fns, r.current, i)
      /\ current' = Len(fns') /\ store' = Len(fns')
      /\ installed' = installed \cup {i} /\ UNCHANGED queryvars

UnwrapAll(i) ==
  LET r == Restored(fns, current)
  IN  /\ i \in installed
      /\ fns' = r.fns /\ current' = r.current /\ store' = 0
      /\ installed' = installed \ {i} /\ UNCHANGED queryvars

(* Another tool of the application wraps the method, and takes its wrapper off,  *)
(* with whatever came over it.                                                   *)
OthersWrap ==
  /\ Len(fns) < MaxWraps
  /\ fns' = Append(fns, [kind |-> "other", pred |-> current, owner |-> "none", active |-> TRUE])
  /\ current' = Len(fns') /\ UNCHANGED <<store, installed, queryvars>>
OthersUnwrap ==
  /\ \E f \in DOMAIN fns : fns[f].kind = "other" /\ current' = fns[f].pred
  /\ UNCHANGED <<fns, store, installed, queryvars>>

(* The functions that a call of the method goes through.                         *)
Closed(C) == \A f \in C : fns[f].pred \in C \cup {0}
Chain == {f \in DOMAIN fns : \A C \in SUBSET DOMAIN fns : current \in C /\ Closed(C) => f \in C}
Recording == {f \in Chain : fns[f].kind = "sdk" /\ fns[f].active}

------------------------------------------------------------------------------
Put(rs, q, c, phase, error) == Append(rs, [query |-> q, context |-> c, phase |-> phase, error |-> error])
Count(c, t, n) == [active EXCEPT ![c][t] = n]

(* A query of the application.  A stream of pg and a cursor of mongodb are       *)
(* recorded at once and stay active; an emitter of mysql2 counts as its result.  *)
Ask(q, driver, shape, c) ==
  LET seen == driver = "pg" /\ active[c][Statement[q]] > 0    \* hasActivePoolQuery
      now  == shape \in {"stream", "cursor", "emitter"}
  IN  /\ query[q].stage = "none"
      /\ query' = [query EXCEPT ![q] = [driver |-> driver, shape |-> shape, context |-> c,
                                        stage |-> IF seen THEN "unseen" ELSE IF now THEN "recorded" ELSE "asked",
                                        sent |-> driver /= "pool"]]
      /\ records' = IF seen \/ ~now THEN records
                    ELSE Put(records, q, c, IF shape = "emitter" THEN "done" ELSE "active", FALSE)
      /\ active' = IF driver = "pool" /\ ~now THEN Count(c, Statement[q], active[c][Statement[q]] + 1) ELSE active
      /\ UNCHANGED patchvars

(* Mutant: the count is dropped when it is told that a query is under way.       *)
SuppressedOnce(q, c) == active' = Count(c, Statement[q], 0) /\ UNCHANGED records

Suppressed(q, c) == UNCHANGED <<active, records>>

(* The pool found a client: its query runs in the context of whoever waited for  *)
(* or gave back the client, and is recorded there when that knows of no query    *)
(* of the pool.                                                                  *)
SendPooled(q, c) ==
  /\ query[q].driver = "pool" /\ ~query[q].sent /\ query[q].stage \in {"asked", "recorded"}
  /\ query' = [query EXCEPT ![q].sent = TRUE]
  /\ IF active[c][Statement[q]] > 0 THEN Suppressed(q, c)
     ELSE records' = Put(records, q, c, "done", FALSE) /\ UNCHANGED active
  /\ UNCHANGED patchvars

(* finish, which runs once; commands of a pipeline have passed through           *)
(* sendCommand as well.                                                          *)
FinishQuery(q, failed) ==
  LET c == query[q].context  t == Statement[q]  rs == Put(records, q, c, "done", failed)
  IN  /\ query[q].stage = "asked" /\ query[q].sent
      /\ query' = [query EXCEPT ![q].stage = IF failed THEN "failed" ELSE "answered"]
      /\ records' = IF query[q].driver = "pipeline" THEN Put(rs, q, c, "done", failed) ELSE rs
      /\ active' = IF query[q].driver = "pool" THEN Count(c, t, active[c][t] - 1) ELSE active
      /\ UNCHANGED patchvars

WrapNext ==
  \/ \E i \in Sdks : Install(i) \/ UnwrapAll(i)
  \/ OthersWrap \/ OthersUnwrap
QueryNext ==
  \/ \E q \in Queries, c \in Contexts :
       \/ \E d \in Drivers : \E shape \in Shapes(d) : Ask(q, d, shape, c)
       \/ SendPooled(q, c)
  \/ \E q \in Queries, failed \in BOOLEAN : FinishQuery(q, failed)
DSpec == DInit /\ [][WrapNext \/ QueryNext]_dvars

------------------------------------------------------------------------------
(* However instances of the SDK and other tools wrap and unwrap a method in      *)
(* turn, a call reaches the driver, is recorded by one instance at most, and by  *)
(* none that is gone (installOwnedWrapper, wrapMethod, unwrapMethod).            *)
WrapsSound ==
  /\ 1 \in Chain /\ Cardinality(Recording) <= 1
  /\ \A f \in Recording : fns[f].owner \in installed

Replied(q) == query[q].stage \in {"answered", "failed"}
Times(q) == Cardinality({i \in DOMAIN records : records[i].query = q})
Known(q) == \A i \in DOMAIN records : records[i].query = q => records[i].context = query[q].context

(* A query that was answered is recorded, with its outcome; twice only a command *)
(* of a pipeline, or a query of a pool that was sent from another context.  When *)
(* all queries of pools are answered none is taken for under way                 *)
(* (instrumentQuery, markActivePoolQuery, recordRedisOperation).                 *)
QueriesRecorded ==
  /\ \A q \in Queries : Replied(q) =>
       /\ \E i \in DOMAIN records :
            records[i].query = q /\ records[i].phase = "done" /\ (records[i].error <=> query[q].stage = "failed")
       /\ Times(q) <= IF query[q].driver = "pipeline" \/ ~Known(q) THEN 2 ELSE 1
  /\ \A c \in Contexts, t \in Statements :
       active[c][t] = Cardinality({q \in Queries : query[q].driver = "pool" /\ query[q].stage = "asked"
                                                   /\ query[q].context = c /\ Statement[q] = t})
================================================================================
