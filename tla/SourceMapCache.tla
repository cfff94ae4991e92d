--------------------------- MODULE SourceMapCache ---------------------------
(* capture/source-map-resolver.ts: the cache of source maps, which outlives the   *)
(* maps on disk.  A file's map is beside it, named by its last line, within it,   *)
(* or outside its directory, where the resolver does not look.  A deployment may  *)
(* replace or remove a map at any time, even between the two looks a load takes   *)
(* at it, and a look may fail: the program loads it in one step, but the          *)
(* deployment is another process.                                                 *)
EXTENDS Orders, Functions, Integers

CONSTANTS Files, KindsOf(_),  \* "adjacent", "url", "inline", "outside"
          MapOf(_, _),        \* the path of a file's map, of a kind
          Contents,           \* what a map may hold, besides "none" and "bad"
          Large,              \* those over sourceMapSyncThresholdBytes
          MaxConsumers,       \* MAX_CACHE_SIZE
          MaxTotal,           \* MAX_TOTAL_CACHE_ENTRIES
          NegativeTtl,        \* NEGATIVE_ENTRY_TTL_MS
          MaxDeploys, MaxHour \* bounds on the deployments and the clock

ASSUME MapsAssumption ==
  MaxConsumers \in Nat \ {0} /\ {MaxTotal, NegativeTtl, MaxDeploys, MaxHour} \subseteq Nat

Nothing == << >>
NoIdentity == -1              \* null: there was no file to take it from

VARIABLES kind,     \* of each file
          disk,     \* of each map: what it holds, and the stamp of its last write
          cache,    \* a Map of entries in the order they came, each with its key
          keyOf,    \* pathToCacheKey, Nothing where a path has none
          warms,    \* the files whose warming waits
          clock, deploys,
          seenAs    \* what the last resolution used, and what was on disk

mvars == <<kind, disk, cache, keyOf, warms, clock, deploys, seenAs>>

Stored == {"none", "bad"} \cup Contents
MapFor(f) == MapOf(f, kind[f])
Maps == UNION {{MapOf(f, k) : k \in KindsOf(f)} : f \in Files}
Looked(f) == kind[f] /= "outside"
Held(f) == IF Looked(f) THEN disk[MapFor(f)].content ELSE "none"
NoEntry == [type |-> "undefined"]

MInit ==
  /\ kind \in {k \in [Files -> {"adjacent", "url", "inline", "outside"}] :
                 \A f \in Files : k[f] \in KindsOf(f)}
  /\ disk \in [Maps -> [content : {"none"} \cup (Contents \ Large), stamp : {0}]]
  /\ cache = << >> /\ keyOf = [f \in Files |-> Nothing] /\ warms = {}
  /\ clock = 0 /\ deploys = 0
  /\ seenAs = [how |-> "none"]

-------------------------------------------------------------------------------
(* The cache, on c = [cache, keyOf].                                             *)
EntryAt(c, f) ==
  LET at == {i \in DOMAIN c.cache : c.cache[i].key = c.keyOf[f]}
  IN IF at = {} THEN NoEntry ELSE c.cache[CHOOSE i \in at : TRUE]

DeleteCacheKeys(c, keys) ==
  [cache |-> CHOOSE left \in Kept(c.cache, {i \in DOMAIN c.cache : c.cache[i].key \notin keys}) : TRUE,
   keyOf |-> [f \in Files |-> IF c.keyOf[f] \in keys THEN Nothing ELSE c.keyOf[f]]]
Expired(e) == e.type /= "consumer" /\ clock - e.at > NegativeTtl
SweepCache(c) == DeleteCacheKeys(c, {e.key : e \in {x \in Range(c.cache) : Expired(x)}})

(* Mutant: a map that is still there is the one that was read.                   *)
IsCacheIdentityCurrentByPath(e) ==
  e.type = "missing" \/ e.stamp = NoIdentity \/ disk[e.map].content /= "none"
\* What was cached as missing, or while its map was gone, has no identity to lose.
IsCacheIdentityCurrent(e) ==
  e.type = "missing" \/ e.stamp = NoIdentity \/ disk[e.map].stamp = e.stamp

Touch(c, key) ==
  LET touched(e) == IF e.key = key /\ e.type = "consumer" THEN [e EXCEPT !.at = clock] ELSE e
  IN  [cache |-> [i \in DOMAIN c.cache |-> touched(c.cache[i])], keyOf |-> c.keyOf]
Leads(c, f, key) == [cache |-> c.cache, keyOf |-> [c.keyOf EXCEPT ![f] = key]]
GetCachedEntry(c0, f) ==
  LET c == SweepCache(c0)
      e == EntryAt(c, f)
  IN  IF e = NoEntry THEN Leads(c, f, Nothing)
      ELSE IF IsCacheIdentityCurrent(e) THEN Touch(c, e.key)
      ELSE DeleteCacheKeys(c, {e.key})

Oldest(c, S) == {i \in S : /\ \A j \in S : c.cache[i].at <= c.cache[j].at
                           /\ \A j \in S : j < i => c.cache[i].at < c.cache[j].at}
Consumers(c) == {i \in DOMAIN c.cache : c.cache[i].type = "consumer"}
(* Mutant: a consumer goes when there are too many already.                      *)
EvictOldestLate(c) ==
  IF Cardinality(Consumers(c)) <= MaxConsumers THEN c
  ELSE DeleteCacheKeys(c, {c.cache[i].key : i \in Oldest(c, Consumers(c))})
EvictOldest(c) ==
  IF Cardinality(Consumers(c)) < MaxConsumers THEN c
  ELSE DeleteCacheKeys(c, {c.cache[i].key : i \in Oldest(c, Consumers(c))})
EnforceMaxEntries(c) ==
  IF Len(c.cache) <= MaxTotal THEN c
  ELSE DeleteCacheKeys(c, {c.cache[i].key : i \in Oldest(c, DOMAIN c.cache)})

\* A load reads the map, or its file first where that says which, and either may
\* be unreadable; then it asks for the map's identity: stamp is what it is told.
Reads(f) ==
  {Held(f)} \cup (IF kind[f] \in {"url", "inline"} THEN {"no source"} ELSE {})
            \cup (IF kind[f] \in {"adjacent", "url"} /\ Held(f) /= "none" THEN {"unreadable"} ELSE {})
\* Keys tell one content of a map from another, not one write of it.
LoadConsumer(f, read, stamp) ==
  LET type == CASE read \in {"none", "no source"} -> "missing"
                [] read \in {"bad", "unreadable"} -> "corrupt" [] OTHER -> "consumer"
      missing == IF kind[f] = "url" /\ read = "none" THEN MapFor(f) ELSE f
  IN [key |-> IF type = "missing" THEN <<type, missing>> ELSE <<type, MapFor(f), read>>,
      type |-> type, map |-> MapFor(f), content |-> IF type = "missing" THEN "none" ELSE read,
      at |-> clock, stamp |-> stamp, raced |-> type /= "missing" /\ stamp /= disk[MapFor(f)].stamp]
GetConsumer(c0, f, read, stamp) ==
  LET c == GetCachedEntry(c0, f)
      e == LoadConsumer(f, read, stamp)
      room == IF e.type = "consumer" THEN EvictOldest(c) ELSE c
  IN  IF EntryAt(c, f) /= NoEntry THEN c
      ELSE IF \E x \in Range(c.cache) : x.key = e.key THEN Leads(c, f, e.key)
      ELSE EnforceMaxEntries(Leads([room EXCEPT !.cache = Append(@, e)], f, e.key))
FileSizeUnderThreshold(f) ==
  kind[f] = "adjacent" /\ disk[MapFor(f)].content \notin Large \cup {"none"}

-------------------------------------------------------------------------------
Now == [cache |-> cache, keyOf |-> keyOf]
Becomes(c) == cache' = c.cache /\ keyOf' = c.keyOf
Write(m, content) ==
  [disk EXCEPT ![m] = [content |-> content, stamp |-> deploys + 1]]
Uses(how, f, e, held) ==
  seenAs' = [how |-> how, file |-> f, entry |-> e, held |-> held]

\* A deployment replaces or removes the map of f while it is loaded; or none does.
Meanwhile(f, loads) ==
  \/ UNCHANGED <<disk, deploys>>
  \/ /\ loads /\ Looked(f) /\ deploys < MaxDeploys
     /\ \E x \in Stored : disk' = Write(MapFor(f), x)
     /\ deploys' = deploys + 1
StampOf(f) ==
  IF Looked(f) /\ disk'[MapFor(f)].content /= "none" THEN disk'[MapFor(f)].stamp ELSE NoIdentity

\* resolveStack and resolveCapturedFrame: a map that is not cached is loaded at
\* once when it is beside the file and small, and else warmed for the next error.
Resolve(f) ==
  LET c == GetCachedEntry(Now, f)
      known == EntryAt(c, f) /= NoEntry
      sync == ~known /\ FileSizeUnderThreshold(f)
  IN /\ Meanwhile(f, sync)
     /\ \E read \in Reads(f) :
          LET d == IF sync THEN GetConsumer(c, f, read, StampOf(f)) ELSE c
          IN /\ Becomes(d)
             /\ Uses("checked", f, EntryAt(d, f), Held(f))
     /\ warms' = IF known \/ sync THEN warms ELSE warms \cup {f}
     /\ UNCHANGED <<kind, clock>>

\* On the way out of the process nothing is asked of the disk.
ResolveCacheOnly(f) ==
  /\ EntryAt(Now, f) /= NoEntry
  /\ Uses("cached", f, EntryAt(Now, f), Held(f))
  /\ Becomes(Touch(Now, EntryAt(Now, f).key))
  /\ UNCHANGED <<kind, disk, warms, clock, deploys>>

Warm(f) ==
  /\ f \in warms
  /\ Meanwhile(f, EntryAt(GetCachedEntry(Now, f), f) = NoEntry)
  /\ \E read \in Reads(f) : Becomes(GetConsumer(Now, f, read, StampOf(f)))
  /\ warms' = warms \ {f}
  /\ seenAs' = [how |-> "none"]
  /\ UNCHANGED <<kind, clock>>

Deploy(m, content) ==
  /\ deploys < MaxDeploys
  /\ disk' = Write(m, content) /\ deploys' = deploys + 1
  /\ seenAs' = [how |-> "none"]
  /\ UNCHANGED <<kind, cache, keyOf, warms, clock>>

Hour == /\ clock < MaxHour /\ clock' = clock + 1
        /\ seenAs' = [how |-> "none"]
        /\ UNCHANGED <<kind, disk, cache, keyOf, warms, deploys>>

MNext == \/ Hour
         \/ \E f \in Files : Resolve(f) \/ ResolveCacheOnly(f) \/ Warm(f)
         \/ \E m \in Maps, x \in Stored : Deploy(m, x)

MSpec == MInit /\ [][MNext]_mvars

-------------------------------------------------------------------------------
(* A frame is resolved with the map that is on disk, of its own file, although    *)
(* entries outlive deployments.  The exceptions are what the two looks of a load  *)
(* allow: a map replaced between them is served under the new identity until the  *)
(* next deployment, one removed between them, without identity, until it is       *)
(* evicted.  That there is no map, or none to be read, is believed for the TTL.   *)
MapIsCurrent ==
  seenAs.how = "checked" /\ seenAs.entry /= NoEntry =>
    LET e == seenAs.entry
    IN /\ e.type /= "missing" => e.map = MapFor(seenAs.file)
       /\ e.type /= "consumer" => clock - e.at <= NegativeTtl
       /\ \/ e.content = seenAs.held
          \/ e.type = "missing" \/ e.content = "unreadable"
          \/ e.raced /\ e.stamp \in {NoIdentity, disk[e.map].stamp}

(* The cache stays within its two limits, and no path leads to an entry that is   *)
(* gone, whatever was evicted, expired or found stale.                            *)
CacheSound ==
  /\ Cardinality(Consumers(Now)) <= MaxConsumers /\ Len(cache) <= MaxTotal
  /\ \A f \in Files : keyOf[f] /= Nothing => EntryAt(Now, f) /= NoEntry
  /\ \A i \in DOMAIN cache : \E f \in Files : keyOf[f] = cache[i].key

(* A stack is read through the maps of the files that are deployed, within the   *)
(* memory the cache may take.                                                    *)
MapsSound == MapIsCurrent /\ CacheSound
===============================================================================
