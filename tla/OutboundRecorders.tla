--------------------------- MODULE OutboundRecorders ---------------------------
(* src/recording/undici.ts and fetch-wrapper.ts: a fetch waits in a queue for    *)
(* the slot that the recorder of undici makes when the request is dispatched,    *)
(* and records its response there.                                               *)
EXTENDS Integers, Sequences

CONSTANTS Fetches,
          Urls,        \* [Fetches -> their url, method and origin]
          MaxSlots     \* bound of the model

VARIABLES fetch,    \* [Fetches -> [stage, prelude, bound, recorded, amid]]
          queue,    \* pendingFetchResolvers
          slots     \* Seq of [owner, url, context, done, error, responses]
ovars == <<fetch, queue, slots>>

Preludes == {"now", "later", "never"}    \* when the fetch dispatches its request
Unbound  == -1
Null     == 0
Foreign  == "undici"                     \* a direct call of undici, of no fetch

OInit ==
  /\ fetch = [f \in Fetches |-> [stage |-> "none", prelude |-> "now", bound |-> Unbound,
                                 recorded |-> Null, amid |-> FALSE]]
  /\ queue = << >> /\ slots = << >>

Slot(owner, context) ==
  [owner |-> owner, url |-> IF owner = Foreign THEN Foreign ELSE Urls[owner], context |-> context,
   done |-> FALSE, error |-> FALSE, responses |-> {}]
Waiting(f) == fetch[f].stage = "waiting"
Astray(f)  == Waiting(f) /\ fetch[f].amid       \* did not dispatch at once, or came behind one

(* handleRequestCreate, given the fetches and the queue: the first that waits    *)
(* gets the slot.                                                                *)
Create(fs, q, owner, context) ==
  /\ Len(slots) < MaxSlots
  /\ slots' = Append(slots, Slot(owner, context))
  /\ queue' = IF q = << >> THEN q ELSE Tail(q)
  /\ fetch' = IF q = << >> THEN fs ELSE [fs EXCEPT ![Head(q)].bound = Len(slots) + 1]

(* patchedFetch up to the call of the original.                                  *)
Enter(f, prelude) ==
  LET fs == [fetch EXCEPT ![f] = [@ EXCEPT !.stage = "waiting", !.prelude = prelude,
                                           !.amid = prelude /= "now" \/ \E g \in Fetches : Astray(g)]]
  IN  /\ fetch[f].stage = "none"
      /\ IF prelude = "now" THEN Create(fs, Append(queue, f), f, TRUE)
         ELSE fetch' = fs /\ queue' = Append(queue, f) /\ UNCHANGED slots

Dispatch(f) ==
  /\ Waiting(f) /\ fetch[f].prelude = "later" /\ \A i \in DOMAIN slots : slots[i].owner /= f
  /\ Create(fetch, queue, f, TRUE)
(* A redirected fetch dispatches anew; so does who uses undici directly.         *)
Redirect(f) ==
  /\ Waiting(f) /\ \E i \in DOMAIN slots : slots[i].owner = f
  /\ Create(fetch, queue, f, TRUE)
DirectCall == Create(fetch, queue, Foreign, FALSE)

(* Mutant: the resolver of a fetch that settles unbound stays in the queue.      *)
StillQueued(f) == queue

(* removePendingResolver: indexOf and splice                                     *)
Unqueued(f) ==
  IF \A i \in DOMAIN queue : queue[i] /= f THEN queue
  ELSE LET at == CHOOSE i \in DOMAIN queue : queue[i] = f
       IN  SubSeq(queue, 1, at - 1) \o SubSeq(queue, at + 1, Len(queue))

(* SLOT_BIND_TIMEOUT_MS                                                          *)
BindTimeout(f) ==
  /\ Waiting(f) /\ fetch[f].bound = Unbound
  /\ fetch' = [fetch EXCEPT ![f].bound = Null] /\ queue' = Unqueued(f)
  /\ UNCHANGED slots

(* resolveRecordedFetchSlot: the bound slot, else the last of the context that   *)
(* looks alike, else one of its own.                                             *)
Alike(f) == {i \in DOMAIN slots : slots[i].context /\ slots[i].url = Urls[f]}
Resolved(f) ==
  IF fetch[f].bound \notin {Unbound, Null} THEN fetch[f].bound
  ELSE IF Alike(f) /= {} THEN CHOOSE i \in Alike(f) : \A j \in Alike(f) : j <= i
  ELSE Len(slots) + 1

(* A slot without a context gets that of the fetch (attachContextToSlot).        *)
Recorded(o, f, ok) ==
  [o EXCEPT !.done = TRUE, !.error = @ \/ ~ok, !.context = TRUE, !.responses = @ \cup {f}]

(* The response, or the failure.                                                 *)
SettleFetch(f, ok) ==
  LET i   == Resolved(f)
      all == IF i > Len(slots) THEN Append(slots, Slot(f, TRUE)) ELSE slots
  IN  /\ Waiting(f) /\ Len(all) <= MaxSlots
      /\ ok => fetch[f].prelude = "never" \/ \E j \in DOMAIN slots : slots[j].owner = f
      /\ queue' = Unqueued(f)
      /\ slots' = [all EXCEPT ![i] = Recorded(@, f, ok)]
      /\ fetch' = [fetch EXCEPT ![f] = [@ EXCEPT !.stage = "settled", !.recorded = i]]

ONext ==
  \/ \E f \in Fetches :
       \/ \E p \in Preludes : Enter(f, p)
       \/ Dispatch(f) \/ Redirect(f) \/ BindTimeout(f)
       \/ \E ok \in BOOLEAN : SettleFetch(f, ok)
  \/ DirectCall
OSpec == OInit /\ [][ONext]_ovars

(* A fetch that dispatches as it is called, while no other waits that did not or *)
(* that came behind such a one (a url that does not parse is enough), is         *)
(* recorded in the slot of its own request and shares it with no other,          *)
(* whatever redirects, direct calls, failures and timeouts come between; and     *)
(* only fetches that are under way are queued (pendingFetchResolvers).           *)
OwnSlot ==
  /\ \A f \in Fetches : fetch[f].stage = "settled" /\ ~fetch[f].amid =>
       /\ slots[fetch[f].recorded].owner = f
       /\ \A g \in slots[fetch[f].recorded].responses : g = f \/ fetch[g].amid
  /\ \A i \in DOMAIN queue : Waiting(queue[i])
================================================================================
