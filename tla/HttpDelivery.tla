----------------------------- MODULE HttpDelivery -----------------------------
(* transport/http-transport.ts: one payload after the other (the dispatcher sends *)
(* them so) is posted to a collector, over HTTP/2 or HTTP/1.1, in several          *)
(* attempts within a budget of time.  What the network and the collector do is    *)
(* whatever the transport can see of them; a leg of an attempt is a connection    *)
(* or a request, and takes some time up to timeoutMs.                              *)
EXTENDS Integers, FiniteSets

CONSTANTS MaxPayloads,   \* of a run: a bound of the model
          MaxAttempts,   \* MAX_ATTEMPTS
          Budget,        \* RETRY_BUDGET_MS
          Timeout,       \* timeoutMs
          Backoff,       \* the jittered delays between attempts
          RetryAfter     \* what a collector may ask for

ASSUME HttpAssumption ==
  /\ MaxPayloads \in Nat /\ {MaxAttempts, Budget, Timeout} \subseteq Nat \ {0}
  /\ Backoff \cup RetryAfter \subseteq Nat

VARIABLES
  config,   \* [protocol, https]
  post,     \* the payload under way: [stage, attempt, elapsed, copies, over, answer]
  posts,    \* payloads so far
  session,  \* http2Session: none, open, or dead when its peer is gone unnoticed
  closed    \* shutdown()
httpvars == <<config, post, posts, session, closed>>

NoPost == [stage |-> "idle", attempt |-> 0, elapsed |-> 0, copies |-> 0, over |-> {}, answer |-> "none"]
AtRest == post.stage \in {"idle", "sent", "failed"}
Least(a, b) == IF a <= b THEN a ELSE b

(* The constructor refuses plain HTTP for HTTP/2.                                 *)
HInit ==
  /\ config \in [protocol : {"auto", "http1", "http2"}, https : BOOLEAN]
  /\ config.protocol = "http2" => config.https
  /\ post = NoPost /\ posts = 0 /\ session = "none" /\ closed = FALSE

-------------------------------------------------------------------------------
(* A copy of the payload goes out over a protocol.                                *)
Put(p, over) ==
  [p EXCEPT !.stage = over, !.copies = @ + 1, !.over = @ \cup {over}]

(* sendOnce: a session that is neither closed nor destroyed is used again, also   *)
(* one whose peer is gone.                                                        *)
Attempt(p) ==
  IF config.protocol = "http1" \/ ~config.https THEN Put(p, "http1")
  ELSE IF session /= "none" THEN Put(p, "http2")
  ELSE [p EXCEPT !.stage = "connecting"]

Send ==
  /\ AtRest /\ ~closed /\ posts < MaxPayloads
  /\ posts' = posts + 1
  /\ post' = Attempt(NoPost)
  /\ UNCHANGED <<config, session, closed>>

(* getRetryDelay: what is left of the budget is an upper bound of any delay.      *)
Delay(delay, left) == Least(delay, left)

Final(p, stage, answer) == [p EXCEPT !.stage = stage, !.answer = answer]
Retried(p, delay) ==
  LET left == Budget - p.elapsed
  IN  IF p.attempt >= MaxAttempts - 1 \/ left <= 0 THEN Final(p, "failed", "doubt")
      ELSE [p EXCEPT !.stage = "waiting", !.attempt = @ + 1, !.elapsed = @ + Delay(delay, left),
                     !.over = {}, !.answer = "doubt"]

Later(d) == [post EXCEPT !.elapsed = @ + d]

(* getHttp2Session: connected in time, and the collector speaks HTTP/2.           *)
Connect(d) ==
  /\ post.stage = "connecting"
  /\ session' = "open"
  /\ post' = Put(Later(d), "http2")
  /\ UNCHANGED <<config, posts, closed>>

(* No connection, no HTTP/2, no answer in time, or a request that the session     *)
(* does not take: the session is destroyed, and "auto" goes on over HTTP/1.1.     *)
ConnectFails(d, why, delay) ==
  /\ post.stage = "connecting"
  /\ why = "timeout" => d = Timeout
  /\ post' = IF config.protocol = "auto" THEN Put(Later(d), "http1")
             ELSE IF why = "permanent" THEN Final(Later(d), "failed", "refused")
             ELSE Retried(Later(d), delay)
  /\ UNCHANGED <<config, posts, session, closed>>

-------------------------------------------------------------------------------
(* The end of a request.  A peer that is gone gives no answer.                    *)
Posted == post.stage \in {"http1", "http2"}
Reachable == post.stage = "http2" => session = "open"

Accepted2xx(d) ==
  /\ Posted /\ Reachable
  /\ post' = Final(Later(d), "sent", "accepted")
  /\ UNCHANGED <<config, posts, session, closed>>

(* A status that is permanent, a certificate that is not trusted.                 *)
Refused(d) ==
  /\ Posted /\ Reachable
  /\ post' = Final(Later(d), "failed", "refused")
  /\ UNCHANGED <<config, posts, session, closed>>

(* A status to retry after, with or without a Retry-After.                        *)
Postponed(d, delay) ==
  /\ Posted /\ Reachable
  /\ post' = Retried(Later(d), delay)
  /\ UNCHANGED <<config, posts, session, closed>>

(* The deadline of the request: HTTP/1.1 destroys its socket, HTTP/2 closes the   *)
(* stream and keeps the session.                                                  *)
TimesOut(delay) ==
  /\ Posted
  /\ post' = Retried(Later(Timeout), delay)
  /\ UNCHANGED <<config, posts, session, closed>>

(* An error of the connection destroys the session; few of them are retried.      *)
ConnectionFails(d, why, delay) ==
  /\ Posted
  /\ session' = IF post.stage = "http2" THEN "none" ELSE session
  /\ post' = IF why = "permanent" THEN Final(Later(d), "failed", "refused")
             ELSE Retried(Later(d), delay)
  /\ UNCHANGED <<config, posts, closed>>

TryAgain ==
  /\ post.stage = "waiting"
  /\ post' = Attempt(post)
  /\ UNCHANGED <<config, posts, session, closed>>

(* The session closes, fails or is told to go away; or its peer falls silent.     *)
SessionEnds ==
  /\ session /= "none" /\ session' = "none"
  /\ UNCHANGED <<config, post, posts, closed>>
PeerFallsSilent ==
  /\ session = "open" /\ session' = "dead"
  /\ UNCHANGED <<config, post, posts, closed>>

(* shutdown(), which the dispatcher calls when its queue is empty.                *)
CloseTransport ==
  /\ AtRest /\ ~closed
  /\ closed' = TRUE /\ session' = "none"
  /\ UNCHANGED <<config, post, posts>>

Durations == 0 .. Timeout
Whys == {"timeout", "transient", "permanent"}
Progress ==
  \/ \E d \in Durations, delay \in Backoff, why \in Whys :
       Connect(d) \/ ConnectFails(d, why, delay) \/ ConnectionFails(d, why, delay) \/ TimesOut(delay)
  \/ \E d \in Durations : Accepted2xx(d) \/ Refused(d)
  \/ \E d \in Durations, delay \in Backoff \cup RetryAfter : Postponed(d, delay)
  \/ TryAgain
HNext == Send \/ Progress \/ SessionEnds \/ PeerFallsSilent \/ CloseTransport
HFair == WF_httpvars(Progress)
HSpec == HInit /\ [][HNext]_httpvars /\ HFair

-------------------------------------------------------------------------------
(* OPERATIONS.md: a payload has a total retry budget.  The last attempt may begin *)
(* at its end, and takes two legs at most (send, getRetryDelay, sendOnce).        *)
EndsInTime == post.elapsed <= Budget + 2 * Timeout

(* A payload is posted at most once in an attempt, over HTTP/1.1 only when HTTP/2  *)
(* had not taken it (sendOnce), and again only while no answer was final.         *)
PostedOnce ==
  /\ post.copies <= post.attempt + 1 /\ post.attempt < MaxAttempts
  /\ Cardinality(post.over) <= 1
  /\ ~AtRest => post.answer \in {"none", "doubt"}
  /\ post.stage = "sent" => post.copies > 0

(* Every send settles.                                                            *)
PostsEnd == ~AtRest ~> AtRest

(* spec/16: nothing of the SDK that is idle keeps the process from its end.       *)
IdleLetsExit == AtRest => session = "none"
===============================================================================
