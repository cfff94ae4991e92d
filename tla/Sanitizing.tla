----------------------------- MODULE Sanitizing -----------------------------
(* How captured values are cut down and cleaned: cloneAndLimit, and cloneAndScrub *)
(* of pii/scrubber.ts.  A value is a node of a graph g, which may have cycles:    *)
(* [type, kids, size, secret], a kid being [key, to].  Types: "text" and "opaque" *)
(* (Error, Date, symbol, ...: not charged to the budget) and the containers.  A   *)
(* key is its kind: "plain", "sensitive", "operational" (idempotency-key, ...).   *)
EXTENDS Naturals, Integers, Sequences, SequencesExt

CONSTANTS MaxDepth, MaxItems, MaxKeys, MaxPayload,  \* SerializationLimits
          EntryOverhead                             \* ENTRY_OVERHEAD

Containers == {"object", "array", "map", "set"}
Mark(m) == [mark |-> m, kids |-> << >>, cut |-> FALSE, of |-> 0]
Least2(a, b) == IF a <= b THEN a ELSE b
Breadth(type) == IF type = "object" THEN MaxKeys ELSE MaxItems
Leading(s, n) == SubSeq(s, 1, Least2(Len(s), n))

(* cloneMap, cloneSet, cloneArray, cloneObject: entry by entry while the budget  *)
(* lasts; what is left out is flagged.                                           *)
RECURSIVE Clone(_, _, _, _, _)
(* Mutant: entries cut off by the budget are not flagged.                        *)
CloneKidsSilent(g, n, depth, visited, left) ==
  LET step(acc, kid) ==
        IF acc.left <= 0 THEN acc
        ELSE LET c == Clone(g, kid.to, depth + 1, visited \cup {n}, acc.left - EntryOverhead)
             IN  [acc EXCEPT !.kids = Append(@, c.out), !.left = c.left]
  IN  FoldLeft(step, [kids |-> << >>, left |-> left, cut |-> Len(g[n].kids) > Breadth(g[n].type)],
               Leading(g[n].kids, Breadth(g[n].type)))

CloneKids(g, n, depth, visited, left) ==
  LET step(acc, kid) ==
        IF acc.left <= 0 THEN [acc EXCEPT !.cut = TRUE]
        ELSE LET c == Clone(g, kid.to, depth + 1, visited \cup {n}, acc.left - EntryOverhead)
             IN  [acc EXCEPT !.kids = Append(@, c.out), !.left = c.left]
  IN  FoldLeft(step, [kids |-> << >>, left |-> left, cut |-> Len(g[n].kids) > Breadth(g[n].type)],
               Leading(g[n].kids, Breadth(g[n].type)))

(* cloneAndLimitInternal                                                         *)
Clone(g, n, depth, visited, left) ==
  IF left <= 0 THEN [out |-> Mark("size"), left |-> left]
  ELSE IF depth > MaxDepth THEN [out |-> Mark("depth"), left |-> left]
  ELSE IF g[n].type = "text" THEN [out |-> Mark("text"), left |-> left - Least2(g[n].size, left)]
  ELSE IF g[n].type = "opaque" THEN [out |-> Mark("opaque"), left |-> left]
  ELSE IF n \in visited THEN [out |-> Mark("circular"), left |-> left]
  ELSE LET k == CloneKids(g, n, depth, visited, left)
       IN  [out |-> [mark |-> g[n].type, kids |-> k.kids, cut |-> k.cut, of |-> n], left |-> k.left]

(* cloneAndScrub: a key decides before the value is looked at, an operational one *)
(* standing for the SDK's own paths as well; text is scrubbed by its patterns;    *)
(* there is no budget here.                                                      *)
ScrubDepth == IF MaxDepth > 10 THEN MaxDepth ELSE 10
RECURSIVE Scrub(_, _, _, _, _)
ScrubKids(g, n, depth, visited) ==
  [mark |-> g[n].type, of |-> n, cut |-> Len(g[n].kids) > Breadth(g[n].type),
   kids |-> [i \in 1..Least2(Len(g[n].kids), Breadth(g[n].type)) |->
               Scrub(g, g[n].kids[i].to, IF g[n].type = "object" THEN g[n].kids[i].key ELSE "plain",
                     depth + 1, visited \cup {n})]]

(* Mutant: an operational key shields the keys below it only after they were     *)
(* looked up, so a sensitive key is passed through with its parent.              *)
ScrubPatternsFirst(g, n, key, depth, visited) ==
  IF depth > ScrubDepth THEN Mark("depth")
  ELSE IF g[n].type = "text" THEN Mark(IF g[n].secret THEN "redacted" ELSE "text")
  ELSE IF key = "sensitive" THEN Mark("redacted")
  ELSE IF n \in visited THEN Mark("circular")
  ELSE ScrubKids(g, n, depth, visited)

Scrub(g, n, key, depth, visited) ==
  IF depth > ScrubDepth THEN Mark("depth")
  ELSE IF key = "operational" THEN Mark("passed")
  ELSE IF key = "sensitive" THEN Mark("redacted")
  ELSE IF g[n].type = "text" THEN Mark(IF g[n].secret THEN "redacted" ELSE "text")
  ELSE IF g[n].type = "opaque" THEN Mark("opaque")
  ELSE IF n \in visited THEN Mark("circular")
  ELSE ScrubKids(g, n, depth, visited)

RECURSIVE Subtrees(_)
Subtrees(t) == {t} \cup UNION {Subtrees(t.kids[i]) : i \in DOMAIN t.kids}
RECURSIVE Height(_)
Height(t) ==
  IF t.kids = << >> THEN 0
  ELSE 1 + CHOOSE h \in {Height(t.kids[i]) : i \in DOMAIN t.kids} :
             \A i \in DOMAIN t.kids : Height(t.kids[i]) <= h
RECURSIVE Entries(_)
Entries(t) == FoldLeft(LAMBDA a, k : a + 1 + Entries(k), 0, t.kids)

(* Cloning any value, shared and cyclic ones included, ends; the clone is no     *)
(* deeper than the limit, the budget bounds its entries even where values are    *)
(* not charged, and every container that lost an entry says so.                  *)
CloneSound(g, n) ==
  LET t == Clone(g, n, 0, {}, MaxPayload).out
  IN  /\ Height(t) <= MaxDepth + 1
      /\ Entries(t) * EntryOverhead < MaxPayload + EntryOverhead * (MaxDepth + 1)
      /\ \A s \in Subtrees(t) :
           s.mark \in Containers => s.cut \/ Len(s.kids) = Len(g[s.of].kids)

(* However a value is nested or shared, what the scrubber returns shows nothing  *)
(* under a sensitive key and no text that matches a pattern, and it has the      *)
(* shape of the value wherever it was not cut (cloneAndScrub).  Only what is     *)
(* under an operational key, or where the SDK's own numbers are, passes as it    *)
(* is, with any key below it.                                                    *)
ScrubSound(g, n) ==
  \A s \in Subtrees(Scrub(g, n, "plain", 0, {})) :
    s.mark \in Containers =>
      \A i \in DOMAIN s.kids :
        LET kid == g[s.of].kids[i]
        IN  /\ s.mark = "object" /\ kid.key = "sensitive" => s.kids[i].mark \in {"redacted", "depth"}
            /\ g[kid.to].type = "text" /\ g[kid.to].secret => s.kids[i].mark /= "text"
            /\ s.kids[i].mark = "passed" => s.mark = "object" /\ kid.key = "operational"
            /\ s.kids[i].mark = "circular" => g[kid.to].type \in Containers
=============================================================================
