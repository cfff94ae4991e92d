--------------------------- MODULE FrameSelection ---------------------------
(* Which stack frames a capture shows locals of (selectInspectorFrames), how    *)
(* the stack is split between the application and others (stack-ownership.ts)   *)
(* and how locals supplied by instrumentation are merged (supplemental-locals).  *)
(* A path is its kind: "app", "dist" (a bundle of the application), "lib",       *)
(* "driver" (an instrumented library), "node", "sdk", or "none".                 *)
EXTENDS Naturals, Sequences, FiniteSets

AppPath(p) == p \in {"app", "dist", "webpack"}
LibPath(p) == p \in {"lib", "driver"}
Kind(p) == IF AppPath(p) THEN "app" ELSE IF LibPath(p) THEN "library" ELSE "excluded"

Lowest(S) == CHOOSE i \in S : \A j \in S : i <= j
FirstOf(S, n) == {i \in S : Cardinality({j \in S : j < i}) < n}

(* The kind of a call frame: its own url, or the rendered frame at its index if  *)
(* it has locals; webpack frames without either are taken for the application's. *)
Resolved(calls, desc) == [i \in DOMAIN calls |->
  LET c == calls[i]
      rendered == IF i \in DOMAIN desc THEN desc[i] ELSE "none"
  IN  IF c.url /= "none" THEN Kind(c.url)
      ELSE IF ~c.locals THEN "excluded"
      ELSE IF rendered = "none" /\ \E j \in DOMAIN calls : calls[j].url = "webpack" THEN "app"
      ELSE Kind(rendered)]

(* Without an application frame, the first frame that has locals and no url is   *)
(* taken if the rendered stack proves that the application is on it.             *)
Promoted(calls, desc) ==
  LET blind    == {i \in DOMAIN calls : calls[i].url = "none" /\ calls[i].locals}
      origin   == IF desc = << >> THEN "none" ELSE desc[1]
      foreign  == origin \notin {"none", "node"}
      evidence == \E i \in DOMAIN desc : desc[i] = "dist" \/ (foreign /\ AppPath(desc[i]))
  IN  IF evidence /\ blind /= {} /\ (Cardinality(blind) > 1 \/ foreign)
      THEN {Lowest(blind)} ELSE {}

Nearest(calls, desc) ==
  LET apps == {i \in DOMAIN calls : Resolved(calls, desc)[i] = "app"}
  IN  IF apps /= {} THEN {Lowest(apps)} ELSE Promoted(calls, desc)

LibraryLimit(mode) == CASE mode = "deep" -> 3 [] mode = "shallow" -> 1 [] OTHER -> 0

(* Mutant: the libraries are not held to the budget.                             *)
SelectedUnbudgeted(calls, desc, mode, max) ==
  LET budget == IF max < 1 THEN 1 ELSE max
      near == Nearest(calls, desc)
      kind == Resolved(calls, desc)
      libs == FirstOf({i \in DOMAIN calls : kind[i] = "library" /\ \A n \in near : i < n}, LibraryLimit(mode))
      rest == FirstOf({i \in DOMAIN calls : kind[i] = "app" /\ \A n \in near : i > n}, budget - 1)
  IN  IF near = {} THEN {} ELSE libs \cup near \cup rest

(* The nearest application frame, library frames above it, and application       *)
(* frames below it as far as the budget goes.                                    *)
Selected(calls, desc, mode, max) ==
  LET budget == IF max < 1 THEN 1 ELSE max
      near  == Nearest(calls, desc)
      kind  == Resolved(calls, desc)
      limit == IF LibraryLimit(mode) < budget - 1 THEN LibraryLimit(mode) ELSE budget - 1
      libs  == FirstOf({i \in DOMAIN calls : kind[i] = "library" /\ \A n \in near : i < n}, limit)
      rest  == FirstOf({i \in DOMAIN calls : kind[i] = "app" /\ \A n \in near : i > n},
                       budget - 1 - Cardinality(libs))
  IN  IF near = {} THEN {} ELSE libs \cup near \cup rest

(* analyzeStackOwnership: only node's own files and node_modules are external.   *)
External(p) == p = "node" \/ LibPath(p)
Ownership(desc) ==
  LET own == {i \in DOMAIN desc : ~External(desc[i])}
  IN  [origin   |-> IF desc /= << >> /\ External(desc[1]) THEN "external" ELSE "app",
       boundary |-> IF own = {} THEN 0 ELSE Lowest(own),
       app      |-> Cardinality(own),
       external |-> Len(desc) - Cardinality(own)]

(* mergeSupplementalLocals: a frame is a function from names to who supplied the *)
(* value; supplied locals are added to the first frame where it has none.        *)
MergeSupplemental(frames, extra, max) ==
  LET names  == UNION {DOMAIN extra[i] : i \in DOMAIN extra}
      merged == [n \in DOMAIN frames[1] \cup names |->
                   IF n \in DOMAIN frames[1] THEN frames[1][n] ELSE "supplied"]
      most(s) == IF Len(s) <= max THEN s ELSE SubSeq(s, 1, max)
  IN  IF extra = << >> THEN frames
      ELSE IF frames = << >> THEN most(extra)
      ELSE <<merged>> \o Tail(most(frames))

(* However the frames are named, the frames that are shown hold the nearest one  *)
(* of the application and keep to the budget; a larger budget never hides a      *)
(* frame; and where every frame has a url the frame shown first is the boundary  *)
(* of the stack, though two files draw it (selectInspectorFrames,                *)
(* analyzeStackOwnership).                                                       *)
SelectionSound(calls, desc, mode, max) ==
  LET shown == Selected(calls, desc, mode, max)
      urls  == [i \in DOMAIN calls |-> calls[i].url]
  IN  /\ Nearest(calls, desc) \subseteq shown
      /\ Cardinality(shown) <= (IF max < 1 THEN 1 ELSE max)
      /\ shown \subseteq Selected(calls, desc, mode, max + 1)
      /\ (\A i \in DOMAIN urls : urls[i] \notin {"none", "sdk"})
           => Nearest(calls, desc) = {Ownership(urls).boundary} \ {0}
=============================================================================
