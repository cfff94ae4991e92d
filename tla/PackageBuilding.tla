--------------------------- MODULE PackageBuilding ---------------------------
(* capture/package-builder.ts: how the parts of a capture become one package     *)
(* that fits the wire, and what the package says of itself; and what of it       *)
(* error-capturer.ts sends.  A body is a set of at most one record: size is what *)
(* it costs in JSON, est what estimateBodySize takes it for.  A section is the   *)
(* number of its entries, one byte each, Undefined where the field is absent.    *)
(* Everything else a package holds costs parts.base bytes.                       *)
EXTENDS SequencesExt, FiniteSetsExt, Integers

CONSTANTS Keep,        \* events a trimmed timeline keeps (50)
          Overhead,    \* estimate of the envelope around a package (256)
          RoughEvent,  \* what the rough estimate adds for an event (256)
          FieldWrap,   \* what a field record costs around its value
          FieldGuess   \* what estimateBodySize takes a field record for

Undefined == -1
Optional == {"ambientContext", "localVariables"}
Sides == {"requestBody", "responseBody"}

\* An entry of a section that may be absent is dropped by absence, the others by
\* emptiness.
Has(pkg, section) == IF section \in Optional THEN pkg.sections[section] /= Undefined
                     ELSE pkg.sections[section] > 0
Without(pkg, section) ==
  [pkg EXCEPT !.sections[section] = IF section \in Optional THEN Undefined ELSE 0]

\* Locals beyond the frames the stack renders belong to no line of it.
Clipped(parts) == parts.frames > 0 /\ parts.sections.localVariables > parts.frames
Aligned(parts) ==
  IF Clipped(parts) THEN [parts EXCEPT !.sections.localVariables = parts.frames] ELSE parts

Estimated(body) == SumSet({b.est : b \in body})
Guess(event) == Estimated(event.requestBody) + Estimated(event.responseBody)
Cost(event) == SumSet({b.size : b \in event.requestBody}) + SumSet({b.size : b \in event.responseBody})
EventsOf(pkg) == DOMAIN pkg.timeline
Total(Op(_), pkg) == FoldLeft(LAMBDA n, e : n + Op(e), 0, pkg.timeline)
Present(pkg) == {f \in DOMAIN pkg.sections : pkg.sections[f] > 0}

RoughSize(pkg) == pkg.base + Total(LAMBDA e : RoughEvent + Guess(e), pkg)
PackageSize(pkg) == pkg.base + Total(LAMBDA e : 1 + Cost(e), pkg)
                    + MapThenSumSet(LAMBDA f : pkg.sections[f], Present(pkg))

\* What the package says of itself, of the one it is computed from.
Completeness(parts, pkg) ==
  [ioTimelineCaptured |-> pkg.timeline /= << >>,
   ioPayloadsTruncated |-> Total(LAMBDA e : Cardinality(e.truncated), pkg),
   localVariablesCaptured |-> pkg.sections.localVariables > 0,
   stateReadsCaptured |-> pkg.sections.stateReads > 0,
   concurrentRequestsCaptured |-> pkg.sections.concurrentRequests > 0,
   frameAlignment |-> IF parts.sections.localVariables <= 0 THEN "none"
                      ELSE IF Clipped(parts) THEN "prefix_only" ELSE "full"]

(* Mutant: the flag is set for the request's side alone.                         *)
StripSilent(event) ==
  [event EXCEPT !.requestBody = {}, !.responseBody = {},
                !.truncated = @ \cup {x \in {"requestBody"} : event[x] /= {}}]

\* The body is gone and its flag says so.
Strip(event) ==
  [event EXCEPT !.requestBody = {}, !.responseBody = {},
                !.truncated = @ \cup {x \in Sides : event[x] /= {}}]

\* Bodies go, the largest first as far as the estimate can tell, until the
\* estimate fits; then one measurement decides about an ambient timeline and the
\* state reads, both by the same figure.
LargestBody(timeline) ==
  {i \in DOMAIN timeline : /\ Guess(timeline[i]) > 0
                           /\ \A j \in DOMAIN timeline : Guess(timeline[j]) <= Guess(timeline[i])
                           /\ \A j \in 1..(i - 1) : Guess(timeline[j]) < Guess(timeline[i])}
StripLargest(s, largest) ==
  [timeline |-> [s.timeline EXCEPT ![largest] = Strip(@)],
   size     |-> s.size - Guess(s.timeline[largest])]
ShedBodies(pkg, max) ==
  LET step(s, i) == IF s.size <= max \/ LargestBody(s.timeline) = {} THEN s
                    ELSE StripLargest(s, CHOOSE l \in LargestBody(s.timeline) : TRUE)
  IN [pkg EXCEPT !.timeline = FoldLeft(step, [timeline |-> @, size |-> PackageSize(pkg)],
                                       [i \in EventsOf(pkg) |-> i]).timeline]
ShedRest(parts, pkg, max) ==
  IF PackageSize(pkg) <= max THEN pkg
  ELSE Without([pkg EXCEPT !.timeline = IF parts.usedAmbientEvents THEN << >> ELSE @], "stateReads")
Described(parts, pkg) == [pkg EXCEPT !.completeness = Completeness(parts, pkg)]
ShedIfNeeded(parts, pkg, max) ==
  IF PackageSize(pkg) <= max THEN pkg
  ELSE Described(parts, ShedRest(parts, ShedBodies(pkg, max), max))

\* The last resort, in this order, until the estimate is within the cap.
Cuts == <<"ioTimeline:trim50", "ioTimeline:bodies", "stateReads", "concurrentRequests",
          "ambientContext", "evictionLog", "stateWrites", "localVariables">>
CanCut(pkg, cut) ==
  CASE cut = "ioTimeline:trim50" -> Len(pkg.timeline) > Keep
    [] cut = "ioTimeline:bodies" -> \E i \in EventsOf(pkg), x \in Sides : pkg.timeline[i][x] /= {}
    [] OTHER                     -> Has(pkg, cut)
Cut(pkg, cut) ==
  CASE cut = "ioTimeline:trim50" ->
         [pkg EXCEPT !.timeline = SubSeq(@, Len(@) - Keep + 1, Len(@))]
    [] cut = "ioTimeline:bodies" -> [pkg EXCEPT !.timeline = [i \in EventsOf(pkg) |-> Strip(@[i])]]
    [] OTHER                     -> Without(pkg, cut)
WithinCap(pkg, cap) == PackageSize(pkg) + Overhead <= cap

(* Mutant: what the package says of itself is not computed again.                *)
MarkTruncatedStale(parts, pkg, cut) == [pkg EXCEPT !.dropped = Append(@, cut)]

MarkTruncated(parts, pkg, cut) ==
  [pkg EXCEPT !.dropped = Append(@, cut), !.completeness = Completeness(parts, pkg)]
EnforceHardCap(parts, pkg, cap) ==
  FoldLeft(LAMBDA p, cut : IF WithinCap(p, cap) \/ ~CanCut(p, cut) THEN p
                           ELSE MarkTruncated(parts, Cut(p, cut), cut),
           pkg, Cuts)

\* The body of an incoming request that is in the spool leaves a reference.
FieldizedBody(event, side) ==
  {[size |-> FieldWrap + IF side = "requestBody" /\ event.inbound /\ event.ref = "spool" THEN 0
                         ELSE b.size,
    est |-> FieldGuess] : b \in event[side]}
Fieldize(pkg) ==
  [pkg EXCEPT !.timeline = [i \in EventsOf(pkg) |->
     [@[i] EXCEPT !.requestBody = FieldizedBody(pkg.timeline[i], "requestBody"),
                  !.responseBody = FieldizedBody(pkg.timeline[i], "responseBody")]]]
BuildFieldManifest(pkg) ==
  Total(LAMBDA e : Cardinality(e.requestBody) + Cardinality(e.responseBody), pkg)
  + MapThenSumSet(LAMBDA f : 2 * pkg.sections[f], Present(pkg) \cap {"stateReads", "stateWrites"})
  + (IF Has(pkg, "localVariables") THEN pkg.sections.localVariables ELSE 0)
Spooled(pkg) == {pkg.timeline[i].blob : i \in {j \in EventsOf(pkg) : pkg.timeline[j].ref = "spool"}}

Start(parts) ==
  [timeline |-> parts.timeline, sections |-> Aligned(parts).sections, base |-> parts.base,
   dropped |-> << >>, completeness |-> << >>, expected |-> {}, fields |-> 0]

\* The blobs are listed before anything more is shed.
BuildStages == <<"presize", "fieldize", "describe", "shed", "cap", "manifest">>
BuildStage(parts, pkg, max, cap, stage) ==
  CASE stage = "presize"  -> IF RoughSize(pkg) > 2 * max THEN ShedIfNeeded(parts, pkg, max) ELSE pkg
    [] stage = "fieldize" -> Fieldize(pkg)
    [] stage = "describe" -> [Described(parts, pkg) EXCEPT !.expected = Spooled(pkg)]
    [] stage = "shed"     -> ShedIfNeeded(parts, pkg, max)
    [] stage = "cap"      -> EnforceHardCap(parts, pkg, cap)
    [] stage = "manifest" -> [pkg EXCEPT !.fields = BuildFieldManifest(pkg)]
Build(parts, max, cap) ==
  FoldLeft(LAMBDA p, stage : BuildStage(parts, p, max, cap, stage), Start(parts), BuildStages)

\* A package whose envelope is over the cap after all is dropped, its blobs with
\* it; so is each blob that is.
DispatchTransport(bytes, cap) == bytes <= cap
DispatchPayloadBlobs(pkg, held) == Spooled(pkg) \cap held
Dispatch(pkg, bytes, cap, held) ==
  [package |-> DispatchTransport(bytes, cap),
   blobs |-> IF DispatchTransport(bytes, cap) THEN DispatchPayloadBlobs(pkg, held) ELSE {}]

-------------------------------------------------------------------------------
(* Within the cap, or nothing is left that may be dropped.                       *)
Fits(pkg, cap) == WithinCap(pkg, cap) \/ \A k \in DOMAIN Cuts : ~CanCut(pkg, Cuts[k])

(* What is less worth goes first: a section was cut only when every cut before it *)
(* had nothing left to take.                                                      *)
InOrder(pkg) == \A k \in DOMAIN Cuts, m \in DOMAIN Cuts :
                  (m < k /\ Cuts[k] \in Range(pkg.dropped)) => ~CanCut(pkg, Cuts[m])

(* Nothing is missing from a package that it does not own up to: what it lost to *)
(* the cap is named, a body that is gone is flagged, the flags are counted, and  *)
(* what it says was captured is what it holds.                                   *)
Accounted(parts, pkg) ==
  LET kept == [i \in EventsOf(pkg) |-> parts.timeline[Len(parts.timeline) - Len(pkg.timeline) + i]]
      c == pkg.completeness
  IN /\ \A f \in DOMAIN pkg.sections \ {"stateReads"} :
          pkg.sections[f] /= Aligned(parts).sections[f] <=> f \in Range(pkg.dropped)
     /\ Len(pkg.timeline) < Len(parts.timeline)
        => "ioTimeline:trim50" \in Range(pkg.dropped) \/ (pkg.timeline = << >> /\ parts.usedAmbientEvents)
     /\ \A i \in EventsOf(pkg), x \in Sides :
          (x \in pkg.timeline[i].truncated) <=> (kept[i][x] /= {} /\ pkg.timeline[i][x] = {})
     /\ c.ioPayloadsTruncated = FoldLeft(LAMBDA n, e : n + Cardinality(e.truncated), 0, pkg.timeline)
     /\ c.ioTimelineCaptured <=> pkg.timeline /= << >>
     /\ c.stateReadsCaptured <=> pkg.sections.stateReads > 0
     /\ c.localVariablesCaptured <=> pkg.sections.localVariables > 0
     /\ c.concurrentRequestsCaptured <=> pkg.sections.concurrentRequests > 0
     /\ c.frameAlignment = "full" /\ parts.frames > 0 => parts.sections.localVariables <= parts.frames

(* Every blob that is sent is one its package expects, and no blob is sent for a *)
(* package that was not.                                                         *)
BlobsExpected(pkg, sent) == sent.blobs \subseteq (IF sent.package THEN pkg.expected ELSE {})

PackageSound(parts, pkg, cap, bytes, held) ==
  /\ Fits(pkg, cap) /\ InOrder(pkg) /\ Accounted(parts, pkg)
  /\ BlobsExpected(pkg, Dispatch(pkg, bytes, cap, held))

(* spec/13-error-capture-pipeline.md: progressive shedding keeps package under    *)
(* size limit.                                                                    *)
ShedKeepsUnderLimit(pkg, max) == PackageSize(pkg) <= max
===============================================================================
