----------------------------- MODULE MCCapturing -----------------------------
(* What a capture does besides recording, each part on its own: the modes and     *)
(* their controller, the debugger that reads the locals, the admission of a       *)
(* capture, the source maps; and the parts that compute, over bounded inputs,     *)
(* where a state is a task and the one step works out its result.                 *)
EXTENDS CaptureModeController, InspectorManager, CaptureAdmission, SourceMapCache,
        FrameSelection, LocalNames, Sanitizing, CapturedFields, PackageBuilding,
        ModeResolution, Ingest

-------------------------------------------------------------------------------
(* The capture modes of src/src/capture-mode.ts, with the default endpoints.      *)
MCModes == {"safe", "balanced", "forensic", "fast"}
MCAssembled == {"balanced", "forensic"}

(* Two objects of one class thrown in two places; an object beyond them would be *)
(* one that is no Error.                                                         *)
MCShape(name, count, hash, sig) ==
  [name |-> name, msg |-> "m", plain |-> "m", count |-> count, hash |-> hash,
   sig |-> sig, top |-> hash]
MCSeen == [o \in Thrown |->
  CASE o = "e1" -> MCShape("Error", 1, "f", "p1")
    [] o = "e2" -> MCShape("Error", 1, "g", "p2")
    [] OTHER    -> MCShape("NonErrorThrown", 1, "h", "p3")]
MCAsked == [o \in Thrown |->
  CASE o = "e1" -> MCShape("Error", 1, "f", "p1")
    [] o = "e2" -> MCShape("Error", 2, "h", "p2")
    [] OTHER    -> MCShape("Error", 1, "h", "p3")]

(* Two files of one map, one beside it, the other with its name, its own, or one  *)
(* that is not looked for.                                                        *)
MCKindsOf(f) == IF f = "a" THEN {"adjacent"} ELSE {"url", "inline", "outside"}
MCMapOf(f, k) == IF k = "inline" THEN f ELSE "a.map"

MCMinified(name) == name \in {"t", "u"}

-------------------------------------------------------------------------------
(* Tasks.                                                                         *)
UpTo(S, n) == UNION {[1..k -> S] : k \in 0..n}

Urls == {"none", "app", "lib", "webpack"}
SelectionTasks ==
  [alg : {"selection"},
   calls : UpTo([url : Urls, locals : BOOLEAN], 2) \cup [1..3 -> [url : Urls, locals : {TRUE}]],
   desc : UpTo({"app", "dist", "lib", "node"}, 2), mode : {"shallow", "deep"}, max : 1..2]

Mappings == [generated : {"t", "u", "key"}, original : {"order", "key", "u"}, near : {TRUE},
             source : BOOLEAN, line : {4, 7}, column : {1}, rank : {1}]
NameTasks ==
  [alg : {"names"}, locals : {<<"t">>, <<"t", "u">>, <<"u", "key", "t">>},
   mappings : {{m, n} : m \in Mappings, n \in Mappings}, line : {4}]

(* Graphs of three nodes, the last a leaf.                                       *)
Leaf(type, size, secret) == [type |-> type, kids |-> << >>, size |-> size, secret |-> secret]
Leaves == {Leaf("text", 1, FALSE), Leaf("text", 9, TRUE), Leaf("opaque", 0, FALSE)}
Inner(type, keys, n) ==
  [type : {type}, kids : UpTo([key : keys, to : 1..3], n), size : {0}, secret : {FALSE}]
Inners(n) == Inner("object", {"plain", "sensitive", "operational"}, n)
             \cup Inner("array", {"plain"}, n) \cup Inner("map", {"plain"}, n)
ValueTasks == {[alg |-> "value", graph |-> <<a, b, c>>] : a \in Inners(2), b \in Inners(1), c \in Leaves}

KeyKinds == {"plain", "sensitive", "operational"}
BodyTasks ==
  [alg : {"body"}, type : {"json", "form", "text", "binary", "multipart"}, parses : BOOLEAN,
   body : UpTo([key : KeyKinds, under : KeyKinds, written : {"field", "assigned"}, secret : BOOLEAN], 1)]
FieldTasks ==
  [alg : {"field"}, field : [name : BOOLEAN, pii : BOOLEAN, key : BOOLEAN, incoming : BOOLEAN,
    spool : BOOLEAN, bytes : {1, 5, 9}, fails : {"none", "detector", "encrypt", "spool"}]]

Options == [captureMode |-> {"fast", "balanced"}, adaptive |-> BOOLEAN, base |-> {"fast", "balanced"},
            escalated |-> {"balanced", "forensic"}, captureLocalVariables |-> BOOLEAN,
            captureBody |-> BOOLEAN, captureRequestBodies |-> BOOLEAN, payloadSpool |-> BOOLEAN,
            useWorkerAssembly |-> BOOLEAN, serverless |-> BOOLEAN, flushIntervalMs |-> {7},
            transport |-> {"http", "webhook", "file"}, allowUnencrypted |-> BOOLEAN,
            encryptionKey |-> {"k"}, https |-> BOOLEAN, allowPlainHttpTransport |-> BOOLEAN]
Chosen2(a, b) == {[x \in {a, b} |-> IF x = a THEN u ELSE v] : u \in Options[a], v \in Options[b]}
ModeTasks ==
  [alg : {"mode"}, env : [production : BOOLEAN, serverless : BOOLEAN, dek : {FALSE}, apiKey : {TRUE}],
   options : UNION {Chosen2(a, b) : a \in DOMAIN Options, b \in DOMAIN Options},
   path : [1..2 -> {"fast", "balanced", "forensic"}]]

Parties(chains, versions) == [chain : chains, mac : {NoKey, "m"}, version : versions]
Heads(bodies) == [v : {1, 2}, event : {"e1"}, kind : {"error", "payload_blob"}, blob : {NoKey, "b1"},
                  body : bodies]
RotationTasks ==
  [alg : {"rotation"}, p : Parties({<<"k1">>}, {1, 2}),
   q : Parties({<<"k1">>, <<"k2">>, <<"k2", "k1">>}, {2}),
   kdf : {"hkdf", "pbkdf2"}, head : Heads({"body"}),
   other : [v : {1, 2}, version : {1, 2}, event : {"e1", "e2"}, kind : {"error", "payload_blob"},
            blob : {NoKey, "b2"}]]
IngestTasks ==
  [alg : {"ingest"}, p : [chain : {<<"k1">>}, mac : {NoKey}, version : {1}],
   q : [chain : {<<"k1">>, <<"k2", "k1">>, <<"k2">>}, mac : {NoKey}, version : {2}], kdf : {"hkdf"},
   head : Heads([type : {"error", "payload_blob", "watchdog", "other"}, event : {"e1", "e2"},
                 blob : {NoKey, "b1", "b2"}, size : {1, 9}, json : BOOLEAN]),
   opts : [key : BOOLEAN, allow : BOOLEAN, limit : {5}, secret : {NoKey, "s"}], plain : BOOLEAN]

(* A body of a few bytes or one the estimate takes for nothing, in up to three     *)
(* events; sections with two entries, or one, or none.                            *)
MCBody == {{}, {[size |-> 4, est |-> 3]}, {[size |-> 1, est |-> 0]}}
MCEvent(body) == [requestBody |-> body, responseBody |-> {[size |-> 2, est |-> 2]},
                  truncated |-> {}, inbound |-> TRUE, ref |-> "spool", blob |-> "b1"]
MCEvents ==
  {MCEvent(b) : b \in MCBody}
  \cup {[MCEvent(b) EXCEPT !.responseBody = {}, !.ref = r, !.blob = "b2"] : b \in MCBody, r \in {"none", "spool"}}
MCSections == {[stateReads |-> r, concurrentRequests |-> n, evictionLog |-> n, stateWrites |-> r,
                ambientContext |-> IF n = 0 THEN Undefined ELSE n, localVariables |-> l] :
                 r \in {0, 2}, n \in {0, 1}, l \in {Undefined, 2}}
PackageTasks ==
  [alg : {"package"},
   parts : [timeline : UpTo(MCEvents, 2) \cup {<<MCEvent({}), x, y>> : x \in MCEvents, y \in {MCEvent({})}},
            sections : MCSections, base : {4}, frames : {0, 1}, usedAmbientEvents : BOOLEAN],
   max : {7, 30}, cap : {8, 20}, held : {{"b1"}}]

-------------------------------------------------------------------------------
VARIABLES part, task, result

pvars == <<part, task, result>>

NoTask == [alg |-> "none"]
Tasks == SelectionTasks \cup NameTasks \cup ValueTasks \cup BodyTasks \cup FieldTasks
         \cup ModeTasks \cup RotationTasks \cup IngestTasks \cup PackageTasks

MCInit ==
  /\ part \in {"modes", "inspector", "admission", "maps", "tasks"}
  /\ Init /\ IInit /\ AInit /\ MInit
  /\ part /= "inspector" => knobs = [on |-> FALSE, guarded |-> FALSE, cap |-> 1]
  /\ part /= "maps" => kind["b"] = "url" /\ \A m \in Maps : disk[m].content = "none"
  /\ IF part = "tasks" THEN task \in Tasks ELSE task = NoTask
  /\ result = << >>

Is(alg) == task.alg = alg
Result ==
  CASE Is("selection") -> Selected(task.calls, task.desc, task.mode, task.max)
    [] Is("names")     -> ResolveLocalNames(task.locals, task.mappings, task.line)
    [] Is("value")     -> Scrub(task.graph, 1, "plain", 0, {})
    [] Is("body")      -> ScrubBody(task.type, task.parses, task.body)
    [] Is("field")     -> Process(task.field)
    [] Is("package")   -> Build(task.parts, task.max, task.cap)
    [] Is("mode")      -> Compose(task.options, task.env)
    [] Is("rotation")  -> Decrypt(task.q, Seal(task.p, task.kdf, task.head))
    [] Is("ingest")    -> Receive(task.q, task.opts, OnWire(task.p, task.kdf, task.head, task.plain))
Done == result /= << >>
Compute == /\ task /= NoTask /\ ~Done
           /\ result' = <<Result>> /\ UNCHANGED <<part, task>>

(* A bound: an hour takes the place of a deployment.                              *)
MCFew == clock' + deploys' <= MaxDeploys

MCNext ==
  \/ part = "modes"     /\ Next /\ UNCHANGED <<ivars, avars, mvars, pvars>>
  \/ part = "inspector" /\ INext /\ UNCHANGED <<vars, avars, mvars, pvars>>
  \/ part = "admission" /\ ANext /\ UNCHANGED <<vars, ivars, mvars, pvars>>
  \/ part = "maps"      /\ MNext /\ MCFew /\ UNCHANGED <<vars, ivars, avars, pvars>>
  \/ part = "tasks"     /\ Compute /\ UNCHANGED <<vars, ivars, avars, mvars>>
MCSpec == MCInit /\ [][MCNext]_<<vars, ivars, avars, mvars, pvars>> /\ Fairness /\ IFairness

-------------------------------------------------------------------------------
(* What the controller set out to do it finishes: an escalation, and a shutdown.  *)
SwitchesEnd == EscalationEnds /\ ShutdownCompletes

(* The invariants of the modules that compute, for the task of the state: what a  *)
(* captured error shows (its locals and their names, values, bodies and fields,   *)
(* and the package around them) ...                                               *)
Shown ==
  /\ Is("selection") => SelectionSound(task.calls, task.desc, task.mode, task.max)
  /\ Is("names") => NamesSound(task.locals, task.mappings, task.line)
  /\ Is("value") => CloneSound(task.graph, 1) /\ ScrubSound(task.graph, 1)
  /\ Is("body") => BodySound(task.type, task.parses, task.body)
  /\ Is("field") => FieldFailsClosed(task.field)
  /\ Is("package") /\ Done =>
       \A bytes \in {task.cap, task.cap + 1} :
         PackageSound(task.parts, result[1], task.cap, bytes, task.held)

(* ... and what is configured, sealed and accepted at the other end.              *)
Wired ==
  /\ Is("mode") => ModeSound(task.options, task.env, task.path)
  /\ Is("rotation") => RotationSound(task.p, task.q, task.kdf, task.head, task.other)
  /\ Is("ingest") => IngestSound(task.p, task.q, task.kdf, task.head, task.opts, task.plain)

(* Said by a document or a comment, and not so.  spec/13: progressive shedding     *)
(* keeps a package under its size limit; encryption.ts, on FIELD_AAD_VERSION: a    *)
(* field an earlier SDK encrypted still decrypts.                                  *)
ShedHoldsLimit == Is("package") /\ Done => ShedKeepsUnderLimit(result[1], task.max)
FieldsSurvive == Is("rotation") => FieldsSurviveUpgrade(task.p, task.q, task.kdf, task.head)
===============================================================================
