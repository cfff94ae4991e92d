--------------------------- MODULE ModeResolution ---------------------------
(* Configuration: what a capture mode resolves to (capture-mode.ts), how a      *)
(* switch of modes rewrites the configuration that the next switch is resolved  *)
(* from (applyModeStateToConfig), and which configurations are refused          *)
(* (config.ts).  The options o of the user are a function on those he set.      *)
EXTENDS Naturals, Sequences, FiniteSets, TLC

CONSTANTS FlushEvery, CachedLocals   \* defaults: flushIntervalMs, maxCachedLocals

Opt(o, key, default) == IF key \in DOMAIN o THEN o[key] ELSE default

(* MODE_DEFAULTS                                                                *)
AllRecorders == {"httpServer", "httpClient", "undici", "fetch", "netDns", "database",
                 "processHandlers", "transport"}
ModeDefaults(mode) ==
  LET rich == mode \in {"balanced", "forensic"}
      all  == mode = "forensic"
  IN  [captureLocalVariables |-> mode /= "fast", resolveSourceMaps |-> mode /= "fast",
       captureDbBindParams |-> all, captureRequestBodies |-> all,
       captureResponseBodies |-> all, captureBodyDigest |-> all,
       payloadSpool |-> rich, useWorkerAssembly |-> rich, flushIntervalMs |-> FlushEvery,
       recorders |-> IF rich THEN AllRecorders
                     ELSE IF mode = "safe" THEN {"processHandlers", "transport"} ELSE {"transport"}]

(* Mutant: an option that is not set keeps the value of the mode before.        *)
PickedSticky(o, cfg, mode, key) ==
  mode /= "fast" /\ Opt(o, key, Opt(cfg, key, ModeDefaults(mode)[key]))

(* Nothing the user sets overrides the fast mode.                               *)
Picked(o, cfg, mode, key) == mode /= "fast" /\ Opt(o, key, ModeDefaults(mode)[key])

Bodies == {"captureRequestBodies", "captureResponseBodies"}

(* Setting one direction makes both explicit; else captureBody decides.         *)
BodyPicked(o, cfg, mode, key) ==
  IF Bodies \cap DOMAIN o = {} /\ "captureBody" \in DOMAIN o
  THEN Picked(o, cfg, mode, "captureBody") ELSE Picked(o, cfg, mode, key)

(* resolveModeState and deriveCapabilities: cfg supplies what no mode decides.   *)
ResolveModeState(o, cfg, mode) ==
  LET pick(key) == Picked(o, cfg, mode, key)
      kept   == {"captureLocalVariables", "captureDbBindParams", "captureBodyDigest",
                 "resolveSourceMaps", "payloadSpool"}
      worker == IF cfg.serverless /\ "useWorkerAssembly" \notin DOMAIN o
                THEN FALSE ELSE pick("useWorkerAssembly")
      low    == mode \in {"fast", "safe"}
  IN  [key \in kept |-> pick(key)] @@ [key \in Bodies |-> BodyPicked(o, cfg, mode, key)] @@
      [captureMode |-> mode, recorders |-> ModeDefaults(mode).recorders,
       useWorkerAssembly |-> worker,
       captureBody |-> \A key \in Bodies : BodyPicked(o, cfg, mode, key),
       localVariablesMode |-> IF ~pick("captureLocalVariables") THEN "none"
                              ELSE IF mode = "forensic" THEN "deep" ELSE "shallow",
       localsGuard |-> pick("captureLocalVariables") /\ Opt(o, "localsGuard", TRUE),
       flushIntervalMs |-> IF mode = "fast" THEN 0
                           ELSE Opt(o, "flushIntervalMs", IF cfg.serverless THEN 0 ELSE FlushEvery),
       maxLocalsFrames |-> Opt(o, "maxLocalsFrames", IF mode = "forensic" THEN 10 ELSE 5),
       maxCachedLocals |-> Opt(o, "maxCachedLocals", cfg.maxCachedLocals),
       deferredDelivery |-> low /\ ~worker, syntheticInboundFallback |-> low,
       eventLoopLagMonitor |-> mode /= "fast",
       materializeBodies |-> pick("captureBodyDigest") \/ \E key \in Bodies : BodyPicked(o, cfg, mode, key)]

(* resolveCaptureModeSelection: adaptive capture replaces the configured mode.   *)
SelectMode(o) ==
  IF Opt(o, "adaptive", FALSE) THEN Opt(o, "base", "safe") ELSE Opt(o, "captureMode", "safe")

(* resolveConfig in the environment env: [production, serverless, dek, apiKey].  *)
Serverless(o, env) == Opt(o, "serverless", env.serverless)
AllowUnencrypted(o, env) == Opt(o, "allowUnencrypted", ~env.production)
TransportOf(o, env) == Opt(o, "transport", IF env.production THEN "none" ELSE "stdout")
HasKey(o, env) == "encryptionKey" \in DOMAIN o \/ env.dek \/ "encryptionKeyCallback" \in DOMAIN o
DeadLetterPath(o, env) ==
  IF "deadLetterPath" \in DOMAIN o THEN "configured"
  ELSE IF Serverless(o, env) THEN "none"
  ELSE CASE TransportOf(o, env) = "file" -> "beside_file"
         [] TransportOf(o, env) \in {"http", "webhook"} -> "cwd" [] OTHER -> "none"

Refusals(o, env) ==
  LET http  == TransportOf(o, env) = "http"
      plain == http /\ env.production /\ AllowUnencrypted(o, env) /\ ~HasKey(o, env)
      auth  == {"apiKey", "authorization"} \cap DOMAIN o
      same  == Opt(o, "adaptive", FALSE) /\ Opt(o, "base", "safe") = Opt(o, "escalated", "forensic")
      open  == TransportOf(o, env) \in {"http", "webhook"} /\ ~Opt(o, "https", TRUE)
               /\ ~Opt(o, "allowPlainHttpTransport", FALSE)
  IN  (IF same THEN {"adaptive"} ELSE {}) \cup
      (IF TransportOf(o, env) = "none" THEN {"transport"} ELSE {}) \cup
      (IF http /\ (Cardinality(auth) = 2 \/ (auth = {} /\ ~env.apiKey)) THEN {"auth"} ELSE {}) \cup
      (IF open THEN {"plain_http"} ELSE {}) \cup
      (IF Opt(o, "previousIsPrimary", FALSE) /\ "encryptionKey" \in DOMAIN o THEN {"keys"} ELSE {}) \cup
      (IF plain /\ ~Opt(o, "allowProductionPlaintext", FALSE) THEN {"plaintext"} ELSE {})

ResolveConfig(o, env) ==
  LET base == [serverless |-> Serverless(o, env), maxCachedLocals |-> Opt(o, "maxCachedLocals", CachedLocals)]
  IN  ResolveModeState(o, base, SelectMode(o)) @@ base

(* createSDKComposition: what of the configuration decides which parts exist.    *)
Compose(o, env) ==
  LET cfg == ResolveConfig(o, env)
      t   == TransportOf(o, env)
      signed == HasKey(o, env) \/ t = "http" \/ (t = "webhook" /\ Opt(o, "secret", TRUE))
  IN  [payloadSpool |-> cfg.payloadSpool, sourceMaps |-> cfg.resolveSourceMaps,
       worker    |-> cfg.useWorkerAssembly /\ ~Opt(o, "piiDetectors", FALSE),
       watchdog  |-> cfg.serverless /\ t = "http",
       deadLetters |-> DeadLetterPath(o, env) /= "none" /\ signed]

(* applyModeStateToConfig: the resolved mode overwrites the configuration.       *)
ApplyModeStateToConfig(cfg, state) == state @@ cfg

(* After any sequence of switches the configuration is the one of an SDK started *)
(* in the last mode, although each switch is resolved against what the switches  *)
(* before it left; the fast mode runs nothing but the transport; and deliveries  *)
(* are never both deferred and assembled by the worker (resolveModeState,        *)
(* applyModeStateToConfig).                                                      *)
ModeSound(o, env, path) ==
  LET step(cfg, mode) == ApplyModeStateToConfig(cfg, ResolveModeState(o, cfg, mode))
      walk[i \in 0..Len(path)] ==
        IF i = 0 THEN ResolveConfig(o, env) ELSE step(walk[i - 1], path[i])
      last  == walk[Len(path)]
      fresh == ResolveConfig([captureMode |-> path[Len(path)], adaptive |-> FALSE] @@ o, env)
      fast  == last.captureMode = "fast"
  IN  path /= << >> =>
        /\ last = fresh
        /\ fast => /\ last.recorders = {"transport"} /\ last.flushIntervalMs = 0
                   /\ ~last.materializeBodies /\ ~last.captureLocalVariables /\ ~last.payloadSpool
        /\ ~(last.deferredDelivery /\ last.useWorkerAssembly)
=============================================================================
