------------------------------ MODULE MCRecording ------------------------------
(* The recorders, each on its own: part says which.  What they share, the event  *)
(* buffer, has a module and a run of its own.  What follows once a body was cut  *)
(* into is of no interest to the properties here.                                *)
EXTENDS RequestContexts, BodyCapture, OutboundRecorders, DriverPatches

VARIABLE part
allvars == <<rvars, bvars, ovars, dvars, part>>

MCInbound == [r \in Requests |-> 3]
MCKinds == [r \in Requests |-> {"recorder", "raw", "hapi", "express", "hono", "wrapped"}]
MCKindsOf == [b \in Bodies |-> IF b = "b1" THEN {"inbound", "outbound", "request", "response", "fetch"}
                               ELSE {"request"}]
MCRequestOf == [b \in Bodies |-> IF b = "b1" THEN "r1" ELSE "r2"]
MCUrls == [f \in Fetches |-> IF f = "f3" THEN "u2" ELSE "u1"]
MCStatement == [q \in Queries |-> IF q = "q3" THEN "t2" ELSE "t1"]

MCInit ==
  /\ part \in {"contexts", "bodies", "fetches", "wraps", "queries"}
  /\ RInit /\ BInit /\ OInit /\ DInit
  /\ part /= "contexts" => recording /\ s.tracked = {}
  /\ part /= "bodies" => ~opts.spooling /\ ~opts.hashing

MCNext ==
  /\ UNCHANGED part
  /\ \/ part = "contexts" /\ RNext /\ UNCHANGED <<bvars, ovars, dvars>>
     \/ part = "bodies"   /\ ~hist.broken /\ BNext /\ UNCHANGED <<rvars, ovars, dvars>>
     \/ part = "fetches"  /\ ONext /\ UNCHANGED <<rvars, bvars, dvars>>
     \/ part = "wraps"    /\ WrapNext /\ UNCHANGED <<rvars, bvars, ovars>>
     \/ part = "queries"  /\ QueryNext /\ UNCHANGED <<rvars, bvars, ovars>>
MCSpec == MCInit /\ [][MCNext]_allvars /\ RFair

(* The bodies alone, whatever was cut into.                                       *)
OnlyBodies == /\ MCInit /\ part = "bodies"
              /\ [][BNext /\ UNCHANGED <<rvars, ovars, dvars, part>>]_allvars
================================================================================
