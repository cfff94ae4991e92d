----------------------------- MODULE FileRotation -----------------------------
(* The file transport under concurrent sends (transport/file-transport.ts, and   *)
(* its copy in the worker's source in transport/transport.ts): rotation by size, *)
(* backups and appends.  Every call of the file system is a step.  A file keeps   *)
(* its number when it is renamed; an append that opened it goes on with it,      *)
(* wherever it is by then.  A line is one unit long.                             *)
EXTENDS Naturals, Sequences, Functions, FiniteSetsExt

CONSTANTS MaxLines,     \* sends of a run: a bound of the model
          MaxInFlight,  \* sends under way at a time: a bound of the model
          MaxSize,      \* maxSizeBytes
          MaxBackups

ASSUME RotationAssumption ==
  MaxInFlight \in Nat \ {0} /\ {MaxLines, MaxSize, MaxBackups} \subseteq Nat

VARIABLES
  call,     \* the sends: [stage, on, name, file]
  rotation, \* rotatePromise: the send whose rotateOnce it is, or 0
  named,    \* rotateCounter
  path,     \* the file at the path, or 0
  lines,    \* the lines of each file
  backups,  \* names of backups |-> files
  moved,    \* the files in the order they were renamed: a history
  raced     \* two rotations went for one file: a history
rotvars == <<call, rotation, named, path, lines, backups, moved, raced>>

Sends == DOMAIN call
At(stage) == {i \in Sends : call[i].stage = stage}
InFlight == Sends \ (At("accepted") \cup At("rejected"))

RotInit ==
  /\ call = << >> /\ rotation = 0 /\ named = 0 /\ path = 0 /\ lines = << >>
  /\ backups = << >> /\ moved = << >> /\ raced = FALSE

-------------------------------------------------------------------------------
(* rotateIfNeeded: whoever finds a rotation under way waits for it, and looks     *)
(* for itself after it.                                                           *)
Arrive ==
  LET i == Len(call) + 1
  IN  /\ i <= MaxLines /\ Cardinality(InFlight) < MaxInFlight    \* bounds
      /\ call' = Append(call, [stage |-> IF rotation = 0 THEN "stat" ELSE "waiting",
                              on |-> rotation, name |-> 0, file |-> 0])
      /\ rotation' = IF rotation = 0 THEN i ELSE rotation
      /\ UNCHANGED <<named, path, lines, backups, moved, raced>>

(* rotateOnce of send i ends.  Its own continuation comes first and clears the    *)
(* promise, whosever it is; then those that waited set it one after the other, so *)
(* that the last one's stays.  A failure is theirs as well.                       *)
Waiting(i) == {j \in At("waiting") : call[j].on = i}
Ends(i, ok) ==
  /\ call' = [j \in Sends |->
       IF j = i THEN [call[j] EXCEPT !.stage = IF ok THEN "open" ELSE "rejected"]
       ELSE IF j \in Waiting(i) THEN [call[j] EXCEPT !.stage = IF ok THEN "stat" ELSE "rejected"]
       ELSE call[j]]
  /\ rotation' = IF ok /\ Waiting(i) /= {} THEN Max(Waiting(i)) ELSE 0

TooLarge == path /= 0 /\ Len(lines[path]) > MaxSize
Name == named + 1

Rotating == At("rename") \cup At("cleanup")
StatPath(i) ==
  /\ call[i].stage = "stat"
  /\ IF TooLarge
     THEN /\ call' = [call EXCEPT ![i].stage = "rename", ![i].name = Name]
          /\ named' = named + 1 /\ raced' = (raced \/ Rotating /= {})
          /\ UNCHANGED rotation
     ELSE Ends(i, TRUE) /\ UNCHANGED <<named, raced>>
  /\ UNCHANGED <<path, lines, backups, moved>>

Rename(i) ==
  /\ call[i].stage = "rename" /\ path /= 0
  /\ path' = 0 /\ moved' = Append(moved, path)
  /\ backups' = [n \in DOMAIN backups \cup {call[i].name} |->
                   IF n = call[i].name THEN path ELSE backups[n]]
  /\ call' = [call EXCEPT ![i].stage = "cleanup"]
  /\ UNCHANGED <<rotation, named, lines, raced>>

(* Another send has renamed the file, or the disk refuses.                        *)
RenameFails(i) ==
  /\ call[i].stage = "rename"
  /\ Ends(i, FALSE)
  /\ UNCHANGED <<named, path, lines, backups, moved, raced>>

(* The backups of the latest names stay.  (Names are sorted as text, which is     *)
(* their order but for ten rotations within a millisecond.)                       *)
CleanupOldBackups(i) ==
  LET kept == {n \in DOMAIN backups :
                 Cardinality({m \in DOMAIN backups : m > n}) < MaxBackups}
  IN  /\ call[i].stage = "cleanup"
      /\ backups' = Restrict(backups, kept)
      /\ Ends(i, TRUE)
      /\ UNCHANGED <<named, path, lines, moved, raced>>

-------------------------------------------------------------------------------
(* fs.appendFile opens the file, makes it if there is none, and then writes.      *)
OpenAppend(i) ==
  /\ call[i].stage = "open"
  /\ IF path = 0
     THEN path' = Len(lines) + 1 /\ lines' = Append(lines, << >>)
     ELSE UNCHANGED <<path, lines>>
  /\ call' = [call EXCEPT ![i].stage = "write", ![i].file = path']
  /\ UNCHANGED <<rotation, named, backups, moved, raced>>

WriteLine(i) ==
  /\ call[i].stage = "write"
  /\ lines' = [lines EXCEPT ![call[i].file] = Append(@, i)]
  /\ call' = [call EXCEPT ![i].stage = "accepted"]
  /\ UNCHANGED <<rotation, named, path, backups, moved, raced>>

AppendFails(i) ==
  /\ call[i].stage \in {"open", "write"}
  /\ call' = [call EXCEPT ![i].stage = "rejected"]
  /\ UNCHANGED <<rotation, named, path, lines, backups, moved, raced>>

RotStep ==
  \E i \in Sends : StatPath(i) \/ Rename(i) \/ RenameFails(i) \/ CleanupOldBackups(i)
                   \/ OpenAppend(i) \/ WriteLine(i) \/ AppendFails(i)
RotNext == Arrive \/ RotStep
RotSpec == RotInit /\ [][RotNext]_rotvars
RotFair == WF_rotvars(RotStep)

-------------------------------------------------------------------------------
(* maxSizeBytes bounds the file but for the sends that found it small enough and  *)
(* are still under way, however rotations and appends overlap (rotateOnce).       *)
FileBounded == path /= 0 => Len(lines[path]) <= MaxSize + MaxInFlight

(* What was accepted is at the path or in a backup until maxBackups younger        *)
(* files have been renamed.  Two appends escape the rule: one that opened its      *)
(* file before it was renamed and wrote after, and any after two rotations went   *)
(* for one file, since they name it before they move it.                          *)
Younger(f) == LET at == CHOOSE n \in DOMAIN moved : moved[n] = f IN Len(moved) - at
LineKept ==
  raced \/ \A i \in At("accepted") :
    LET f == call[i].file
    IN  f = path \/ f \in Range(backups) \/ Younger(f) >= MaxBackups

(* No send waits for a rotation that has ended: when no more are made, all are      *)
(* accepted or rejected (the sends of a run are bounded).                          *)
SendsEnd == InFlight /= {} ~> InFlight = {}

(* The comment on rotatePromise: rotations are serialized, so that two sends that  *)
(* find the file too large do not both rename it.                                  *)
RotationsSerialized == ~raced
===============================================================================
