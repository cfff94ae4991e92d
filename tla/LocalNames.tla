------------------------------ MODULE LocalNames ------------------------------
(* resolveLocalNames (capture/source-map-resolver.ts): locals of minified names   *)
(* are given back the names their source map knows them by.  A mapping is the     *)
(* generated name at its column, the original one, and what the choice looks at:  *)
(* is it on the frame's line and within the window of columns, is it of the       *)
(* frame's source, the original line it maps to and its distance in columns.      *)
EXTENDS SequencesExt, FiniteSetsExt, Integers

CONSTANTS Minified(_)   \* MINIFIED_LOCAL_RE

Distance(a, b) == IF a < b THEN b - a ELSE a - b

\* Mappings of a later line than the frame's own and two are of other code.
Candidates(locals, mappings, line) ==
  {m \in mappings : /\ m.near /\ m.source
                    /\ m.line <= line + 2
                    /\ ~Minified(m.original)
                    /\ m.generated \in Range(locals) /\ Minified(m.generated)}

\* The nearest line first, then the nearest column, then the name.
Better(m, n, line) ==
  \/ Distance(m.line, line) < Distance(n.line, line)
  \/ /\ Distance(m.line, line) = Distance(n.line, line)
     /\ m.column < n.column \/ (m.column = n.column /\ m.rank < n.rank)

(* Mutant: a name is given as often as a mapping asks for it.                     *)
GiveAgain(s, name, options, line) ==
  LET free == {m \in options : m.original \notin s.used}
      best == {m \in free : \A n \in free : n = m \/ Better(m, n, line)}
  IN IF best = {} THEN [s EXCEPT !.names = Append(@, name)]
     ELSE LET m == CHOOSE m \in best : TRUE
          IN [s EXCEPT !.names = Append(@, m.original)]

\* A name that a local has, or has been given, is not given again.
Give(s, name, options, line) ==
  LET free == {m \in options : m.original \notin s.used}
      best == {m \in free : \A n \in free : n = m \/ Better(m, n, line)}
  IN IF best = {} THEN [s EXCEPT !.names = Append(@, name)]
     ELSE LET m == CHOOSE m \in best : TRUE
          IN [names |-> Append(s.names, m.original), used |-> s.used \cup {m.original}]
ResolveLocalNames(locals, mappings, line) ==
  LET all == Candidates(locals, mappings, line)
  IN FoldLeft(LAMBDA s, name : Give(s, name, {m \in all : m.generated = name}, line),
              [names |-> << >>, used |-> Range(locals)], locals).names

(* The frame's locals are a record: no two of them may end up under one name, or  *)
(* the value of the first is lost.  A local that had a name of its own keeps it,  *)
(* and a new name is one the map gives for this local.                            *)
NamesSound(locals, mappings, line) ==
  LET names == ResolveLocalNames(locals, mappings, line)
  IN /\ Len(names) = Len(locals)
     /\ IsInjective(names)
     /\ \A i \in DOMAIN locals :
          names[i] /= locals[i] =>
            /\ Minified(locals[i])
            /\ \E m \in mappings : m.generated = locals[i] /\ m.original = names[i]
===============================================================================
