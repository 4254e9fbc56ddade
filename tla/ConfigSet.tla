----------------------------- MODULE ConfigSet -----------------------------
(***************************************************************************)
(* What the configuration files promise: each is a set of lines that an    *)
(* operation changes at once, as a whole.  A crash may lose all of them.   *)
(* A line has the name of a filesystem, <<UUID, spelling>>, and a rest.    *)
(***************************************************************************)
CONSTANTS
  Files, Lines, Names,
  Removable  \* the files that lines can be removed from

VARIABLE entries  \* [Files -> sets of lines]

Init == entries = [f \in Files |-> {}]

\* The new line takes the place of the one with its name, spelt as it is.
Add(f, line) ==
  entries' = [entries EXCEPT ![f] = {l \in @ : l.name # line.name} \cup {line}]

\* All lines of the filesystem go, whatever the spelling.
Remove(f, n) ==
  /\ f \in Removable
  /\ entries' = [entries EXCEPT ![f] = {l \in @ : l.name[1] # n[1]}]

\* The files that are being written when everything ends.
Lose(F) == entries' = [f \in Files |-> IF f \in F THEN {} ELSE entries[f]]

Next ==
  \/ \E f \in Files :
       \/ \E line \in Lines : Add(f, line)
       \/ \E n \in Names : Remove(f, n)
  \/ \E F \in SUBSET Files : Lose(F)

Spec == Init /\ [][Next]_entries

=============================================================================
