----------------------------- MODULE ConfigFile -----------------------------
(***************************************************************************)
(* The two configuration files (src/core/management/configfile.cpp and the *)
(* templates of beesdmgmt.hpp).  autostart.cfg holds bare UUIDs,           *)
(* transparentcompression.cfg lines "uuid algorithm [level]".  Both are    *)
(* changed by reading the file, truncating it and writing it again, with   *)
(* no lock: the callers are threads of the helper and processes of         *)
(* beekeeperman.                                                           *)
(*                                                                         *)
(* A name is a UUID as somebody typed it.  The lengths of lines are left   *)
(* open, except that those of autostart.cfg have one length.               *)
(***************************************************************************)
EXTENDS Integers, Sequences, FiniteSets, Functions, Subsequences

CONSTANTS
  UUIDs,     \* the filesystems
  Callers,   \* threads that edit the files
  Algorithms,\* what a user may name as an algorithm, right or wrong
  Levels     \* the levels that occur in lines

Files == {"autostart", "compression"}
Cases == {"lower", "upper"}
Names == UUIDs \X Cases

\* What stands for a name where there is none.
NoName == <<"", "">>
ASSUME NameAssumption == "" \notin UUIDs

\* The rest of a line after its first token; Bare is no rest.
Bare  == [algo |-> "", level |-> 0]
Tails == {Bare} \cup [algo : Algorithms, level : Levels]
Whole == [name : Names, tail : Tails]

\* The end of a line whose beginning another text has overwritten: no reader
\* finds a UUID in it, and one that is blank is as good as none.
Torn  == [name |-> NoName, tail |-> Bare]
Lines == Whole \cup {Torn}

\* Equal once both are in lower case.
SameUuid(n, o) == n[1] = o[1]

VARIABLES
  file,  \* [Files -> the lines of the file]
  edit   \* [Callers -> the edit the caller is in]

configVars == <<file, edit>>

Idle == [at |-> "idle", file |-> "autostart", read |-> <<>>, lines |-> <<>>]

Edits == [at : {"idle", "read", "truncated"}, file : Files,
          read : Seq(Lines), lines : Seq(Lines)]

ConfigTypeOK ==
  /\ file \in [Files -> Seq(Lines)]
  /\ edit \in [Callers -> Edits]

ConfigInit ==
  /\ file = [f \in Files |-> <<>>]
  /\ edit = [c \in Callers |-> Idle]

-----------------------------------------------------------------------------
(* Readers. *)

\* fetch(file, n, case-insensitive, 1): the first line that holds the name.
FirstLines(f, n) ==
  LET hits == Pick(file[f], {i \in DOMAIN file[f] : SameUuid(file[f][i].name, n)})
  IN  SubSeq(hits, 1, IF hits = <<>> THEN 0 ELSE 1)

-----------------------------------------------------------------------------
(* What an edit makes of the lines it has read. *)

\* add compares the first tokens as they are written ...
Replaces(line, l) == l.name = line.name
\* ... and remove the whole line in lower case: none with an algorithm.
Matches(n, l) == SameUuid(l.name, n) /\ l.tail = Bare

\* Two defects, for the mutants of the runs.
AddedTwice(lines, line) == Append(lines, line)
AddedAlone(lines, line) == <<line>>

Added(lines, line) ==
  Append(Pick(lines, {i \in DOMAIN lines : ~Replaces(line, lines[i])}), line)
Removed(lines, n) == Pick(lines, {i \in DOMAIN lines : ~Matches(n, lines[i])})

\* What may come of a text written at the start of a file that is no longer
\* empty: its length decides which lines stay behind it, and whether the first
\* of them is cut.
Overlay(f, new, old) ==
  LET Rest(k) == SubSeq(old, k, Len(old))
      Rests   == {Rest(k) : k \in 2 .. Len(old) + 1}
  IN  IF f = "autostart" \/ new = <<>> \/ old = <<>>
      THEN {new \o Rest(Len(new) + 1)}
      ELSE {new \o rest : rest \in Rests \cup {<<Torn>> \o r : r \in Rests}}

-----------------------------------------------------------------------------
(* An edit: read, truncate, write. *)

Read(c, f, lines) ==
  /\ edit[c].at = "idle"
  /\ edit' = [edit EXCEPT ![c] = [at |-> "read", file |-> f,
                                  read |-> file[f], lines |-> lines]]
  /\ UNCHANGED file

ReadForAdd(c, f, line) == Read(c, f, Added(file[f], line))
ReadForRemove(c, f, n) == Read(c, f, Removed(file[f], n))

\* outfile.is_open() is false: both functions return.
OpenFails(c) ==
  /\ edit[c].at = "read"
  /\ edit' = [edit EXCEPT ![c] = Idle]
  /\ UNCHANGED file

Truncate(c) ==
  /\ edit[c].at = "read"
  /\ file' = [file EXCEPT ![edit[c].file] = <<>>]
  /\ edit' = [edit EXCEPT ![c].at = "truncated"]

\* The buffer of the stream reaches the file when it is closed.
Write(c) ==
  /\ edit[c].at = "truncated"
  /\ \E lines \in Overlay(edit[c].file, edit[c].lines, file[edit[c].file]) :
       file' = [file EXCEPT ![edit[c].file] = lines]
  /\ edit' = [edit EXCEPT ![c] = Idle]

EditStep(c) == OpenFails(c) \/ Truncate(c) \/ Write(c)

\* autostartctl: its handler does nothing but one edit.
Autostart(c, n) ==
  \/ ReadForAdd(c, "autostart", [name |-> n, tail |-> Bare])
  \/ ReadForRemove(c, "autostart", n)

\* The helper ends: what is truncated stays empty.
ConfigCrash ==
  /\ edit' = [c \in Callers |-> Idle]
  /\ UNCHANGED file

-----------------------------------------------------------------------------
(* Properties of the files. *)

(* add replaces the line of its name: no name has two lines in a file.  It   *)
(* goes by the spelling of a UUID, against beesdmgmt.hpp:86, which says it   *)
(* does not: a filesystem has a line for each spelling it was added in.      *)
OneLinePerName ==
  \A f \in Files : \A i, j \in DOMAIN file[f] :
    /\ file[f][i].name # NoName
    /\ file[f][i].name = file[f][j].name
    => i = j

\* While a file is truncated its old lines stand for it.
Entries == [f \in Files |->
  LET open == {c \in Callers : edit[c].at = "truncated" /\ edit[c].file = f}
  IN  IF open = {} THEN Range(file[f])
      ELSE UNION {Range(edit[c].read) : c \in open}]

Abstract == INSTANCE ConfigSet
              WITH entries <- Entries, Lines <- Whole, Removable <- {"autostart"}

(* With one caller at a time an edit is atomic: it replaces the line of the  *)
(* name, or drops all lines of the UUID, or, in a crash, loses the file.     *)
(* Removable leaves out the file of the settings, against configfile.cpp:37, *)
(* which says that all occurrences are removed from any file: what           *)
(* compressctl has added, its removal does not take away.                    *)
ImplementsConfigSet == Abstract!Spec

=============================================================================
