---------------------- MODULE MCTransparentCompression ----------------------
(* Two filesystems, the device name of the first a part of that of the       *)
(* second (/dev/sda1, /dev/sda10), and two mount points, the first a part    *)
(* of the second; the first filesystem is given in lower and in upper case.  *)
EXTENDS TransparentCompression

MCUUIDs    == {"sda1", "sda10"}
MCSubjects == {"sda1"} \X Cases
MCPaths    == {"/data", "/data2"}
MCInText   == {<<p, p>> : p \in MCPaths} \cup {<<"/data", "/data2">>}
MCInDevice == {<<"sda1", "sda1">>, <<"sda1", "sda10">>, <<"sda10", "sda10">>}

\* A level that is asked for and must not be kept, and those that are.
MCLevels   == {-16, -15, 0, 3}

Options(preset, algo, level) == [preset |-> preset, algo |-> algo, level |-> level]

\* zstd with a level that is too low, an unknown preset with a level, and an
\* algorithm that is refused.
MCRequests == {Options({"light"}, {}, {-16}), Options({"huge"}, {"<default>"}, {5}),
               Options({"high"}, {"lz4"}, {})}

\* Two subjects of autostartctl, in lower case, that two callers edit.
MCTwoSubjects == MCUUIDs \X {"lower"}

\* Two histories: the names whose add to autostart.cfg has returned, and what
\* has been added to the settings last for each name, Off if nothing has.
VARIABLES added, latest

None == [n \in Names |-> Off]

AutostartInit == Init /\ added = {} /\ latest = None

\* The window adds filesystems to autostart, one call for each of them.
AutostartNext ==
  /\ UNCHANGED latest
  /\ \E c \in Callers :
    \/ /\ \E n \in Subjects :
            Free(c) /\ ReadForAdd(c, "autostart", [name |-> n, tail |-> Bare])
       /\ UNCHANGED <<table, option, task, added>>
    \/ /\ Truncate(c)
       /\ UNCHANGED <<table, option, task, added>>
    \/ /\ Write(c)
       /\ added' = added \cup {edit[c].lines[Len(edit[c].lines)].name}
       /\ UNCHANGED <<table, option, task>>

AutostartSpec == AutostartInit /\ [][AutostartNext]_<<vars, added, latest>>

(* beesdmgmt.hpp:86-87: add appends to the file; what it has appended is     *)
(* there once nobody is at work on the file.                                 *)
AddedStays ==
  (\A c \in Callers : edit[c] = Idle) =>
    \A n \in added : \E l \in Range(file["autostart"]) : l.name = n

\* A text of the settings has been written, or, if the file is empty still, lost;
\* its last line is the one that has been added last.
Written == \E c \in Callers :
  edit[c].at = "truncated" /\ edit[c].file = "compression" /\ edit'[c] = Idle

LatestNext ==
  IF ~Written THEN latest
  ELSE IF file'["compression"] = <<>> THEN None
  ELSE LET lines == file'["compression"]
           line  == lines[Len(lines)]
       IN  [latest EXCEPT ![line.name] = line.tail]

MCInit == Init /\ added = {} /\ latest = None
MCNext == Next /\ latest' = LatestNext /\ UNCHANGED added
MCSpec == MCInit /\ [][MCNext]_<<vars, added, latest>> /\ Fairness

(* With one caller, and while a filesystem has been added in one spelling    *)
(* only, a start of it in any spelling applies the setting added last, over  *)
(* refused algorithms, failed opens, crashes and removals, which remove      *)
(* nothing (against configfile.cpp:37).  The condition is a disagreement     *)
(* with beesdmgmt.hpp:86: added in two spellings, a filesystem has two lines *)
(* and a start reads the one that was added longer ago.                      *)
LastSettingRead ==
  \A n \in Subjects :
    LET said == {m \in Names : SameUuid(m, n) /\ latest[m] # Off}
    IN  (\A c \in Callers : edit[c].at # "truncated") /\ Cardinality(said) <= 1 =>
          Wanted(FirstLines("compression", n)) =
            IF said = {} THEN [algo |-> "lzo", level |-> 0]
            ELSE latest[CHOOSE m \in said : TRUE]

=============================================================================
