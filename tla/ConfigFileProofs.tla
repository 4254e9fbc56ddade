-------------------------- MODULE ConfigFileProofs --------------------------
(* What an edit makes of a file, for any filesystems and any settings: the    *)
(* types for any callers, and, as long as the edits of a file do not overlap,  *)
(* that no name has two lines and that an edit is one operation of ConfigSet.  *)
EXTENDS ConfigFile, SubsequenceProofs

\* The edits of a file do not overlap.  There may be any number of callers, and
\* they may edit different files at the same time.
EditsApart ==
  \A c, d \in Callers :
    /\ edit[c].at # "idle" /\ edit[d].at # "idle"
    /\ edit[c].file = edit[d].file
    => c = d

\* The lines that are meant for a file.
LinesOf(f) == {l \in Whole : l.tail = Bare <=> f = "autostart"}

LEMMA LinesOfFacts ==
  ASSUME NEW f
  PROVE  /\ LinesOf(f) \subseteq Whole /\ LinesOf(f) \subseteq Lines
         /\ \A l \in LinesOf(f) : l.name \in Names /\ l.name # NoName
<1>1. LinesOf(f) \subseteq Whole /\ LinesOf(f) \subseteq Lines
  BY DEF LinesOf, Lines
<1>2. NoName \notin Names
  <2>1. \A n \in Names : n[1] \in UUIDs
    BY DEF Names
  <2> QED
    BY <2>1, NameAssumption DEF NoName
<1>3. \A l \in Whole : l.name \in Names
  BY DEF Whole
<1> QED
  BY <1>1, <1>2, <1>3

\* No name has two of the lines.
OneEach(lines) == \A i, j \in DOMAIN lines : lines[i].name = lines[j].name => i = j

-----------------------------------------------------------------------------
(* What an edit makes of the lines. *)

LEMMA PickKeepsOneEach ==
  ASSUME NEW lines \in Seq(Lines), NEW I \in SUBSET (DOMAIN lines), OneEach(lines)
  PROVE  OneEach(Pick(lines, I))
<1> DEFINE C == Cardinality(I)
<1>1. Len(lines) \in Nat /\ I \in SUBSET (1 .. Len(lines))
  BY LenProperties
<1>2. /\ DOMAIN Pick(lines, I) = 1 .. C /\ C \in Nat
      /\ \A k \in 1 .. C : Pick(lines, I)[k] = lines[Places(I)[k]]
  BY PickFacts
<1>3. /\ \A k \in 1 .. C : Places(I)[k] \in I
      /\ \A k, l \in 1 .. C : k < l => Places(I)[k] < Places(I)[l]
  BY <1>1, PlacesFacts
<1>4. ASSUME NEW k \in 1 .. C, NEW l \in 1 .. C, Places(I)[k] = Places(I)[l]
      PROVE  k = l
  <2>1. \A m \in 1 .. C : Places(I)[m] \in Int
    BY <1>1, <1>3
  <2>2. ~(k < l) /\ ~(l < k)
    BY <1>3, <1>4, <2>1
  <2> QED
    BY <1>2, <2>2
<1> HIDE DEF C
<1>5. \A k, l \in 1 .. C :
        lines[Places(I)[k]].name = lines[Places(I)[l]].name => k = l
  BY <1>1, <1>3, <1>4 DEF OneEach
<1> QED
  BY <1>2, <1>5 DEF OneEach

\* The line is put in the place of the line of its name.
LEMMA AddedFacts ==
  ASSUME NEW lines \in Seq(Lines), NEW line \in Lines
  PROVE  /\ Added(lines, line) \in Seq(Lines)
         /\ Range(Added(lines, line)) = {l \in Range(lines) : ~Replaces(line, l)} \cup {line}
         /\ OneEach(lines) => OneEach(Added(lines, line))
<1> DEFINE I == {i \in DOMAIN lines : ~Replaces(line, lines[i])}
           rest == Pick(lines, I)
           C == Len(rest)
<1>1. rest \in Seq(Lines) /\ Range(rest) = {lines[i] : i \in I}
  BY PickFacts, PickRange
<1>2. /\ C \in Nat /\ DOMAIN rest = 1 .. C
      /\ Added(lines, line) = Append(rest, line)
  BY <1>1, LenProperties DEF Added
<1> HIDE DEF rest, C
<1>3. /\ Append(rest, line) \in Seq(Lines)
      /\ Len(Append(rest, line)) = C + 1
      /\ \A k \in 1 .. C : Append(rest, line)[k] = rest[k]
      /\ Append(rest, line)[C + 1] = line
  BY <1>1, AppendProperties DEF C
<1>4. DOMAIN Append(rest, line) = 1 .. C + 1
  BY <1>3, LenProperties
<1>5. Range(Append(rest, line)) = Range(rest) \cup {line}
  BY <1>2, <1>3, <1>4 DEF Range
<1>6. Range(rest) = {l \in Range(lines) : ~Replaces(line, l)}
  BY <1>1 DEF Range
<1>7. ASSUME OneEach(lines)  PROVE OneEach(Append(rest, line))
  <2>1. OneEach(rest)
    BY <1>7, PickKeepsOneEach DEF rest
  <2>2. \A k \in 1 .. C : rest[k] \in Range(rest)
    BY <1>2 DEF Range
  <2>3. \A k \in 1 .. C : rest[k].name # line.name
    BY <1>6, <2>2 DEF Replaces
  <2>4. \A k \in 1 .. C + 1 : k \in 1 .. C \/ k = C + 1
    BY <1>2
  <2> QED
    BY <1>2, <1>3, <1>4, <2>1, <2>3, <2>4 DEF OneEach
<1> QED
  BY <1>2, <1>3, <1>5, <1>6, <1>7

LEMMA RemovedFacts ==
  ASSUME NEW lines \in Seq(Lines), NEW n \in Names
  PROVE  /\ Removed(lines, n) \in Seq(Lines)
         /\ Range(Removed(lines, n)) = {l \in Range(lines) : ~Matches(n, l)}
         /\ OneEach(lines) => OneEach(Removed(lines, n))
<1> DEFINE I == {i \in DOMAIN lines : ~Matches(n, lines[i])}
<1>1. Pick(lines, I) \in Seq(Lines) /\ Range(Pick(lines, I)) = {lines[i] : i \in I}
  BY PickFacts, PickRange
<1>2. Removed(lines, n) = Pick(lines, I)
  BY DEF Removed
<1>3. Range(Pick(lines, I)) = {l \in Range(lines) : ~Matches(n, l)}
  BY <1>1 DEF Range
<1>4. OneEach(lines) => OneEach(Pick(lines, I))
  BY PickKeepsOneEach
<1> QED
  BY <1>1, <1>2, <1>3, <1>4

\* What a reader takes: at most one line of the file.
LEMMA FirstLinesType ==
  ASSUME ConfigTypeOK, NEW f \in Files, NEW n
  PROVE  /\ FirstLines(f, n) \in Seq(Lines)
         /\ FirstLines(f, n) # <<>> => FirstLines(f, n)[1] \in Lines
<1> DEFINE hits == Pick(file[f], {i \in DOMAIN file[f] : SameUuid(file[f][i].name, n)})
<1>1. file[f] \in Seq(Lines)
  BY DEF ConfigTypeOK
<1>2. hits \in Seq(Lines)
  BY <1>1, PickFacts
<1>3. FirstLines(f, n) = SubSeq(hits, 1, IF hits = <<>> THEN 0 ELSE 1)
  BY DEF FirstLines
<1> HIDE DEF hits
<1>4. CASE hits = <<>>
  <2>1. FirstLines(f, n) = <<>>
    BY <1>3, <1>4, SubSeqEmpty
  <2> QED
    BY <2>1, EmptySeq
<1>5. CASE hits # <<>>
  <2>1. Len(hits) \in Nat \ {0}
    BY <1>2, <1>5, EmptySeq
  <2>2. hits[1] \in Lines
    BY <1>2, <2>1, ElementOfSeq
  <2>3. SubSeq(hits, 1, 1) \in Seq(Lines) /\ SubSeq(hits, 1, 1)[1] = hits[1]
    BY <2>2, SubSeqProperties
  <2> QED
    BY <1>3, <1>5, <2>2, <2>3
<1> QED
  BY <1>4, <1>5

-----------------------------------------------------------------------------
(* The steps of the files. *)

\* A step of the two files, whoever takes it.
ConfigStep ==
  \/ \E c \in Callers, f \in Files : \E line \in LinesOf(f) : ReadForAdd(c, f, line)
  \/ \E c \in Callers, f \in Files, n \in Names : ReadForRemove(c, f, n)
  \/ \E c \in Callers : EditStep(c)
  \/ ConfigCrash
  \/ UNCHANGED configVars

LEMMA ReadType ==
  ASSUME ConfigTypeOK, NEW c \in Callers, NEW f \in Files, NEW lines \in Seq(Lines),
         Read(c, f, lines)
  PROVE  ConfigTypeOK'
<1>1. [at |-> "read", file |-> f, read |-> file[f], lines |-> lines] \in Edits
  BY DEF ConfigTypeOK, Edits
<1> QED
  BY <1>1 DEF ConfigTypeOK, Read

\* What follows a text that is written over another.
LEMMA RestFacts ==
  ASSUME NEW old \in Seq(Lines), NEW k \in Nat \ {0}
  PROVE  /\ SubSeq(old, k, Len(old)) \in Seq(Lines)
         /\ Range(SubSeq(old, k, Len(old))) \subseteq Range(old)
         /\ old = <<>> => SubSeq(old, k, Len(old)) = <<>>
<1>1. Len(old) \in Nat /\ DOMAIN old = 1 .. Len(old)
  BY LenProperties
<1>2. \A i \in k .. Len(old) : old[i] \in Range(old)
  BY <1>1 DEF Range
<1>3. SubSeq(old, k, Len(old)) \in Seq(Range(old))
  BY <1>1, <1>2, SubSeqProperties
<1>4. Range(old) \subseteq Lines
  BY RangeOfSeq
<1>5. ASSUME old = <<>>  PROVE SubSeq(old, k, Len(old)) = <<>>
  <2>1. Len(old) < k
    BY <1>5, EmptySeq
  <2> QED
    BY <1>1, <2>1, SubSeqEmpty
<1> QED
  BY <1>3, <1>4, <1>5, RangeOfSeq, SeqMonotonic

\* Two texts that overlap leave lines of the one and of the other, and a torn one.
LEMMA OverlayFacts ==
  ASSUME NEW f, NEW new \in Seq(Lines), NEW old \in Seq(Lines)
  PROVE  \A lines \in Overlay(f, new, old) :
           /\ lines \in Seq(Lines)
           /\ Range(lines) \subseteq Range(new) \cup Range(old) \cup {Torn}
<1> TAKE lines \in Overlay(f, new, old)
<1> DEFINE Rest(k) == SubSeq(old, k, Len(old))
<1>1. Len(new) \in Nat /\ Len(old) \in Nat
  BY LenProperties
<1>2. \A k \in Nat \ {0} :
        Rest(k) \in Seq(Lines) /\ Range(Rest(k)) \subseteq Range(old)
  BY RestFacts
<1>3. <<Torn>> \in Seq(Lines) /\ Range(<<Torn>>) = {Torn}
  <2>1. Torn \in Lines
    BY DEF Lines
  <2>2. <<Torn>> \in Seq(Lines) /\ DOMAIN <<Torn>> = {1} /\ <<Torn>>[1] = Torn
    BY <2>1
  <2> QED
    BY <2>2 DEF Range
<1>4. CASE f = "autostart" \/ new = <<>> \/ old = <<>>
  <2>1. lines = new \o Rest(Len(new) + 1)
    BY <1>4 DEF Overlay
  <2>2. Len(new) + 1 \in Nat \ {0}
    BY <1>1
  <2> HIDE DEF Rest
  <2>3. lines \in Seq(Lines) /\ Range(lines) = Range(new) \cup Range(Rest(Len(new) + 1))
    BY <1>2, <2>1, <2>2, ConcatProperties, RangeConcatenation
  <2> QED
    BY <1>2, <2>2, <2>3
<1>5. CASE ~(f = "autostart" \/ new = <<>> \/ old = <<>>)
  <2>1. PICK k \in 2 .. Len(old) + 1 :
          \/ lines = new \o Rest(k)
          \/ lines = new \o (<<Torn>> \o Rest(k))
    BY <1>5 DEF Overlay
  <2>2. k \in Nat \ {0}
    BY <1>1
  <2> DEFINE one == <<Torn>>
             r == Rest(k)
  <2> HIDE DEF one, r
  <2>5. one \in Seq(Lines) /\ r \in Seq(Lines)
    BY <1>2, <1>3, <2>2 DEF one, r
  <2>6. one \o r \in Seq(Lines) /\ Range(one \o r) = Range(one) \cup Range(r)
    BY <2>5, ConcatProperties, RangeConcatenation
  <2>3. /\ <<Torn>> \o Rest(k) \in Seq(Lines)
        /\ Range(<<Torn>> \o Rest(k)) = {Torn} \cup Range(Rest(k))
    BY <1>3, <2>6 DEF one, r
  <2>4. ASSUME NEW rest \in Seq(Lines), lines = new \o rest
        PROVE  lines \in Seq(Lines) /\ Range(lines) = Range(new) \cup Range(rest)
    BY <2>4, ConcatProperties, RangeConcatenation
  <2> QED
    BY <1>2, <2>1, <2>2, <2>3, <2>4
<1> QED
  BY <1>4, <1>5

LEMMA OverlayAlone ==
  ASSUME NEW f, NEW new \in Seq(Lines)
  PROVE  Overlay(f, new, <<>>) = {new}
<1>1. Len(new) + 1 \in Nat \ {0}
  BY LenProperties
<1>2. SubSeq(<<>>, Len(new) + 1, Len(<<>>)) = <<>>
  BY <1>1, RestFacts
<1>3. new \o <<>> = new
  BY ConcatEmptySeq
<1> QED
  BY <1>2, <1>3 DEF Overlay

LEMMA ConfigType == ConfigTypeOK /\ ConfigStep => ConfigTypeOK'
<1> SUFFICES ASSUME ConfigTypeOK, ConfigStep  PROVE ConfigTypeOK'
  OBVIOUS
<1>0. Idle \in Edits
  BY EmptySeq DEF Idle, Edits, Files
<1>1. ASSUME NEW c \in Callers, NEW f \in Files, NEW line \in LinesOf(f), ReadForAdd(c, f, line)
      PROVE  ConfigTypeOK'
  BY <1>1, ReadType, AddedFacts, LinesOfFacts DEF ReadForAdd, ConfigTypeOK
<1>2. ASSUME NEW c \in Callers, NEW f \in Files, NEW n \in Names, ReadForRemove(c, f, n)
      PROVE  ConfigTypeOK'
  BY <1>2, ReadType, RemovedFacts DEF ReadForRemove, ConfigTypeOK
<1>3. ASSUME NEW c \in Callers, EditStep(c)
      PROVE  ConfigTypeOK'
  <2>1. edit[c] \in Edits /\ edit[c].file \in Files /\ edit[c].lines \in Seq(Lines)
    BY DEF ConfigTypeOK, Edits
  <2>2. CASE OpenFails(c)
    BY <1>0, <2>2 DEF OpenFails, ConfigTypeOK
  <2>3. CASE Truncate(c)
    <3>1. [edit[c] EXCEPT !.at = "truncated"] \in Edits
      BY <2>1 DEF Edits
    <3>2. edit' \in [Callers -> Edits]
      BY <2>3, <3>1 DEF Truncate, ConfigTypeOK
    <3> QED
      BY <2>1, <2>3, <3>2, EmptySeq DEF Truncate, ConfigTypeOK
  <2>4. CASE Write(c)
    <3>0. file[edit[c].file] \in Seq(Lines)
      BY <2>1 DEF ConfigTypeOK
    <3>1. \A lines \in Overlay(edit[c].file, edit[c].lines, file[edit[c].file]) :
            lines \in Seq(Lines)
      <4> DEFINE new == edit[c].lines
                 old == file[edit[c].file]
      <4>1. new \in Seq(Lines) /\ old \in Seq(Lines)
        BY <2>1, <3>0
      <4> HIDE DEF new, old
      <4>2. \A lines \in Overlay(edit[c].file, new, old) : lines \in Seq(Lines)
        BY <4>1, OverlayFacts
      <4> QED
        BY <4>2 DEF new, old
    <3> QED
      BY <1>0, <2>1, <2>4, <3>1 DEF Write, ConfigTypeOK
  <2> QED
    BY <1>3, <2>2, <2>3, <2>4 DEF EditStep
<1>4. CASE ConfigCrash
  BY <1>0, <1>4 DEF ConfigCrash, ConfigTypeOK
<1>5. CASE UNCHANGED configVars
  BY <1>5 DEF configVars, ConfigTypeOK
<1> QED
  BY <1>1, <1>2, <1>3, <1>4, <1>5 DEF ConfigStep

LEMMA ConfigInitType == ConfigInit => ConfigTypeOK
<1>1. Idle \in Edits
  BY EmptySeq DEF Idle, Edits, Files
<1> QED
  BY <1>1, EmptySeq DEF ConfigInit, ConfigTypeOK

-----------------------------------------------------------------------------
(* Edits that do not overlap: an edit is atomic. *)

\* The lines are those of the file, none of them torn, and one for each name.
Proper(f, lines) == OneEach(lines) /\ Range(lines) \subseteq LinesOf(f)

LEMMA ProperEmpty == \A f : Proper(f, <<>>)
BY DEF Proper, OneEach, Range

\* What the caller has read is still what the file holds, or, truncated, held.
EditInv(c) ==
  edit[c].at # "idle" =>
    /\ edit[c].at = "read" => edit[c].read = file[edit[c].file]
    /\ edit[c].at = "truncated" => file[edit[c].file] = <<>>
    /\ Proper(edit[c].file, edit[c].read)
    /\ \/ \E line \in LinesOf(edit[c].file) : edit[c].lines = Added(edit[c].read, line)
       \/ \E n \in Names : edit[c].lines = Removed(edit[c].read, n)

ConfigInv ==
  /\ ConfigTypeOK
  /\ \A f \in Files : Proper(f, file[f])
  /\ \A c \in Callers : EditInv(c)

LEMMA ConfigInitInv == ConfigInit => ConfigInv
BY ConfigInitType, ProperEmpty DEF ConfigInit, ConfigInv, EditInv, Idle

LEMMA ReadInv ==
  ASSUME ConfigInv, NEW c \in Callers, NEW f \in Files, NEW lines \in Seq(Lines),
         Read(c, f, lines),
         \/ \E line \in LinesOf(f) : lines = Added(file[f], line)
         \/ \E n \in Names : lines = Removed(file[f], n)
  PROVE  ConfigInv'
<1>1. ConfigTypeOK'
  BY ReadType DEF ConfigInv
<1>2. /\ edit'[c] = [at |-> "read", file |-> f, read |-> file[f], lines |-> lines]
      /\ file' = file /\ \A d \in Callers \ {c} : edit'[d] = edit[d]
  BY DEF Read, ConfigInv, ConfigTypeOK
<1>3. Proper(f, file[f])
  BY DEF ConfigInv
<1>4. EditInv(c)'
  BY <1>2, <1>3 DEF EditInv
<1>5. \A d \in Callers \ {c} : EditInv(d)'
  BY <1>2 DEF ConfigInv, EditInv
<1> QED
  BY <1>1, <1>2, <1>4, <1>5 DEF ConfigInv

\* The lines an edit writes.
LEMMA WrittenProper ==
  ASSUME ConfigInv, NEW c \in Callers, edit[c].at # "idle"
  PROVE  Proper(edit[c].file, edit[c].lines)
<1>1. edit[c].read \in Seq(Lines) /\ Proper(edit[c].file, edit[c].read)
  BY DEF ConfigInv, ConfigTypeOK, Edits, EditInv
<1>2. ASSUME NEW line \in LinesOf(edit[c].file), edit[c].lines = Added(edit[c].read, line)
      PROVE  Proper(edit[c].file, edit[c].lines)
  BY <1>1, <1>2, AddedFacts, LinesOfFacts DEF Proper
<1>3. ASSUME NEW n \in Names, edit[c].lines = Removed(edit[c].read, n)
      PROVE  Proper(edit[c].file, edit[c].lines)
  BY <1>1, <1>3, RemovedFacts DEF Proper
<1> QED
  BY <1>2, <1>3 DEF ConfigInv, EditInv

\* Nobody else has the file open: the text stands alone.
LEMMA WriteAlone ==
  ASSUME ConfigInv, NEW c \in Callers, Write(c)
  PROVE  file' = [file EXCEPT ![edit[c].file] = edit[c].lines]
<1>1. /\ edit[c].file \in Files /\ edit[c].lines \in Seq(Lines)
      /\ file \in [Files -> Seq(Lines)]
  BY DEF ConfigInv, ConfigTypeOK, Edits
<1>2. file[edit[c].file] = <<>>
  BY DEF Write, ConfigInv, EditInv
<1>3. Overlay(edit[c].file, edit[c].lines, file[edit[c].file]) = {edit[c].lines}
  BY <1>1, <1>2, OverlayAlone
<1> QED
  BY <1>3 DEF Write

LEMMA ConfigStepInv == EditsApart /\ ConfigInv /\ ConfigStep => ConfigInv'
<1> SUFFICES ASSUME EditsApart, ConfigInv, ConfigStep  PROVE ConfigInv'
  OBVIOUS
<1>0. ConfigTypeOK'
  BY ConfigType DEF ConfigInv
<1>1. ASSUME NEW c \in Callers, NEW f \in Files, NEW line \in LinesOf(f), ReadForAdd(c, f, line)
      PROVE  ConfigInv'
  BY <1>1, ReadInv, AddedFacts, LinesOfFacts DEF ReadForAdd, ConfigInv, ConfigTypeOK
<1>2. ASSUME NEW c \in Callers, NEW f \in Files, NEW n \in Names, ReadForRemove(c, f, n)
      PROVE  ConfigInv'
  BY <1>2, ReadInv, RemovedFacts DEF ReadForRemove, ConfigInv, ConfigTypeOK
<1>3. ASSUME NEW c \in Callers, EditStep(c)
      PROVE  ConfigInv'
  <2> DEFINE g == edit[c].file
  <2>1. /\ edit[c] \in Edits /\ g \in Files /\ edit[c].lines \in Seq(Lines)
        /\ file \in [Files -> Seq(Lines)] /\ edit \in [Callers -> Edits]
    BY DEF ConfigInv, ConfigTypeOK, Edits
  <2>2. ASSUME edit[c].at # "idle",
               \A d \in Callers \ {c} : edit'[d] = edit[d],
               \A f \in Files \ {g} : file'[f] = file[f]
        PROVE  \A d \in Callers \ {c} : EditInv(d)'
    <3>1. \A d \in Callers \ {c} : edit[d].at # "idle" => edit[d].file \in Files \ {g}
      BY <2>1, <2>2 DEF EditsApart, Edits
    <3> QED
      BY <2>2, <3>1 DEF ConfigInv, EditInv
  <2>3. CASE OpenFails(c)
    <3>1. /\ edit'[c].at = "idle" /\ edit[c].at # "idle" /\ file' = file
          /\ \A d \in Callers \ {c} : edit'[d] = edit[d]
      BY <2>1, <2>3 DEF OpenFails, Idle
    <3>2. EditInv(c)'
      BY <3>1 DEF EditInv
    <3> QED
      BY <1>0, <2>2, <3>1, <3>2 DEF ConfigInv
  <2>4. CASE Truncate(c)
    <3>1. /\ edit'[c] = [edit[c] EXCEPT !.at = "truncated"]
          /\ file' = [file EXCEPT ![g] = <<>>] /\ edit[c].at = "read"
          /\ \A d \in Callers \ {c} : edit'[d] = edit[d]
      BY <2>1, <2>4 DEF Truncate
    <3>2. EditInv(c)'
      <4>1. /\ edit'[c].at = "truncated" /\ edit'[c].file = g
            /\ edit'[c].read = edit[c].read /\ edit'[c].lines = edit[c].lines
        BY <2>1, <3>1 DEF Edits
      <4>2. /\ Proper(g, edit[c].read)
            /\ \/ \E line \in LinesOf(g) : edit[c].lines = Added(edit[c].read, line)
               \/ \E n \in Names : edit[c].lines = Removed(edit[c].read, n)
        BY <3>1 DEF ConfigInv, EditInv
      <4>3. file'[g] = <<>>
        BY <2>1, <3>1
      <4> QED
        BY <4>1, <4>2, <4>3 DEF EditInv
    <3>4. \A f \in Files : Proper(f, file'[f])
      BY <2>1, <3>1, ProperEmpty DEF ConfigInv
    <3>5. \A d \in Callers \ {c} : EditInv(d)'
      BY <2>1, <2>2, <3>1
    <3> QED
      BY <1>0, <3>2, <3>4, <3>5 DEF ConfigInv
  <2>5. CASE Write(c)
    <3>1. /\ edit'[c].at = "idle" /\ edit[c].at = "truncated"
          /\ \A d \in Callers \ {c} : edit'[d] = edit[d]
      BY <2>1, <2>5 DEF Write, Idle
    <3>3. file' = [file EXCEPT ![g] = edit[c].lines]
      BY <1>2, <2>5, WriteAlone
    <3>4. Proper(g, edit[c].lines)
      BY <3>1, WrittenProper
    <3>5. \A f \in Files : Proper(f, file'[f])
      BY <2>1, <3>3, <3>4 DEF ConfigInv
    <3>6. EditInv(c)'
      BY <3>1 DEF EditInv
    <3>7. \A d \in Callers \ {c} : EditInv(d)'
      BY <2>1, <2>2, <3>1, <3>3
    <3> QED
      BY <1>0, <3>5, <3>6, <3>7 DEF ConfigInv
  <2> QED
    BY <1>3, <2>3, <2>4, <2>5 DEF EditStep
<1>4. CASE ConfigCrash
  BY <1>0, <1>4 DEF ConfigCrash, ConfigInv, EditInv, Idle
<1>5. CASE UNCHANGED configVars
  BY <1>0, <1>5 DEF configVars, ConfigInv, EditInv
<1> QED
  BY <1>1, <1>2, <1>3, <1>4, <1>5 DEF ConfigStep

LEMMA ConfigInvOneLine == ConfigInv => OneLinePerName
BY DEF ConfigInv, Proper, OneEach, OneLinePerName

-----------------------------------------------------------------------------
(* Each step is one of ConfigSet, or none. *)

\* The lines that stand for a file that no caller but c may have open.
LEMMA EntriesOfOne ==
  \A c \in Callers, f \in Files :
    (\A d \in Callers \ {c} : ~(edit[d].at = "truncated" /\ edit[d].file = f))
      => Entries[f] = IF edit[c].at = "truncated" /\ edit[c].file = f
                      THEN Range(edit[c].read) ELSE Range(file[f])
<1> SUFFICES ASSUME NEW c \in Callers, NEW f \in Files,
                    \A d \in Callers \ {c} : ~(edit[d].at = "truncated" /\ edit[d].file = f)
             PROVE  Entries[f] = IF edit[c].at = "truncated" /\ edit[c].file = f
                                 THEN Range(edit[c].read) ELSE Range(file[f])
  OBVIOUS
<1> DEFINE open == {d \in Callers : edit[d].at = "truncated" /\ edit[d].file = f}
<1>1. Entries[f] = IF open = {} THEN Range(file[f])
                   ELSE UNION {Range(edit[d].read) : d \in open}
  BY DEF Entries
<1>2. CASE edit[c].at = "truncated" /\ edit[c].file = f
  <2>1. open = {c}
    BY <1>2
  <2>2. UNION {Range(edit[d].read) : d \in open} = Range(edit[c].read)
    BY <2>1
  <2> QED
    BY <1>1, <1>2, <2>1, <2>2
<1>3. CASE ~(edit[c].at = "truncated" /\ edit[c].file = f)
  <2>1. open = {}
    BY <1>3
  <2> QED
    BY <1>1, <1>3, <2>1
<1> QED
  BY <1>2, <1>3

\* The same after a step.
LEMMA EntriesOfNext ==
  \A c \in Callers, f \in Files :
    (\A d \in Callers \ {c} : ~(edit'[d].at = "truncated" /\ edit'[d].file = f))
      => Entries'[f] = IF edit'[c].at = "truncated" /\ edit'[c].file = f
                       THEN Range(edit'[c].read) ELSE Range(file'[f])
<1> DEFINE Fact == \A c \in Callers, f \in Files :
             (\A d \in Callers \ {c} : ~(edit[d].at = "truncated" /\ edit[d].file = f))
               => Entries[f] = IF edit[c].at = "truncated" /\ edit[c].file = f
                               THEN Range(edit[c].read) ELSE Range(file[f])
<1>1. Fact
  BY EntriesOfOne
<1>2. Fact'
  BY <1>1, PTL
<1> QED
  BY <1>2

\* A step that leaves the file alone, and those that have it open.
LEMMA EntriesKept ==
  ASSUME NEW f \in Files, file'[f] = file[f],
         \A c \in Callers : \/ edit'[c] = edit[c]
                             \/ /\ ~(edit[c].at = "truncated" /\ edit[c].file = f)
                                /\ ~(edit'[c].at = "truncated" /\ edit'[c].file = f)
  PROVE  Entries'[f] = Entries[f]
<1> DEFINE Open == {c \in Callers : edit[c].at = "truncated" /\ edit[c].file = f}
<1>0. /\ Open = {c \in Callers : edit'[c].at = "truncated" /\ edit'[c].file = f}
      /\ \A c \in Open : edit'[c].read = edit[c].read
  OBVIOUS
<1>1. /\ Entries[f] = IF Open = {} THEN Range(file[f])
                      ELSE UNION {Range(edit[c].read) : c \in Open}
      /\ Entries'[f] = IF Open = {} THEN Range(file'[f])
                       ELSE UNION {Range(edit'[c].read) : c \in Open}
  BY <1>0 DEF Entries
<1> HIDE DEF Open
<1>2. {Range(edit[c].read) : c \in Open} = {Range(edit'[c].read) : c \in Open}
  BY <1>0
<1> QED
  BY <1>1, <1>2

\* A step that leaves what stands for each file alone is a stutter.
LEMMA EntriesSame ==
  ASSUME \A f \in Files : Entries'[f] = Entries[f]
  PROVE  Entries' = Entries
<1>1. Entries = [f \in Files |-> Entries[f]] /\ Entries' = [f \in Files |-> Entries'[f]]
  BY DEF Entries
<1> QED
  BY <1>1

\* What takes effect when the caller writes, and what is lost when it does not.
LEMMA EntriesChange ==
  ASSUME NEW g \in Files, NEW lines,
         Entries'[g] = lines, \A f \in Files \ {g} : Entries'[f] = Entries[f]
  PROVE  Entries' = [Entries EXCEPT ![g] = lines]
<1>1. DOMAIN Entries = Files /\ DOMAIN Entries' = Files
  BY DEF Entries
<1>2. Entries = [f \in Files |-> Entries[f]] /\ Entries' = [f \in Files |-> Entries'[f]]
  BY DEF Entries
<1> QED
  BY <1>1, <1>2

LEMMA ConfigInitRefines == ConfigInit => Abstract!Init
<1> SUFFICES ASSUME ConfigInit  PROVE Entries = [f \in Files |-> {}]
  BY DEF Abstract!Init
<1>1. \A f \in Files : Entries[f] = {}
  BY DEF ConfigInit, Idle, Entries, Range
<1>2. Entries = [f \in Files |-> Entries[f]]
  BY DEF Entries
<1> QED
  BY <1>1, <1>2

LEMMA ConfigStepRefines == EditsApart /\ ConfigInv /\ ConfigStep => [Abstract!Next]_Entries
<1> SUFFICES ASSUME EditsApart, ConfigInv, ConfigStep
             PROVE  [Abstract!Next]_Entries
  OBVIOUS
<1>1. ASSUME NEW c \in Callers, NEW f \in Files, NEW lines, Read(c, f, lines)
      PROVE  Entries' = Entries
  <2>1. /\ edit[c].at = "idle" /\ edit'[c].at = "read" /\ file' = file
        /\ \A d \in Callers \ {c} : edit'[d] = edit[d]
    BY <1>1 DEF Read, ConfigInv, ConfigTypeOK
  <2>2. \A h \in Files : Entries'[h] = Entries[h]
    BY <2>1, EntriesKept
  <2> QED
    BY <2>2, EntriesSame
<1>2. ASSUME NEW c \in Callers, EditStep(c)
      PROVE  [Abstract!Next]_Entries
  <2> DEFINE g == edit[c].file
  <2>1. /\ edit[c] \in Edits /\ g \in Files /\ edit[c].lines \in Seq(Lines)
        /\ edit[c].read \in Seq(Lines)
        /\ file \in [Files -> Seq(Lines)] /\ edit \in [Callers -> Edits]
    BY DEF ConfigInv, ConfigTypeOK, Edits
  <2>2. edit[c].at # "idle" /\ \A d \in Callers \ {c} : edit'[d] = edit[d]
    BY <1>2, <2>1 DEF EditStep, OpenFails, Truncate, Write
  <2>3. \A d \in Callers \ {c} : ~(edit[d].at = "truncated" /\ edit[d].file = g)
    BY <2>2 DEF EditsApart
  <2>4. Entries[g] = IF edit[c].at = "truncated" THEN Range(edit[c].read) ELSE Range(file[g])
    BY <2>1, <2>3, EntriesOfOne
  <2>5. Entries'[g] = IF edit'[c].at = "truncated" /\ edit'[c].file = g
                       THEN Range(edit'[c].read) ELSE Range(file'[g])
    BY <2>1, <2>2, <2>3, EntriesOfNext
  <2>6. ASSUME edit'[c].at = "idle" \/ edit'[c].file = g,
                NEW f \in Files \ {g}, file'[f] = file[f]
         PROVE  Entries'[f] = Entries[f]
    BY <2>2, <2>6, EntriesKept
  <2>7. CASE OpenFails(c)
    <3>1. edit[c].at = "read" /\ edit'[c].at = "idle" /\ file' = file
      BY <2>1, <2>7 DEF OpenFails, Idle
    <3>2. \A f \in Files : Entries'[f] = Entries[f]
      BY <2>1, <2>4, <2>5, <2>6, <3>1
    <3> QED
      BY <3>2, EntriesSame
  <2>8. CASE Truncate(c)
    <3>1. /\ edit'[c] = [edit[c] EXCEPT !.at = "truncated"]
          /\ file' = [file EXCEPT ![g] = <<>>] /\ edit[c].at = "read"
      BY <2>1, <2>8 DEF Truncate
    <3>2. edit[c].read = file[g]
      BY <3>1 DEF ConfigInv, EditInv
    <3>3. /\ edit'[c].at = "truncated" /\ edit'[c].file = g
          /\ edit'[c].read = edit[c].read
      BY <2>1, <3>1 DEF Edits
    <3>4. \A f \in Files : Entries'[f] = Entries[f]
      BY <2>1, <2>4, <2>5, <2>6, <3>1, <3>2, <3>3
    <3> QED
      BY <3>4, EntriesSame
  <2>9. CASE Write(c)
    <3>1. edit'[c].at = "idle" /\ edit[c].at = "truncated"
      BY <2>1, <2>9 DEF Write, Idle
    <3>3. file' = [file EXCEPT ![g] = edit[c].lines]
      BY <1>2, <2>9, WriteAlone
    <3>4. /\ Entries[g] = Range(edit[c].read) /\ Entries'[g] = Range(edit[c].lines)
          /\ \A f \in Files \ {g} : Entries'[f] = Entries[f]
      BY <2>1, <2>4, <2>5, <2>6, <3>1, <3>3
    <3>5. Entries' = [Entries EXCEPT ![g] = Range(edit[c].lines)]
      BY <2>1, <3>4, EntriesChange
    <3>6. DOMAIN Entries = Files
      BY DEF Entries
    <3>0. Range(edit[c].read) \subseteq LinesOf(g)
      BY <3>1 DEF ConfigInv, EditInv, Proper
    <3>7. CASE \E line \in LinesOf(g) : edit[c].lines = Added(edit[c].read, line)
      <4>1. PICK line \in LinesOf(g) : edit[c].lines = Added(edit[c].read, line)
        BY <3>7
      <4>2. Range(edit[c].lines) = {l \in Entries[g] : l.name # line.name} \cup {line}
        BY <2>1, <3>4, <4>1, AddedFacts, LinesOfFacts DEF Replaces
      <4>3. Abstract!Add(g, line)
        BY <3>5, <4>2 DEF Abstract!Add
      <4> QED
        BY <2>1, <4>1, <4>3, LinesOfFacts DEF Abstract!Next
    <3>8. CASE \E n \in Names : edit[c].lines = Removed(edit[c].read, n)
      <4>1. PICK n \in Names : edit[c].lines = Removed(edit[c].read, n)
        BY <3>8
      <4>2. Range(edit[c].lines) = {l \in Entries[g] : ~Matches(n, l)}
        BY <2>1, <3>4, <4>1, RemovedFacts
      <4>3. CASE g = "autostart"
        <5>1. \A l \in Entries[g] : Matches(n, l) <=> l.name[1] = n[1]
          BY <3>0, <3>4, <4>3 DEF LinesOf, Matches, SameUuid
        <5>2. Abstract!Remove(g, n)
          BY <3>5, <4>2, <4>3, <5>1 DEF Abstract!Remove
        <5> QED
          BY <2>1, <5>2 DEF Abstract!Next
      <4>4. CASE g # "autostart"
        <5>1. \A l \in Entries[g] : ~Matches(n, l)
          BY <3>0, <3>4, <4>4 DEF LinesOf, Matches
        <5>2. Entries'[g] = Entries[g]
          BY <3>4, <4>2, <5>1
        <5> QED
          BY <3>4, <5>2, EntriesSame
      <4> QED
        BY <4>3, <4>4
    <3> QED
      BY <3>1, <3>7, <3>8 DEF ConfigInv, EditInv
  <2> QED
    BY <1>2, <2>7, <2>8, <2>9 DEF EditStep
<1>3. CASE ConfigCrash
  <2>1. \A c \in Callers : edit'[c].at = "idle"
    BY <1>3 DEF ConfigCrash, Idle
  <2>2. file' = file
    BY <1>3 DEF ConfigCrash
  <2>3. \A f \in Files : Entries'[f] = Range(file[f])
    BY <2>1, <2>2 DEF Entries
  <2> DEFINE F == {f \in Files : \E c \in Callers : edit[c].at = "truncated" /\ edit[c].file = f}
  <2>4. \A f \in F : Entries'[f] = {}
    BY <2>3 DEF ConfigInv, EditInv, Range
  <2>5. \A f \in Files \ F : Entries'[f] = Entries[f]
    BY <2>3 DEF Entries
  <2>6. Entries' = [f \in Files |-> Entries'[f]]
    BY DEF Entries
  <2>7. Abstract!Lose(F)
    BY <2>4, <2>5, <2>6 DEF Abstract!Lose
  <2> QED
    BY <2>7 DEF Abstract!Next
<1>4. CASE UNCHANGED configVars
  BY <1>4 DEF configVars, Entries
<1> QED
  BY <1>1, <1>2, <1>3, <1>4 DEF ConfigStep, ReadForAdd, ReadForRemove

=============================================================================
