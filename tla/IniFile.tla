-------------------------------- MODULE IniFile --------------------------------
(***************************************************************************)
(* ini.h: a structure is loaded from, saved to, initialized without, or    *)
(* printed like an ini file by giving its items, one by one, to an         *)
(* archive.  A structure is known by the calls its serialize function      *)
(* makes: a group name, which only the first call with a name sets, or an  *)
(* item with or without a default.                                         *)
(* Somebody may edit the file meanwhile, the process may end, and the      *)
(* stream that is written may fail, which nobody looks at.                 *)
(*                                                                         *)
(* Boost's property tree is known by what ini.h asks of it: it reads no    *)
(* entries from a file that is not there, trims what it reads, throws at a *)
(* line that is neither a section nor a key, and writes one section after  *)
(* another.                                                                *)
(***************************************************************************)
EXTENDS Integers, Sequences, FiniteSets

CONSTANTS
  Structures, \* the sequences of calls: [group |-> _] or [item |-> _, default |-> _, hide |-> _]
  Groups,     \* the names of groups
  Items,      \* the names of items
  NoGroup,    \* the empty group name
  Values,     \* the values of items
  Trim,       \* the value read back for each value written
  Zero,       \* the value of type{}
  Garbage,    \* an entry that is no value of the item's type
  Nothing,    \* no entry, or no default
  Stars,      \* what is printed of an item that hides its value
  MaxEdits    \* bound on the edits of the file and of the structure

ASSUME IniAssumption ==
  /\ Structures \subseteq Seq([group : Groups] \cup [item : Items, default : Values \cup {Nothing}, hide : BOOLEAN])
  /\ NoGroup \notin Groups
  /\ Zero \in Values
  /\ Trim \in [Values -> Values] /\ \A v \in Values : Trim[Trim[v]] = Trim[v]
  /\ {Garbage, Nothing, Stars} \cap Values = {} /\ Garbage # Nothing
  /\ MaxEdits \in Nat

VARIABLES
  file,       \* the entries of the file
  badLine,    \* its last line is cut off before the = or the ]
  data,       \* the structure
  op,         \* what is being done to it
  group,      \* m_group_name of the archive, or of the last one
  at,         \* the next call of serialize
  tree,       \* the property tree
  asRead,     \* the tree as it was read
  hasValues,  \* m_has_values
  stream,     \* m_stream: headers and items in the order they were printed
  result,     \* how the last operation ended
  saved,      \* history: the group and structure the file was last saved with
  torn,       \* history: what a save that is not whole in the file was to
              \* write, and the entry it was cut off in
  edits,
  calls       \* what serialize calls, the same all the time

history == <<saved, torn, edits, calls>>
archive == <<group, at, tree, asRead, hasValues, stream>>
vars    == <<file, badLine, data, op, archive, result, history>>

Keys    == Groups \X Items
Entries == [Keys -> Values \cup {Garbage, Nothing}]
Empty   == [k \in Keys |-> Nothing]

TypeOK ==
  /\ file \in Entries /\ tree \in Entries /\ asRead \in Entries
  /\ badLine \in BOOLEAN
  /\ data \in [Items -> Values]
  /\ op \in {"idle", "load", "save", "initialize", "print", "open", "write"}
  /\ group \in Groups \cup {NoGroup}
  /\ calls \in Structures
  /\ at \in 1 .. Len(calls) + 1
  /\ hasValues \in BOOLEAN
  /\ stream \in Seq([header : Groups] \cup [item : Items, shows : Values \cup {Stars}])
  /\ result \in {"none", "found", "not found", "printed", "threw"}
  /\ saved \in [group : Groups \cup {NoGroup}, data : [Items -> Values]] \cup {Nothing}
  /\ torn \in [group : Groups \cup {NoGroup}, data : [Items -> Values], cut : Keys \cup {Nothing}]
             \cup {Nothing}
  /\ edits \in 0 .. MaxEdits

Init ==
  /\ calls \in Structures
  /\ file = Empty /\ badLine = FALSE
  /\ data = [n \in Items |-> Zero]
  /\ op = "idle"
  /\ group = NoGroup /\ at = 1 /\ tree = Empty /\ asRead = Empty /\ hasValues = FALSE
  /\ stream = <<>>
  /\ result = "none"
  /\ saved = Nothing /\ torn = Nothing
  /\ edits = 0

-----------------------------------------------------------------------------

\* The entries read_ini finds, if it can read the file.
ReadIni == [k \in Keys |-> IF file[k] \in Values THEN Trim[file[k]] ELSE file[k]]

Begin(o, g, entries) ==
  /\ op = "idle"
  /\ op' = o
  /\ group' = g
  /\ at' = 1
  /\ tree' = entries /\ asRead' = entries
  /\ hasValues' = FALSE
  /\ stream' = IF o = "print" /\ g # NoGroup THEN <<[header |-> g]>> ELSE <<>>
  /\ result' = "none"
  /\ UNCHANGED <<file, badLine, data, history>>

LoadIni(g) == ~badLine /\ Begin("load", g, ReadIni)
SaveIni(g) == ~badLine /\ Begin("save", g, ReadIni)
InitializeIni == Begin("initialize", NoGroup, Empty)
PrintIni(g) == Begin("print", g, Empty)

\* read_ini throws, in load_ini or save_ini, before there is an archive.
CannotRead ==
  /\ op = "idle" /\ badLine
  /\ result' = "threw"
  /\ UNCHANGED <<file, badLine, data, op, archive, history>>

Serializing == op \in {"load", "save", "initialize", "print"} /\ at <= Len(calls)
Call == calls[at]
AtItem == Serializing /\ "item" \in DOMAIN Call
Key == <<group, Call.item>>

Header(g) == IF op = "print" THEN Append(stream, [header |-> g]) ELSE stream

\* Mutants: every call with a name sets it, or prints it.
SetGroupName ==
  /\ Serializing /\ "group" \in DOMAIN Call
  /\ group' = Call.group /\ stream' = Header(group')
  /\ at' = at + 1
  /\ UNCHANGED <<file, badLine, data, op, tree, asRead, hasValues, result, history>>

PrintGroupName ==
  /\ Serializing /\ "group" \in DOMAIN Call
  /\ group' = IF group = NoGroup /\ op # "initialize" THEN Call.group ELSE group
  /\ stream' = Header(Call.group)
  /\ at' = at + 1
  /\ UNCHANGED <<file, badLine, data, op, tree, asRead, hasValues, result, history>>

\* operator(): the archive keeps the first name it was given, and the one that
\* prints prints it then; the one that only initializes has none.
GroupCall ==
  /\ Serializing /\ "group" \in DOMAIN Call
  /\ IF group = NoGroup /\ op # "initialize"
     THEN group' = Call.group /\ stream' = Header(group')
     ELSE UNCHANGED <<group, stream>>
  /\ at' = at + 1
  /\ UNCHANGED <<file, badLine, data, op, tree, asRead, hasValues, result, history>>

\* The archive and the tree go with the function that made them; the group and
\* the stream are those of the last one.
Leave ==
  /\ op' = "idle"
  /\ at' = 1 /\ tree' = Empty /\ asRead' = Empty /\ hasValues' = FALSE
  /\ UNCHANGED <<group, stream>>

Throw ==
  /\ Leave
  /\ result' = "threw"
  /\ UNCHANGED <<file, badLine, data, history>>

\* check_group_name.
NoGroupName ==
  /\ AtItem /\ op # "initialize" /\ group = NoGroup
  /\ Throw

\* Mutant: the optional is not tested.
DefaultUnchecked == Call.default

Default == IF Call.default # Nothing THEN Call.default ELSE Zero

\* The default also stands in for an entry of another type, which counts as
\* found; without a default such an entry, or none, throws, and the items
\* before it keep what they were given.
LoadItem ==
  /\ AtItem /\ op = "load" /\ group # NoGroup
  /\ \/ /\ tree[Key] \in Values \/ Call.default # Nothing
        /\ hasValues' = (hasValues \/ tree[Key] # Nothing)
        /\ data' = [data EXCEPT ![Call.item] = IF tree[Key] \in Values THEN tree[Key] ELSE Default]
        /\ at' = at + 1
        /\ UNCHANGED <<file, badLine, op, group, tree, asRead, stream, result, history>>
     \/ /\ tree[Key] \notin Values /\ Call.default = Nothing
        /\ Throw

\* Mutant: what equals the default is not written.
SaveItemUnlessDefault ==
  /\ AtItem /\ op = "save" /\ group # NoGroup
  /\ tree' = IF data[Call.item] = Call.default THEN tree ELSE [tree EXCEPT ![Key] = data[Call.item]]
  /\ at' = at + 1
  /\ UNCHANGED <<file, badLine, data, op, group, asRead, hasValues, stream, result, history>>

SaveItem ==
  /\ AtItem /\ op = "save" /\ group # NoGroup
  /\ tree' = [tree EXCEPT ![Key] = data[Call.item]]
  /\ at' = at + 1
  /\ UNCHANGED <<file, badLine, data, op, group, asRead, hasValues, stream, result, history>>

InitializeItem ==
  /\ AtItem /\ op = "initialize"
  /\ data' = [data EXCEPT ![Call.item] = Default]
  /\ at' = at + 1
  /\ UNCHANGED <<file, badLine, op, group, tree, asRead, hasValues, stream, result, history>>

PrintItem ==
  /\ AtItem /\ op = "print" /\ group # NoGroup
  /\ stream' = Append(stream, [item |-> Call.item, shows |-> IF Call.hide THEN Stars ELSE data[Call.item]])
  /\ at' = at + 1
  /\ UNCHANGED <<file, badLine, data, op, group, tree, asRead, hasValues, result, history>>

\* serialize returns.
Serialized ==
  /\ op \in {"load", "save", "initialize", "print"} /\ at > Len(calls)
  /\ IF op = "save" THEN op' = "open" /\ UNCHANGED archive ELSE Leave
  /\ result' = CASE op = "load"  -> IF hasValues THEN "found" ELSE "not found"
               [] op = "print" -> "printed"
               [] OTHER        -> result
  /\ UNCHANGED <<file, badLine, data, history>>

\* Mutant: the file is opened without being truncated.
OpenInPlace ==
  /\ op = "open"
  /\ \/ /\ op' = "write"
        /\ saved' = Nothing
        /\ torn' = [group |-> group, data |-> data, cut |-> Nothing]
        /\ UNCHANGED archive
     \/ Leave /\ UNCHANGED <<saved, torn>>
  /\ UNCHANGED <<file, badLine, data, result, edits, calls>>

\* The file is truncated when it is opened and written after that; nobody
\* looks whether it could be.
OpenFile ==
  /\ op = "open"
  /\ \/ /\ file' = Empty /\ badLine' = FALSE
        /\ op' = "write"
        /\ saved' = Nothing
        /\ torn' = [group |-> group, data |-> data, cut |-> Nothing]
        /\ UNCHANGED archive
     \/ Leave /\ UNCHANGED <<file, badLine, saved, torn>>
  /\ UNCHANGED <<data, result, edits, calls>>

WriteAll ==
  /\ file' = tree /\ badLine' = FALSE
  /\ saved' = [group |-> group, data |-> data]
  /\ torn' = Nothing

\* The stream fails, or the process ends, in the middle: there are some whole
\* lines, those of all sections but one or of none, and maybe a piece of one
\* more: what is left of a value may be another, and of a name or a header it
\* is a line that cannot be read.
WritePart ==
  LET lines == {k \in Keys : tree[k] # Nothing}
  IN  \E kept \in SUBSET lines, cut \in lines \cup {Nothing}, rest \in Values \cup {Garbage} :
        /\ kept # lines /\ cut \notin kept
        /\ LET begun == {k[1] : k \in kept \cup ({cut} \ {Nothing})}
               short == {k[1] : k \in lines \ kept}
           IN  Cardinality(begun \cap short) <= 1
        /\ file' = [k \in Keys |-> IF k \in kept THEN tree[k] ELSE IF k = cut THEN rest ELSE Nothing]
        /\ badLine' \in BOOLEAN /\ (badLine' => cut = Nothing)
        /\ saved' = Nothing
        /\ torn' = [group |-> group, data |-> data, cut |-> cut]

WriteIni ==
  /\ op = "write"
  /\ WriteAll \/ WritePart
  /\ Leave
  /\ UNCHANGED <<data, result, edits, calls>>

-----------------------------------------------------------------------------
(* The program and the world. *)

Assign ==
  /\ op = "idle" /\ edits < MaxEdits
  /\ \E n \in Items, v \in Values : data' = [data EXCEPT ![n] = v]
  /\ edits' = edits + 1
  /\ result' = "none"
  /\ UNCHANGED <<file, badLine, op, archive, saved, torn, calls>>

Edit ==
  /\ edits < MaxEdits
  /\ \E k \in Keys, e \in Values \cup {Garbage, Nothing} : file' = [file EXCEPT ![k] = e]
  /\ edits' = edits + 1
  /\ badLine' = FALSE
  /\ saved' = Nothing
  /\ torn' = Nothing
  /\ UNCHANGED <<data, op, archive, result, calls>>

Crash ==
  /\ op' = "idle"
  /\ data' = [n \in Items |-> Zero]
  /\ group' = NoGroup /\ at' = 1 /\ tree' = Empty /\ asRead' = Empty /\ hasValues' = FALSE
  /\ stream' = <<>>
  /\ result' = "none"
  /\ UNCHANGED <<file, badLine, history>>

Next ==
  \/ \E g \in Groups \cup {NoGroup} : LoadIni(g) \/ SaveIni(g) \/ PrintIni(g)
  \/ InitializeIni \/ CannotRead
  \/ GroupCall \/ NoGroupName \/ LoadItem \/ SaveItem \/ InitializeItem \/ PrintItem \/ Serialized
  \/ OpenFile \/ WriteIni
  \/ Assign \/ Edit \/ Crash

Spec == Init /\ [][Next]_vars

-----------------------------------------------------------------------------
(* Properties. *)

Own(g) == {k \in Keys : k[1] = g /\ \E c \in 1 .. Len(calls) : "item" \in DOMAIN calls[c] /\ calls[c].item = k[2]}

\* A structure that is loaded from the file it was saved to, under the same
\* group, is the same but for the white space the reader trims, however the
\* group came to its name and whatever was loaded, initialized or refused
\* between (ini.h:274, 303).
RoundTrip ==
  result \in {"found", "not found"} /\ saved # Nothing /\ saved.group = group
    => \A k \in Own(group) : data[k[2]] = Trim[saved.data[k[2]]]

\* Saving rewrites the whole file and still keeps what is not its own: the
\* other groups, and the entries of its group that are no items.
ForeignKept == op \in {"open", "write"} => \A k \in Keys \ Own(group) : tree[k] = asRead[k]

\* What is printed is the structure: one header, that of the group its items
\* would be saved under, then the items in the order of serialize, each once,
\* with the value it has, or stars if it hides that, whatever names serialize
\* goes on to give.  A print that throws has printed no item without a header
\* (ini.h:229, 241).
PrintsTheStructure ==
  LET items   == {c \in DOMAIN calls : "item" \in DOMAIN calls[c]}
      headers == {k \in DOMAIN stream : "header" \in DOMAIN stream[k]}
      Line(c) == 1 + Cardinality({d \in items : d <= c})
  IN  /\ stream # <<>> => headers = {1} /\ stream[1].header = group
      /\ result = "printed" =>
           /\ Len(stream) = Cardinality(items) + IF group = NoGroup THEN 0 ELSE 1
           /\ \A c \in items :
                stream[Line(c)] = [ item  |-> calls[c].item,
                                    shows |-> IF calls[c].hide THEN Stars ELSE data[calls[c].item] ]

\* A save that was cut short, wherever it was, leaves nothing of what the file
\* held before: a later load under the same group gives every item the value
\* that was to be saved or its default, but for the one in the line that was
\* cut, which may be anything; and if no entry of the items was written, it
\* finds no configuration (plugin.cpp:92, ini.h:285, 315).
TornIsNew ==
  torn # Nothing /\ torn.group = group /\ result \in {"found", "not found"} =>
    /\ \A k \in Own(group) :
         \/ k = torn.cut
         \/ data[k[2]] = Trim[torn.data[k[2]]]
         \/ \E c \in DOMAIN calls :
              "item" \in DOMAIN calls[c] /\ calls[c].item = k[2] /\ calls[c].default = data[k[2]]
    /\ result = "found" => \E k \in Own(group) : file[k] # Nothing

=============================================================================
