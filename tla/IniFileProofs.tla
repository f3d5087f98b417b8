----------------------------- MODULE IniFileProofs -----------------------------
(***************************************************************************)
(* Proofs about ini.h: a structure comes back from its file as it was      *)
(* saved, saving keeps the entries of others, a save that was cut short    *)
(* brings nothing old back, and what is printed is the structure.          *)
(*                                                                         *)
(* The invariant says of every operation how far it has come: what it has  *)
(* done to the items before the next call of serialize.                    *)
(***************************************************************************)
EXTENDS IniFile, SequenceTheorems, FiniteSetTheorems, TLAPS

IsItem(c) == c \in 1 .. Len(calls) /\ "item" \in DOMAIN calls[c]

\* The items of the structure, and those serialize has given to the archive.
ItemNames == {n \in Items : \E c \in 1 .. Len(calls) : IsItem(c) /\ calls[c].item = n}
Seen      == {n \in Items : \E c \in 1 .. at - 1 : IsItem(c) /\ calls[c].item = n}

\* An operation has a result when it is over.
ResultInv == op # "idle" => result = "none"

\* No archive but the one that initializes takes an item without a group, and
\* only an item counts as found.
NameInv ==
  /\ op \in {"load", "save", "print"} /\ Seen # {} => group \in Groups
  /\ op = "load" /\ hasValues => Seen # {}
  /\ result = "found" => group \in Groups

\* An item has the value that was to be saved, or a default, or its line was
\* the one that was cut.
Loaded(n) ==
  \/ <<group, n>> = torn.cut
  \/ data[n] = Trim[torn.data[n]]
  \/ \E c \in 1 .. Len(calls) : IsItem(c) /\ calls[c].item = n /\ calls[c].default = data[n]

\* A file that is not whole has of every item what was to be saved or nothing,
\* and a load of it gives that, and only counts the entries that are there.
TornInv ==
  torn # Nothing /\ torn.group \in Groups =>
    /\ \A n \in ItemNames : \/ file[<<torn.group, n>>] \in {torn.data[n], Nothing}
                           \/ <<torn.group, n>> = torn.cut
    /\ op = "load" =>
         /\ tree = ReadIni
         /\ hasValues => \E n \in Seen : tree[<<group, n>>] # Nothing
         /\ torn.group = group => \A n \in Seen : Loaded(n)
    /\ result \in {"found", "not found"} /\ torn.group = group =>
         /\ \A n \in ItemNames : Loaded(n)
         /\ result = "found" => \E n \in ItemNames : file[<<group, n>>] # Nothing

\* Saving has put the items it was given into the tree, under its group, and
\* nothing else; the tree is written when it was given all of them.
SaveInv ==
  op \in {"save", "open", "write"} =>
    /\ \A g \in Groups, n \in Items :
         tree[<<g, n>>] # asRead[<<g, n>>] => g = group /\ n \in ItemNames
    /\ \A n \in Seen : group \in Groups => tree[<<group, n>>] = data[n]
    /\ op # "save" => Seen = ItemNames

\* The file has the items that were saved last.
FileInv ==
  saved # Nothing /\ saved.group \in Groups =>
    \A n \in ItemNames : file[<<saved.group, n>>] = saved.data[n]

\* A load reads those, and has given the first of them to the structure; in
\* the end all of them.
LoadInv ==
  saved # Nothing /\ saved.group \in Groups =>
    /\ op = "load" => \A n \in ItemNames : tree[<<saved.group, n>>] = Trim[saved.data[n]]
    /\ op = "load" /\ saved.group = group => \A n \in Seen : data[n] = Trim[saved.data[n]]
    /\ result \in {"found", "not found"} /\ saved.group = group =>
         \A n \in ItemNames : data[n] = Trim[saved.data[n]]

\* Only printing puts something into the stream: the header when the group has
\* its name, and below it a line for every item.
Headers    == {k \in DOMAIN stream : "header" \in DOMAIN stream[k]}
ItemsTo(n) == {c \in 1 .. n : IsItem(c)}
LineOf(c)  == [item |-> calls[c].item, shows |-> IF calls[c].hide THEN Stars ELSE data[calls[c].item]]

PrintedTo(n) ==
  /\ Len(stream) = Cardinality(ItemsTo(n)) + IF group = NoGroup THEN 0 ELSE 1
  /\ \A c \in ItemsTo(n) : stream[1 + Cardinality(ItemsTo(c))] = LineOf(c)

PrintInv ==
  /\ op \notin {"idle", "print"} => stream = <<>>
  /\ stream # <<>> => Headers = {1} /\ stream[1].header = group
  /\ op = "print" => PrintedTo(at - 1) /\ (stream = <<>> <=> group = NoGroup)
  /\ result = "printed" => PrintedTo(Len(calls))

IInv == /\ TypeOK /\ ResultInv /\ NameInv /\ TornInv
        /\ SaveInv /\ FileInv /\ LoadInv /\ PrintInv

-----------------------------------------------------------------------------
(* The calls of serialize. *)

LEMMA CallShape ==
  ASSUME TypeOK, NEW c \in 1 .. Len(calls)
  PROVE  \/ /\ "item" \in DOMAIN calls[c] /\ "group" \notin DOMAIN calls[c]
            /\ calls[c].item \in Items /\ calls[c].default \in Values \cup {Nothing}
         \/ /\ "group" \in DOMAIN calls[c] /\ "item" \notin DOMAIN calls[c]
            /\ calls[c].group \in Groups
<1> DEFINE GroupCalls == [group : Groups]
           ItemCalls  == [item : Items, default : Values \cup {Nothing}, hide : BOOLEAN]
<1>1. calls \in Seq(GroupCalls \cup ItemCalls)
  BY IniAssumption DEF TypeOK
<1>2. calls[c] \in GroupCalls \cup ItemCalls
  <2> HIDE DEF GroupCalls, ItemCalls
  <2> QED BY <1>1, ElementOfSeq
<1>3. CASE calls[c] \in GroupCalls
  <2>1. DOMAIN calls[c] = {"group"} /\ calls[c].group \in Groups
    BY <1>3
  <2> QED BY <2>1
<1>4. CASE calls[c] \in ItemCalls
  <2>1. DOMAIN calls[c] = {"item", "default", "hide"} /\ calls[c].item \in Items
        /\ calls[c].default \in Values \cup {Nothing}
    BY <1>4
  <2> QED BY <2>1
<1> QED BY <1>2, <1>3, <1>4

LEMMA CallsAreASeq ==
  ASSUME TypeOK
  PROVE  Len(calls) \in Nat /\ at \in Nat /\ at >= 1 /\ at <= Len(calls) + 1
<1> DEFINE AnyCall == [group : Groups] \cup [item : Items, default : Values \cup {Nothing}, hide : BOOLEAN]
<1>1. calls \in Seq(AnyCall)
  BY IniAssumption DEF TypeOK
<1>2. Len(calls) \in Nat
  <2> HIDE DEF AnyCall
  <2> QED BY <1>1, LenProperties
<1>3. at \in 1 .. Len(calls) + 1
  BY DEF TypeOK
<1> HIDE DEF AnyCall
<1> QED BY <1>2, <1>3

\* What an item call gives.
LEMMA ItemCall ==
  ASSUME TypeOK, AtItem
  PROVE  /\ at \in 1 .. Len(calls) /\ IsItem(at) /\ Call.item \in Items
         /\ Call.default \in Values \cup {Nothing} /\ Default \in Values
<1>1. at \in 1 .. Len(calls) /\ "item" \in DOMAIN Call
  BY CallsAreASeq DEF AtItem, Serializing
<1>2. Call.item \in Items /\ Call.default \in Values \cup {Nothing}
  BY <1>1, CallShape DEF Call
<1> QED BY <1>1, <1>2, IniAssumption DEF IsItem, Call, Default

\* How the items seen so far grow.
LEMMA SeenMoves ==
  ASSUME TypeOK, calls' = calls
  PROVE  /\ ItemNames' = ItemNames
         /\ at' = at => Seen' = Seen
         /\ at' = 1 => Seen' = {}
         /\ AtItem /\ at' = at + 1 => Seen' = Seen \cup {Call.item} /\ Call.item \in ItemNames
         /\ Serializing /\ "group" \in DOMAIN Call /\ at' = at + 1 => Seen' = Seen
         /\ at > Len(calls) => Seen = ItemNames
         /\ Seen \subseteq ItemNames /\ ItemNames \subseteq Items
<1>0. Len(calls) \in Nat /\ at \in Nat /\ at >= 1 /\ at <= Len(calls) + 1
  BY CallsAreASeq
<1>1. ItemNames' = ItemNames
  BY DEF ItemNames, IsItem
<1>2. Seen' = {n \in Items : \E c \in 1 .. at' - 1 : IsItem(c) /\ calls[c].item = n}
  BY DEF Seen, IsItem
<1>3. at' = at => Seen' = Seen
  BY <1>2 DEF Seen
<1>4. ASSUME at' = 1 PROVE Seen' = {}
  <2>1. 1 .. at' - 1 = {}
    BY <1>4
  <2> QED BY <1>2, <2>1
<1>5. ASSUME Serializing, at' = at + 1
      PROVE  /\ 1 .. at' - 1 = (1 .. at - 1) \cup {at} /\ at \in 1 .. Len(calls)
  BY <1>0, <1>5 DEF Serializing
<1>6. ASSUME AtItem, at' = at + 1 PROVE Seen' = Seen \cup {Call.item} /\ Call.item \in ItemNames
  <2>1. IsItem(at) /\ Call.item \in Items /\ Call.item = calls[at].item /\ at \in 1 .. Len(calls)
    BY <1>6, ItemCall DEF Call
  <2>2. 1 .. at' - 1 = (1 .. at - 1) \cup {at}
    BY <1>5, <1>6 DEF AtItem
  <2>3. Seen' \subseteq Items /\ Seen \subseteq Items
    BY <1>2 DEF Seen
  <2>4. \A n \in Items : n \in Seen' <=> n \in Seen \/ n = Call.item
    BY <1>2, <2>1, <2>2 DEF Seen
  <2> QED BY <2>1, <2>3, <2>4 DEF ItemNames
<1>7. ASSUME Serializing, "group" \in DOMAIN Call, at' = at + 1 PROVE Seen' = Seen
  <2>1. ~ IsItem(at)
    BY <1>5, <1>7, CallShape DEF Call, IsItem
  <2> QED BY <1>2, <1>5, <1>7, <2>1 DEF Seen
<1>8. ASSUME at > Len(calls) PROVE Seen = ItemNames
  <2>1. at - 1 = Len(calls)
    BY <1>0, <1>8
  <2> QED BY <2>1 DEF Seen, ItemNames
<1>9. Seen \subseteq ItemNames /\ ItemNames \subseteq Items
  BY DEF Seen, ItemNames, IsItem
<1> QED BY <1>1, <1>3, <1>4, <1>6, <1>7, <1>8, <1>9

-----------------------------------------------------------------------------
(* The types. *)

LEMMA EntriesTyped ==
  /\ Empty \in Entries
  /\ file \in Entries => ReadIni \in Entries
  /\ \A g \in Groups, n \in Items : Empty[<<g, n>>] = Nothing
<1>1. Empty \in Entries
  BY DEF Empty, Entries
<1>2. ASSUME file \in Entries PROVE ReadIni \in Entries
  BY <1>2, IniAssumption DEF Entries, ReadIni
<1>3. ASSUME NEW g \in Groups, NEW n \in Items PROVE Empty[<<g, n>>] = Nothing
  BY DEF Empty, Keys
<1> QED BY <1>1, <1>2, <1>3

OperationTyped ==
  /\ op \in {"idle", "load", "save", "initialize", "print", "open", "write"}
  /\ group \in Groups \cup {NoGroup}
  /\ hasValues \in BOOLEAN
  /\ result \in {"none", "found", "not found", "printed", "threw"}
EntriesAre    == file \in Entries /\ badLine \in BOOLEAN /\ tree \in Entries /\ asRead \in Entries
DataTyped     == data \in [Items -> Values]
AtTyped       == calls \in Structures /\ at \in 1 .. Len(calls) + 1
Lines         == [header : Groups] \cup [item : Items, shows : Values \cup {Stars}]
StreamTyped   == stream \in Seq(Lines)
HistoryTyped  ==
  /\ saved \in [group : Groups \cup {NoGroup}, data : [Items -> Values]] \cup {Nothing}
  /\ torn \in [group : Groups \cup {NoGroup}, data : [Items -> Values], cut : Keys \cup {Nothing}]
             \cup {Nothing}
  /\ edits \in 0 .. MaxEdits

LEMMA TypeParts ==
  /\ TypeOK <=> /\ OperationTyped /\ EntriesAre /\ DataTyped /\ AtTyped
                /\ StreamTyped /\ HistoryTyped
  /\ TypeOK' <=> /\ OperationTyped' /\ EntriesAre' /\ DataTyped' /\ AtTyped'
                 /\ StreamTyped' /\ HistoryTyped'
BY DEF TypeOK, OperationTyped, EntriesAre, DataTyped, AtTyped, StreamTyped, HistoryTyped, Lines

\* The next call, and back to the first.
LEMMA AtMoves ==
  ASSUME TypeOK, calls' = calls
  PROVE  /\ Serializing /\ at' = at + 1 => AtTyped'
         /\ at' = at => AtTyped'
         /\ at' = 1 => AtTyped'
<1>0. calls \in Structures /\ Len(calls) \in Nat /\ at \in Nat /\ at >= 1 /\ at <= Len(calls) + 1
  BY CallsAreASeq DEF TypeOK
<1>1. Len(calls') = Len(calls)
  OBVIOUS
<1> QED BY <1>0, <1>1 DEF AtTyped, Serializing

LEMMA StreamMoves ==
  ASSUME TypeOK
  PROVE  /\ \A g \in Groups : Append(stream, [header |-> g]) \in Seq(Lines)
         /\ \A n \in Items, v \in Values \cup {Stars} :
              Append(stream, [item |-> n, shows |-> v]) \in Seq(Lines)
         /\ <<>> \in Seq(Lines) /\ \A g \in Groups : <<[header |-> g]>> \in Seq(Lines)
<1>1. /\ \A g \in Groups : [header |-> g] \in Lines
      /\ \A n \in Items, v \in Values \cup {Stars} : [item |-> n, shows |-> v] \in Lines
  BY DEF Lines
<1>2. stream \in Seq(Lines)
  BY DEF TypeOK, Lines
<1>3. \A l \in Lines : Append(stream, l) \in Seq(Lines) /\ <<l>> \in Seq(Lines)
  BY <1>2, AppendProperties
<1> QED BY <1>1, <1>3, EmptySeq

\* What WritePart does to the file, whatever lines it chooses.
LEMMA PartWritten ==
  ASSUME WritePart
  PROVE  \E kept \in SUBSET Keys, cut \in Keys \cup {Nothing}, rest \in Values \cup {Garbage} :
           /\ file' = [k \in Keys |-> IF k \in kept THEN tree[k] ELSE IF k = cut THEN rest ELSE Nothing]
           /\ badLine' \in BOOLEAN /\ saved' = Nothing
           /\ torn' = [group |-> group, data |-> data, cut |-> cut]
<1> DEFINE lines == {k \in Keys : tree[k] # Nothing}
<1>1. PICK kept \in SUBSET lines, cut \in lines \cup {Nothing}, rest \in Values \cup {Garbage} :
        /\ file' = [k \in Keys |-> IF k \in kept THEN tree[k] ELSE IF k = cut THEN rest ELSE Nothing]
        /\ badLine' \in BOOLEAN /\ saved' = Nothing
        /\ torn' = [group |-> group, data |-> data, cut |-> cut]
  BY Zenon DEF WritePart
<1>2. kept \in SUBSET Keys /\ cut \in Keys \cup {Nothing}
  OBVIOUS
<1> QED BY <1>1, <1>2

LEMMA TypeStep == TypeOK /\ [Next]_vars => TypeOK'
<1> SUFFICES ASSUME TypeOK, [Next]_vars PROVE TypeOK'
  OBVIOUS
<1>0. OperationTyped /\ EntriesAre /\ DataTyped /\ AtTyped /\ StreamTyped /\ HistoryTyped
  BY TypeParts
<1>1. ASSUME NEW o \in {"load", "save", "initialize", "print"}, NEW g \in Groups \cup {NoGroup},
             NEW entries \in Entries, Begin(o, g, entries)
      PROVE  TypeOK'
  <2>1. AtTyped'
    BY <1>1, AtMoves DEF Begin, history
  <2>2. StreamTyped'
    BY <1>1, StreamMoves DEF Begin, StreamTyped
  <2>3. OperationTyped' /\ EntriesAre'
    BY <1>0, <1>1 DEF Begin, OperationTyped, EntriesAre
  <2>4. DataTyped' /\ HistoryTyped'
    BY <1>0, <1>1 DEF Begin, history, DataTyped, HistoryTyped
  <2> QED BY <2>1, <2>2, <2>3, <2>4, TypeParts
<1>2. CASE \E g \in Groups \cup {NoGroup} : LoadIni(g) \/ SaveIni(g) \/ PrintIni(g)
  BY <1>0, <1>1, <1>2, EntriesTyped DEF LoadIni, SaveIni, PrintIni, EntriesAre
<1>3. CASE InitializeIni
  BY <1>1, <1>3, EntriesTyped DEF InitializeIni
<1>17. CASE CannotRead
  <2>1. AtTyped'
    BY <1>17, AtMoves DEF CannotRead, archive, history
  <2> QED BY <1>0, <1>17, <2>1, TypeParts
          DEF CannotRead, archive, history, OperationTyped, EntriesAre, DataTyped, StreamTyped, HistoryTyped
<1>18. ASSUME Leave, calls' = calls, EntriesAre, OperationTyped, StreamTyped
       PROVE  /\ AtTyped' /\ tree' \in Entries /\ asRead' \in Entries /\ StreamTyped'
              /\ op' = "idle" /\ group' \in Groups \cup {NoGroup} /\ hasValues' \in BOOLEAN
  <2>1. AtTyped'
    BY <1>18, AtMoves DEF Leave
  <2> QED BY <1>18, <2>1, EntriesTyped DEF Leave, EntriesAre, OperationTyped, StreamTyped
<1>19. ASSUME Throw PROVE TypeOK'
  <2>1. calls' = calls
    BY <1>19 DEF Throw, history
  <2>2. /\ AtTyped' /\ tree' \in Entries /\ asRead' \in Entries /\ StreamTyped'
        /\ op' = "idle" /\ group' \in Groups \cup {NoGroup} /\ hasValues' \in BOOLEAN
    BY <1>0, <1>18, <1>19, <2>1 DEF Throw
  <2> QED BY <1>0, <1>19, <2>2, TypeParts
          DEF Throw, history, OperationTyped, EntriesAre, DataTyped, HistoryTyped
<1>4. CASE GroupCall
  <2>1. AtTyped'
    BY <1>4, AtMoves DEF GroupCall, history
  <2>2. Call.group \in Groups
    <3>1. at \in 1 .. Len(calls)
      BY <1>4, CallsAreASeq DEF GroupCall, Serializing
    <3> QED BY <1>4, <3>1, CallShape DEF GroupCall, Call
  <2>3. StreamTyped'
    BY <1>0, <1>4, <2>2, StreamMoves DEF GroupCall, Header, StreamTyped
  <2>4. OperationTyped' /\ EntriesAre'
    BY <1>0, <1>4, <2>2 DEF GroupCall, OperationTyped, EntriesAre
  <2>5. DataTyped' /\ HistoryTyped'
    BY <1>0, <1>4 DEF GroupCall, history, DataTyped, HistoryTyped
  <2> QED BY <2>1, <2>3, <2>4, <2>5, TypeParts
<1>5. CASE NoGroupName
  BY <1>5, <1>19 DEF NoGroupName
<1>6. CASE LoadItem
  <2>1. Call.item \in Items /\ Default \in Values
    BY <1>6, ItemCall DEF LoadItem
  <2>2. CASE ~Throw
    <3>1. AtTyped'
      BY <1>6, <2>2, AtMoves DEF LoadItem, AtItem, history
    <3>2. DataTyped'
      BY <1>0, <1>6, <2>1, <2>2 DEF LoadItem, DataTyped
    <3>3. OperationTyped' /\ EntriesAre'
      BY <1>0, <1>6, <2>2 DEF LoadItem, OperationTyped, EntriesAre
    <3>4. StreamTyped' /\ HistoryTyped'
      BY <1>0, <1>6, <2>2 DEF LoadItem, history, StreamTyped, HistoryTyped
    <3> QED BY <3>1, <3>2, <3>3, <3>4, TypeParts
  <2> QED BY <1>19, <2>2
<1>7. CASE SaveItem
  <2>1. Call.item \in Items /\ group \in Groups
    BY <1>0, <1>7, ItemCall DEF SaveItem, OperationTyped
  <2>2. AtTyped'
    BY <1>7, AtMoves DEF SaveItem, AtItem, history
  <2>3. data[Call.item] \in Values
    BY <1>0, <2>1 DEF DataTyped
  <2>4. tree' \in Entries
    BY <1>0, <1>7, <2>3 DEF SaveItem, EntriesAre, Entries
  <2>5. OperationTyped' /\ EntriesAre'
    BY <1>0, <1>7, <2>4 DEF SaveItem, OperationTyped, EntriesAre
  <2>6. DataTyped' /\ StreamTyped' /\ HistoryTyped'
    BY <1>0, <1>7 DEF SaveItem, history, DataTyped, StreamTyped, HistoryTyped
  <2> QED BY <2>2, <2>5, <2>6, TypeParts
<1>8. CASE InitializeItem
  <2>1. Call.item \in Items /\ Default \in Values
    BY <1>8, ItemCall DEF InitializeItem
  <2>2. AtTyped'
    BY <1>8, AtMoves DEF InitializeItem, AtItem, history
  <2>3. DataTyped'
    BY <1>0, <1>8, <2>1 DEF InitializeItem, DataTyped
  <2>4. OperationTyped' /\ EntriesAre' /\ StreamTyped' /\ HistoryTyped'
    BY <1>0, <1>8 DEF InitializeItem, history, OperationTyped, EntriesAre, StreamTyped, HistoryTyped
  <2> QED BY <2>2, <2>3, <2>4, TypeParts
<1>9. CASE PrintItem
  <2>1. Call.item \in Items
    BY <1>9, ItemCall DEF PrintItem
  <2>2. AtTyped'
    BY <1>9, AtMoves DEF PrintItem, AtItem, history
  <2>3. data[Call.item] \in Values
    BY <1>0, <2>1 DEF DataTyped
  <2>4. StreamTyped'
    BY <1>9, <2>1, <2>3, StreamMoves DEF PrintItem, StreamTyped
  <2>5. OperationTyped' /\ EntriesAre' /\ DataTyped' /\ HistoryTyped'
    BY <1>0, <1>9 DEF PrintItem, history, OperationTyped, EntriesAre, DataTyped, HistoryTyped
  <2> QED BY <2>2, <2>4, <2>5, TypeParts
<1>10. CASE Serialized
  <2>1. calls' = calls
    BY <1>10 DEF Serialized, history
  <2>2. /\ AtTyped' /\ tree' \in Entries /\ asRead' \in Entries /\ StreamTyped'
        /\ op' \in {"idle", "open"} /\ group' \in Groups \cup {NoGroup} /\ hasValues' \in BOOLEAN
    <3>1. CASE op = "save"
      <4>1. UNCHANGED archive /\ op' = "open"
        BY <1>10, <3>1 DEF Serialized
      <4>2. AtTyped'
        BY <2>1, <4>1, AtMoves DEF archive
      <4> QED BY <1>0, <4>1, <4>2 DEF archive, EntriesAre, OperationTyped, StreamTyped
    <3>2. CASE op # "save"
      <4>1. Leave
        BY <1>10, <3>2 DEF Serialized
      <4> QED BY <1>0, <1>18, <2>1, <4>1
    <3> QED BY <3>1, <3>2
  <2>3. result' \in {"none", "found", "not found", "printed", "threw"}
    BY <1>0, <1>10 DEF Serialized, OperationTyped
  <2> QED BY <1>0, <1>10, <2>2, <2>3, TypeParts
          DEF Serialized, history, OperationTyped, EntriesAre, DataTyped, HistoryTyped
<1>11. CASE OpenFile
  <2>1. calls' = calls
    BY <1>11 DEF OpenFile
  <2>2. CASE op' = "write"
    <3>1. /\ file' = Empty /\ badLine' = FALSE /\ saved' = Nothing /\ UNCHANGED archive
          /\ torn' = [group |-> group, data |-> data, cut |-> Nothing]
      BY <1>11, <2>2 DEF OpenFile, Leave
    <3>2. AtTyped'
      BY <2>1, <3>1, AtMoves DEF archive
    <3>3. OperationTyped' /\ EntriesAre' /\ StreamTyped' /\ DataTyped'
      BY <1>0, <1>11, <2>2, <3>1, EntriesTyped
         DEF OpenFile, archive, OperationTyped, EntriesAre, StreamTyped, DataTyped
    <3>4. HistoryTyped'
      BY <1>0, <1>11, <3>1 DEF OpenFile, HistoryTyped, OperationTyped, DataTyped
    <3> QED BY <3>2, <3>3, <3>4, TypeParts
  <2>3. CASE op' # "write"
    <3>1. Leave /\ UNCHANGED <<file, badLine, saved, torn>>
      BY <1>11, <2>3 DEF OpenFile
    <3>2. /\ AtTyped' /\ tree' \in Entries /\ asRead' \in Entries /\ StreamTyped'
          /\ op' = "idle" /\ group' \in Groups \cup {NoGroup} /\ hasValues' \in BOOLEAN
      BY <1>0, <1>18, <2>1, <3>1
    <3> QED BY <1>0, <1>11, <3>1, <3>2, TypeParts
            DEF OpenFile, OperationTyped, EntriesAre, DataTyped, HistoryTyped
  <2> QED BY <2>2, <2>3
<1>12. CASE WriteIni
  <2>1. /\ AtTyped' /\ tree' \in Entries /\ asRead' \in Entries /\ StreamTyped'
        /\ op' = "idle" /\ group' \in Groups \cup {NoGroup} /\ hasValues' \in BOOLEAN
    BY <1>0, <1>12, <1>18 DEF WriteIni
  <2>2. /\ file' \in Entries /\ badLine' \in BOOLEAN
        /\ saved' \in {Nothing, [group |-> group, data |-> data]}
        /\ torn' = Nothing \/ \E cut \in Keys \cup {Nothing} :
                                torn' = [group |-> group, data |-> data, cut |-> cut]
    <3>1. CASE WriteAll
      BY <1>0, <3>1 DEF WriteAll, EntriesAre
    <3>2. CASE WritePart
      <4>1. PICK kept \in SUBSET Keys, cut \in Keys \cup {Nothing}, rest \in Values \cup {Garbage} :
              /\ file' = [k \in Keys |-> IF k \in kept THEN tree[k] ELSE IF k = cut THEN rest ELSE Nothing]
              /\ badLine' \in BOOLEAN /\ saved' = Nothing
              /\ torn' = [group |-> group, data |-> data, cut |-> cut]
        BY <3>2, PartWritten
      <4>2. file' \in Entries
        BY <1>0, <4>1 DEF EntriesAre, Entries
      <4> QED BY <4>1, <4>2
    <3> QED BY <1>12, <3>1, <3>2 DEF WriteIni
  <2>3. HistoryTyped'
    <3>0. group \in Groups \cup {NoGroup} /\ data \in [Items -> Values]
      BY <1>0 DEF OperationTyped, DataTyped
    <3>1. saved' \in [group : Groups \cup {NoGroup}, data : [Items -> Values]] \cup {Nothing}
      BY <2>2, <3>0
    <3>2. torn' \in [group : Groups \cup {NoGroup}, data : [Items -> Values], cut : Keys \cup {Nothing}]
                    \cup {Nothing}
      BY <2>2, <3>0
    <3> QED BY <1>0, <1>12, <3>1, <3>2 DEF WriteIni, HistoryTyped
  <2> QED BY <1>0, <1>12, <2>1, <2>2, <2>3, TypeParts
          DEF WriteIni, OperationTyped, EntriesAre, DataTyped
<1>13. CASE Assign
  <2>1. AtTyped'
    BY <1>13, AtMoves DEF Assign, archive
  <2>2. DataTyped'
    BY <1>0, <1>13 DEF Assign, DataTyped
  <2>3. OperationTyped' /\ EntriesAre' /\ StreamTyped'
    BY <1>0, <1>13 DEF Assign, archive, OperationTyped, EntriesAre, StreamTyped
  <2>4. edits' \in 0 .. MaxEdits
    BY <1>0, <1>13, IniAssumption DEF Assign, HistoryTyped
  <2>5. HistoryTyped'
    BY <1>0, <1>13, <2>4 DEF Assign, HistoryTyped
  <2> QED BY <2>1, <2>2, <2>3, <2>5, TypeParts
<1>14. CASE Edit
  <2>1. AtTyped'
    BY <1>14, AtMoves DEF Edit, archive
  <2>2. file' \in Entries
    BY <1>0, <1>14 DEF Edit, EntriesAre, Entries
  <2>3. OperationTyped' /\ EntriesAre' /\ DataTyped' /\ StreamTyped'
    BY <1>0, <1>14, <2>2
       DEF Edit, archive, OperationTyped, EntriesAre, DataTyped, StreamTyped
  <2>4. edits' \in 0 .. MaxEdits
    BY <1>0, <1>14, IniAssumption DEF Edit, HistoryTyped
  <2>5. HistoryTyped'
    BY <1>0, <1>14, <2>4 DEF Edit, HistoryTyped
  <2> QED BY <2>1, <2>3, <2>5, TypeParts
<1>15. CASE Crash
  <2>1. AtTyped' /\ StreamTyped'
    BY <1>15, AtMoves, StreamMoves DEF Crash, history, StreamTyped
  <2>2. OperationTyped' /\ EntriesAre' /\ DataTyped'
    BY <1>0, <1>15, EntriesTyped, IniAssumption DEF Crash, OperationTyped, EntriesAre, DataTyped
  <2>4. HistoryTyped'
    BY <1>0, <1>15 DEF Crash, history, HistoryTyped
  <2> QED BY <2>1, <2>2, <2>4, TypeParts
<1>16. CASE UNCHANGED vars
  BY <1>0, <1>16, TypeParts, AtMoves
     DEF vars, archive, history, OperationTyped, EntriesAre, DataTyped, StreamTyped, HistoryTyped
<1> QED BY <1>2, <1>3, <1>4, <1>5, <1>6, <1>7, <1>8, <1>9, <1>10, <1>11, <1>12, <1>13, <1>14,
           <1>15, <1>16, <1>17 DEF Next

-----------------------------------------------------------------------------
(* Results and names. *)

\* A begun operation is at the first call.
LEMMA Begun ==
  ASSUME Next
  PROVE  \/ \E g \in Groups \cup {NoGroup} :
              Begin("load", g, ReadIni) \/ Begin("save", g, ReadIni) \/ Begin("print", g, Empty)
         \/ Begin("initialize", NoGroup, Empty) \/ CannotRead
         \/ GroupCall \/ NoGroupName \/ LoadItem \/ SaveItem \/ InitializeItem \/ PrintItem
         \/ Serialized \/ OpenFile \/ WriteIni \/ Assign \/ Edit \/ Crash
BY DEF Next, LoadIni, SaveIni, PrintIni, InitializeIni

LEMMA CallsStay == [Next]_vars => calls' = calls
<1> SUFFICES ASSUME [Next]_vars PROVE calls' = calls
  OBVIOUS
<1>1. CASE UNCHANGED vars
  BY <1>1 DEF vars, history
<1>2. CASE Next
  BY <1>2, Begun DEF Begin, CannotRead, GroupCall, NoGroupName, LoadItem, SaveItem, InitializeItem,
     PrintItem, Serialized, OpenFile, WriteIni, Assign, Edit, Crash, Throw, history
<1> QED BY <1>1, <1>2

LEMMA ResultStep == ResultInv /\ [Next]_vars => ResultInv'
<1> SUFFICES ASSUME ResultInv, [Next]_vars PROVE ResultInv'
  OBVIOUS
<1> USE DEF ResultInv
<1>1. CASE UNCHANGED vars
  BY <1>1 DEF vars
<1>2. CASE Next
  <2>1. CASE \E o, g, entries : Begin(o, g, entries)
    BY <2>1 DEF Begin
  <2>2. CASE GroupCall \/ SaveItem \/ InitializeItem \/ PrintItem \/ Edit
    BY <2>2 DEF GroupCall, SaveItem, InitializeItem, PrintItem, Edit
  <2>3. CASE NoGroupName \/ LoadItem \/ CannotRead
    BY <2>3 DEF NoGroupName, LoadItem, CannotRead, Throw, Leave
  <2>4. CASE Serialized
    BY <2>4 DEF Serialized, Leave
  <2>5. CASE OpenFile \/ WriteIni \/ Assign \/ Crash
    BY <2>5 DEF OpenFile, WriteIni, Assign, Crash, Leave
  <2> QED BY <1>2, <2>1, <2>2, <2>3, <2>4, <2>5, Begun
<1> QED BY <1>1, <1>2

LEMMA NameStep == TypeOK /\ ResultInv /\ NameInv /\ [Next]_vars => NameInv'
<1> SUFFICES ASSUME TypeOK, ResultInv, NameInv, [Next]_vars PROVE NameInv'
  OBVIOUS
<1> USE DEF NameInv
<1>0. calls' = calls /\ group \in Groups \cup {NoGroup}
  BY CallsStay DEF TypeOK
<1>1. ASSUME UNCHANGED archive, op' = op \/ op' \in {"idle", "open", "write"}, result' \in {result, "none", "threw"}
      PROVE  NameInv'
  BY <1>0, <1>1, SeenMoves DEF archive
<1>2. ASSUME op' = "idle", group' = group, result' \in {result, "none", "threw"} PROVE NameInv'
  BY <1>2
<1>3. CASE UNCHANGED vars
  BY <1>1, <1>3 DEF vars
<1>4. CASE Next
  <2>1. CASE \E o, g, entries : Begin(o, g, entries)
    BY <1>0, <2>1, SeenMoves DEF Begin
  <2>2. CASE GroupCall
    <3>1. Seen' = Seen /\ op' = op /\ hasValues' = hasValues /\ result' = "none"
      BY <1>0, <2>2, SeenMoves DEF GroupCall, Serializing, ResultInv
    <3>2. group' = group \/ group' \in Groups
      <4>1. at \in 1 .. Len(calls)
        BY <2>2, CallsAreASeq DEF GroupCall, Serializing
      <4> QED BY <2>2, <4>1, CallShape DEF GroupCall, Call
    <3> QED BY <3>1, <3>2
  <2>3. CASE LoadItem /\ ~Throw
    <3>1. Seen' = Seen \cup {Call.item} /\ group \in Groups /\ group' = group
      BY <1>0, <2>3, SeenMoves DEF LoadItem, history
    <3> QED BY <3>1
  <2>4. CASE SaveItem \/ PrintItem \/ InitializeItem
    BY <1>0, <2>4, SeenMoves DEF SaveItem, PrintItem, InitializeItem, AtItem, Serializing, ResultInv
  <2>5. CASE Throw \/ NoGroupName \/ CannotRead
    BY <1>2, <2>5 DEF NoGroupName, CannotRead, archive, Throw, Leave
  <2>6. CASE Serialized
    <3>1. op = "load" /\ hasValues => group \in Groups
      OBVIOUS
    <3> QED BY <2>6, <3>1 DEF Serialized, Leave, archive, ResultInv
  <2>7. CASE OpenFile
    <3>1. CASE UNCHANGED archive /\ op' = "write"
      BY <1>1, <2>7, <3>1 DEF OpenFile
    <3>2. CASE Leave
      BY <1>2, <2>7, <3>2 DEF OpenFile, Leave
    <3> QED BY <2>7, <3>1, <3>2 DEF OpenFile
  <2>8. CASE WriteIni
    BY <1>2, <2>8 DEF WriteIni, Leave
  <2>9. CASE Crash
    BY <2>9 DEF Crash
  <2>10. CASE Assign \/ Edit
    BY <1>1, <2>10 DEF Assign, Edit
  <2> QED BY <1>4, <2>1, <2>2, <2>3, <2>4, <2>5, <2>6, <2>7, <2>8, <2>9, <2>10, Begun
<1> QED BY <1>3, <1>4

-----------------------------------------------------------------------------
(* What is saved and what is loaded. *)

LEMMA SaveStep == TypeOK /\ NameInv /\ SaveInv /\ [Next]_vars => SaveInv'
<1> SUFFICES ASSUME TypeOK, NameInv, SaveInv, [Next]_vars, op' \in {"save", "open", "write"}
             PROVE  SaveInv'
  BY DEF SaveInv
<1>0. /\ calls' = calls /\ ItemNames' = ItemNames /\ NoGroup \notin Groups
      /\ group \in Groups \cup {NoGroup} /\ tree \in [Keys -> Values \cup {Garbage, Nothing}]
      /\ Seen \subseteq ItemNames /\ ItemNames \subseteq Items
  BY CallsStay, SeenMoves, IniAssumption DEF TypeOK, Entries
<1> USE DEF SaveInv
<1>1. ASSUME op' = op \/ op = "open", UNCHANGED <<data, archive>> PROVE SaveInv'
  <2>1. Seen' = Seen /\ op \in {"save", "open", "write"} /\ (op' # "save" => op # "save")
    BY <1>0, <1>1, SeenMoves DEF archive
  <2> QED BY <1>0, <1>1, <2>1 DEF archive
<1>2. CASE UNCHANGED vars
  BY <1>1, <1>2 DEF vars
<1>3. CASE Next
  <2>1. CASE \E o, g, entries : Begin(o, g, entries) /\ o \notin {"open", "write"}
    <3>1. Seen' = {} /\ tree' = asRead' /\ op' = "save"
      BY <1>0, <2>1, SeenMoves DEF Begin
    <3> QED BY <3>1
  <2>2. CASE GroupCall
    <3>1. op = "save" /\ op' = "save" /\ Seen' = Seen /\ UNCHANGED <<tree, asRead, data>>
      BY <1>0, <2>2, SeenMoves DEF GroupCall, Serializing
    <3>2. CASE group = NoGroup
      <4>1. Seen = {} /\ \A g \in Groups, n \in Items : tree[<<g, n>>] = asRead[<<g, n>>]
        BY <1>0, <3>1, <3>2 DEF NameInv
      <4> QED BY <3>1, <4>1
    <3>3. CASE group # NoGroup
      <4>1. group' = group
        BY <2>2, <3>3 DEF GroupCall
      <4> QED BY <1>0, <3>1, <4>1
    <3> QED BY <3>2, <3>3
  <2>3. CASE SaveItem
    <3>1. /\ group \in Groups /\ Call.item \in ItemNames /\ Call.item \in Items
          /\ Seen' = Seen \cup {Call.item} /\ op = "save"
      BY <1>0, <2>3, SeenMoves DEF SaveItem
    <3>2. /\ op' = op /\ UNCHANGED <<data, group, asRead>>
          /\ tree' = [tree EXCEPT ![Key] = data[Call.item]]
      BY <2>3 DEF SaveItem
    <3>3. \A g \in Groups, n \in Items :
            tree'[<<g, n>>] = IF g = group /\ n = Call.item THEN data[Call.item] ELSE tree[<<g, n>>]
      BY <1>0, <3>1, <3>2 DEF Key, Keys
    <3>4. \A g \in Groups, n \in Items : tree'[<<g, n>>] # asRead'[<<g, n>>] => g = group' /\ n \in ItemNames'
      BY <1>0, <3>1, <3>2, <3>3
    <3>5. \A n \in Seen' : tree'[<<group', n>>] = data'[n]
      BY <1>0, <3>1, <3>2, <3>3
    <3> QED BY <3>1, <3>2, <3>4, <3>5
  <2>4. CASE LoadItem \/ InitializeItem \/ PrintItem
    BY <2>4 DEF LoadItem, InitializeItem, PrintItem, Throw, Leave
  <2>5. CASE NoGroupName \/ WriteIni \/ Assign \/ Crash \/ CannotRead
    BY <2>5 DEF NoGroupName, Throw, WriteIni, Assign, Crash, CannotRead, Leave
  <2>6. CASE Serialized
    <3>1. op = "save" /\ UNCHANGED <<data, archive>>
      BY <2>6 DEF Serialized, Leave
    <3>2. Seen' = Seen /\ Seen = ItemNames
      BY <1>0, <2>6, <3>1, SeenMoves DEF Serialized, archive
    <3> QED BY <1>0, <3>1, <3>2 DEF archive
  <2>7. CASE OpenFile
    BY <1>1, <2>7 DEF OpenFile, Leave
  <2>8. CASE Edit
    BY <1>1, <2>8 DEF Edit
  <2> QED BY <1>3, <2>1, <2>2, <2>3, <2>4, <2>5, <2>6, <2>7, <2>8, Begun
<1> QED BY <1>2, <1>3

LEMMA FileStep == TypeOK /\ SaveInv /\ FileInv /\ [Next]_vars => FileInv'
<1> SUFFICES ASSUME TypeOK, SaveInv, FileInv, [Next]_vars PROVE FileInv'
  OBVIOUS
<1>0. ItemNames' = ItemNames
  BY CallsStay, SeenMoves
<1>1. CASE UNCHANGED <<file, saved>>
  BY <1>0, <1>1 DEF FileInv
<1>2. CASE saved' = Nothing
  BY <1>2 DEF FileInv
<1>3. CASE WriteIni /\ WriteAll
  <2>1. op = "write" /\ Seen = ItemNames /\ saved' = [group |-> group, data |-> data] /\ file' = tree
    BY <1>3 DEF WriteIni, WriteAll, SaveInv
  <2>2. saved'.group = group /\ saved'.data = data
    BY <2>1
  <2> QED BY <1>0, <2>1, <2>2 DEF FileInv, SaveInv
<1>4. UNCHANGED <<file, saved>> \/ saved' = Nothing \/ (WriteIni /\ WriteAll)
  <2>1. CASE UNCHANGED vars
    BY <2>1 DEF vars, history
  <2>2. CASE Next
    <3>1. CASE \E o, g, entries : Begin(o, g, entries)
      BY <3>1 DEF Begin, history
    <3>2. CASE GroupCall \/ SaveItem \/ InitializeItem \/ PrintItem \/ Serialized
      BY <3>2 DEF GroupCall, SaveItem, InitializeItem, PrintItem, Serialized, history
    <3>3. CASE NoGroupName \/ LoadItem \/ CannotRead
      BY <3>3 DEF NoGroupName, LoadItem, CannotRead, Throw, history
    <3>4. CASE OpenFile \/ Assign \/ Edit \/ Crash
      BY <3>4 DEF OpenFile, Assign, Edit, Crash, history
    <3>5. CASE WriteIni
      BY <3>5 DEF WriteIni, WritePart
    <3> QED BY <2>2, <3>1, <3>2, <3>3, <3>4, <3>5, Begun
  <2> QED BY <2>1, <2>2
<1> QED BY <1>1, <1>2, <1>3, <1>4

LEMMA LoadStep ==
  TypeOK /\ ResultInv /\ NameInv /\ FileInv /\ LoadInv /\ [Next]_vars => LoadInv'
<1> SUFFICES ASSUME TypeOK, ResultInv, NameInv, FileInv, LoadInv, [Next]_vars,
                    saved' # Nothing, saved'.group \in Groups
             PROVE  LoadInv'
  BY DEF LoadInv
<1>0. /\ calls' = calls /\ ItemNames' = ItemNames /\ NoGroup \notin Groups
      /\ group \in Groups \cup {NoGroup} /\ data \in [Items -> Values]
      /\ Seen \subseteq ItemNames /\ ItemNames \subseteq Items
      /\ Trim \in [Values -> Values]
  BY CallsStay, SeenMoves, IniAssumption DEF TypeOK
<1>1. saved # Nothing => saved.data \in [Items -> Values]
  BY DEF TypeOK
<1> USE DEF LoadInv
<1>2. CASE UNCHANGED vars
  <2>1. Seen' = Seen
    BY <1>0, <1>2, SeenMoves DEF vars, archive
  <2> QED BY <1>0, <1>2, <2>1 DEF vars, archive, history
<1>3. ASSUME op' # "load", result' \notin {"found", "not found"} PROVE LoadInv'
  BY <1>3
<1>4. CASE Next
  <2>1. ASSUME NEW o, NEW g, NEW entries, Begin(o, g, entries), o = "load" => entries = ReadIni
        PROVE  LoadInv'
    <3>1. op' = o /\ tree' = entries /\ result' = "none" /\ saved' = saved /\ Seen' = {}
      BY <1>0, <2>1, SeenMoves DEF Begin, history
    <3>2. ASSUME NEW n \in ItemNames PROVE ReadIni[<<saved.group, n>>] = Trim[saved.data[n]]
      <4>1. file[<<saved.group, n>>] = saved.data[n] /\ saved.data[n] \in Values
            /\ <<saved.group, n>> \in Keys
        BY <1>0, <1>1, <3>1 DEF FileInv, Keys
      <4> QED BY <4>1 DEF ReadIni
    <3> QED BY <1>0, <2>1, <3>1, <3>2
  <2>2. CASE GroupCall
    <3>1. Seen' = Seen /\ UNCHANGED <<op, data, tree, result, saved>> /\ op # "idle" /\ result = "none"
      BY <1>0, <2>2, SeenMoves DEF GroupCall, history, Serializing, ResultInv
    <3>2. group' = group \/ (op = "load" => Seen = {})
      BY <1>0, <2>2 DEF GroupCall, NameInv
    <3> QED BY <1>0, <3>1, <3>2
  <2>3. CASE LoadItem
    <3>1. CASE Throw
      BY <1>3, <3>1 DEF Throw, Leave
    <3>2. CASE ~Throw
      <4>1. /\ group \in Groups /\ Call.item \in ItemNames /\ Call.item \in Items
            /\ Seen' = Seen \cup {Call.item} /\ op = "load" /\ result = "none"
        BY <1>0, <2>3, <3>2, SeenMoves DEF LoadItem, ResultInv, history
      <4>2. /\ data' = [data EXCEPT ![Call.item] = IF tree[Key] \in Values THEN tree[Key] ELSE Default]
            /\ UNCHANGED <<op, group, tree, result, saved>>
        BY <2>3, <3>2 DEF LoadItem, history
      <4>3. \A n \in ItemNames : /\ tree[<<saved.group, n>>] = Trim[saved.data[n]]
                                 /\ saved.data[n] \in Values /\ Trim[saved.data[n]] \in Values
        BY <1>0, <1>1, <4>1, <4>2
      <4>4. ASSUME saved.group = group, NEW n \in Seen' PROVE data'[n] = Trim[saved.data[n]]
        <5>1. CASE n = Call.item
          <6>1. tree[Key] = Trim[saved.data[n]] /\ tree[Key] \in Values
            BY <4>1, <4>3, <4>4, <5>1 DEF Key
          <6> QED BY <1>0, <4>1, <4>2, <5>1, <6>1
        <5>2. CASE n # Call.item
          <6>1. n \in Seen /\ data'[n] = data[n]
            BY <1>0, <4>1, <4>2, <5>2
          <6> QED BY <4>1, <4>2, <4>4, <6>1
        <5> QED BY <5>1, <5>2
      <4> QED BY <1>0, <4>1, <4>2, <4>3, <4>4
    <3> QED BY <3>1, <3>2
  <2>4. CASE SaveItem \/ InitializeItem \/ PrintItem
    BY <1>3, <2>4 DEF SaveItem, InitializeItem, PrintItem, ResultInv
  <2>5. CASE NoGroupName \/ CannotRead
    BY <1>3, <2>5 DEF NoGroupName, CannotRead, Throw, Leave
  <2>6. CASE Serialized
    <3>1. Seen = ItemNames /\ UNCHANGED <<data, group, saved>> /\ op' # "load" /\ result = "none"
      BY <1>0, <2>6, SeenMoves DEF Serialized, archive, history, ResultInv, Leave
    <3>2. CASE op = "load"
      BY <1>0, <3>1, <3>2
    <3>3. CASE op # "load"
      BY <1>3, <2>6, <3>1, <3>3 DEF Serialized
    <3> QED BY <3>2, <3>3
  <2>7. CASE OpenFile \/ WriteIni
    BY <1>3, <2>7 DEF OpenFile, WriteIni, ResultInv, Leave
  <2>8. CASE Assign \/ Crash
    BY <1>3, <2>8 DEF Assign, Crash
  <2>9. CASE Edit
    BY <2>9 DEF Edit
  <2> QED
    <3>1. "save" # "load" /\ "print" # "load" /\ "initialize" # "load"
      OBVIOUS
    <3> QED BY <1>4, <2>1, <2>2, <2>3, <2>4, <2>5, <2>6, <2>7, <2>8, <2>9, <3>1, Begun
<1> QED BY <1>2, <1>4

-----------------------------------------------------------------------------
(* A file that is not whole. *)

\* What ReadIni says of an entry.
LEMMA ReadEntry ==
  ASSUME TypeOK, NEW k \in Keys
  PROVE  /\ ReadIni[k] # Nothing => file[k] # Nothing
         /\ ReadIni[k] \in Values => file[k] \in Values /\ ReadIni[k] = Trim[file[k]]
BY IniAssumption DEF ReadIni, TypeOK, Entries

\* What a cut leaves is of what was to be written.
LEMMA TornByWrite ==
  ASSUME TypeOK, SaveInv, op = "write", WritePart, calls' = calls, torn'.group \in Groups
  PROVE  /\ torn'.group = group /\ torn'.data = data
         /\ \A n \in ItemNames : \/ file'[<<group, n>>] \in {data[n], Nothing}
                                \/ <<group, n>> = torn'.cut
<1>1. PICK kept \in SUBSET Keys, cut \in Keys \cup {Nothing}, rest \in Values \cup {Garbage} :
        /\ file' = [k \in Keys |-> IF k \in kept THEN tree[k] ELSE IF k = cut THEN rest ELSE Nothing]
        /\ torn' = [group |-> group, data |-> data, cut |-> cut]
  BY PartWritten
<1>2. torn'.group = group /\ torn'.data = data /\ torn'.cut = cut
  BY <1>1
<1>3. ASSUME NEW n \in ItemNames PROVE tree[<<group, n>>] = data[n] /\ <<group, n>> \in Keys
  BY <1>2 DEF SaveInv, ItemNames, Keys
<1> QED BY <1>1, <1>2, <1>3

LEMMA TornStep == TypeOK /\ ResultInv /\ NameInv /\ SaveInv /\ TornInv /\ [Next]_vars => TornInv'
<1> SUFFICES ASSUME TypeOK, ResultInv, NameInv, SaveInv, TornInv, [Next]_vars,
                    torn' # Nothing, torn'.group \in Groups
             PROVE  TornInv'
  BY DEF TornInv
<1>0. /\ calls' = calls /\ ItemNames' = ItemNames /\ NoGroup \notin Groups
      /\ group \in Groups \cup {NoGroup} /\ data \in [Items -> Values]
      /\ Seen \subseteq ItemNames /\ ItemNames \subseteq Items
  BY CallsStay, SeenMoves, IniAssumption DEF TypeOK
<1> USE DEF TornInv
<1>1. ASSUME UNCHANGED <<group, torn, data>>, NEW n PROVE Loaded(n)' <=> Loaded(n)
  BY <1>0, <1>1 DEF Loaded, IsItem
<1>2. ASSUME UNCHANGED file PROVE ReadIni' = ReadIni
  BY <1>2 DEF ReadIni
<1>3. ASSUME UNCHANGED <<file, torn>>, op' # "load", result' \notin {"found", "not found"} PROVE TornInv'
  BY <1>0, <1>3
<1>4. CASE UNCHANGED vars
  <2>1. Seen' = Seen
    BY <1>0, <1>4, SeenMoves DEF vars, archive
  <2>2. UNCHANGED <<file, torn, group, data, op, tree, hasValues, result>>
    BY <1>4 DEF vars, archive, history
  <2> QED BY <1>0, <1>1, <1>2, <2>1, <2>2
<1>5. CASE Next
  <2>1. ASSUME NEW o, NEW g, NEW entries, Begin(o, g, entries), o = "load" => entries = ReadIni
        PROVE  TornInv'
    <3>1. op' = o /\ tree' = entries /\ result' = "none" /\ Seen' = {} /\ hasValues' = FALSE
          /\ UNCHANGED <<file, torn>>
      BY <1>0, <2>1, SeenMoves DEF Begin, history
    <3> QED BY <1>0, <1>2, <2>1, <3>1
  <2>2. CASE GroupCall
    <3>1. Seen' = Seen /\ UNCHANGED <<file, torn, op, data, tree, hasValues, result>>
          /\ op # "idle" /\ result = "none"
      BY <1>0, <2>2, SeenMoves DEF GroupCall, history, Serializing, ResultInv
    <3>2. group' = group \/ (op = "load" => Seen = {})
      BY <1>0, <2>2 DEF GroupCall, NameInv
    <3> QED BY <1>0, <1>1, <1>2, <3>1, <3>2
  <2>3. CASE LoadItem
    <3>1. CASE Throw
      BY <1>3, <3>1 DEF Throw, Leave, history
    <3>2. CASE ~Throw
      <4>1. /\ group \in Groups /\ Call.item \in ItemNames /\ Call.item \in Items /\ Key \in Keys
            /\ Seen' = Seen \cup {Call.item} /\ op = "load" /\ result = "none"
            /\ at \in 1 .. Len(calls) /\ IsItem(at) /\ calls[at].item = Call.item
        BY <1>0, <2>3, <3>2, SeenMoves, ItemCall DEF LoadItem, ResultInv, history, Call, Key, Keys
      <4>2. /\ data' = [data EXCEPT ![Call.item] = IF tree[Key] \in Values THEN tree[Key] ELSE Default]
            /\ hasValues' = (hasValues \/ tree[Key] # Nothing)
            /\ tree[Key] \in Values \/ Call.default # Nothing
            /\ UNCHANGED <<file, op, group, tree, result, torn>>
        BY <2>3, <3>2 DEF LoadItem, history
      <4>3. hasValues' => \E n \in Seen' : tree'[<<group', n>>] # Nothing
        BY <4>1, <4>2 DEF Key
      <4>4. ASSUME torn.group = group, NEW n \in Seen' PROVE Loaded(n)'
        <5>1. CASE n = Call.item
          <6>1. data'[n] = IF tree[Key] \in Values THEN tree[Key] ELSE Default
            BY <1>0, <4>1, <4>2, <5>1
          <6>2. CASE Key = torn.cut
            BY <4>2, <5>1, <6>2 DEF Loaded, Key
          <6>3. CASE Key # torn.cut /\ tree[Key] \in Values
            <7>1. file[Key] \in {torn.data[n], Nothing} /\ tree = ReadIni
              BY <4>1, <4>2, <4>4, <5>1, <6>3 DEF Key
            <7>2. data'[n] = Trim[torn.data[n]]
              BY <4>1, <6>1, <6>3, <7>1, ReadEntry, IniAssumption
            <7> QED BY <4>2, <7>2 DEF Loaded
          <6>4. CASE tree[Key] \notin Values
            <7>1. data'[n] = calls[at].default
              BY <4>2, <6>1, <6>4 DEF Default, Call
            <7> QED BY <1>0, <4>1, <5>1, <7>1 DEF Loaded, IsItem
          <6> QED BY <6>2, <6>3, <6>4
        <5>2. CASE n # Call.item
          <6>1. n \in Seen /\ data'[n] = data[n] /\ Loaded(n)
            BY <1>0, <4>1, <4>2, <4>4, <5>2
          <6> QED BY <1>0, <4>2, <6>1 DEF Loaded, IsItem
        <5> QED BY <5>1, <5>2
      <4> QED BY <1>0, <1>2, <4>1, <4>2, <4>3, <4>4
    <3> QED BY <3>1, <3>2
  <2>4. CASE SaveItem \/ InitializeItem \/ PrintItem
    BY <1>3, <2>4 DEF SaveItem, InitializeItem, PrintItem, ResultInv, history
  <2>5. CASE NoGroupName \/ CannotRead
    BY <1>3, <2>5 DEF NoGroupName, CannotRead, Throw, Leave, history
  <2>6. CASE Serialized
    <3>1. Seen = ItemNames /\ op' # "load" /\ result = "none" /\ UNCHANGED <<file, torn, data, group>>
      BY <1>0, <2>6, SeenMoves DEF Serialized, Leave, archive, history, ResultInv
    <3>2. CASE op = "load"
      <4>1. result' = IF hasValues THEN "found" ELSE "not found"
        BY <2>6, <3>2 DEF Serialized
      <4>2. ASSUME hasValues PROVE \E n \in ItemNames : file[<<group, n>>] # Nothing
        <5>1. PICK n \in Seen : tree[<<group, n>>] # Nothing /\ tree = ReadIni
          BY <3>1, <3>2, <4>2
        <5>2. <<group, n>> \in Keys
          BY <1>0, <3>2, <5>1 DEF NameInv, Keys
        <5> QED BY <3>1, <5>1, <5>2, ReadEntry
      <4> QED BY <1>0, <1>1, <3>1, <3>2, <4>1, <4>2
    <3>3. CASE op # "load"
      BY <1>3, <2>6, <3>1, <3>3 DEF Serialized
    <3> QED BY <3>2, <3>3
  <2>7. CASE OpenFile
    <3>1. op # "idle" /\ result' = "none" /\ op' # "load"
      BY <2>7 DEF OpenFile, Leave, ResultInv
    <3>2. CASE op' = "write"
      <4>1. file' = Empty
        BY <2>7, <3>2 DEF OpenFile, Leave
      <4> QED BY <1>0, <3>1, <4>1, EntriesTyped
    <3>3. CASE op' # "write"
      BY <1>3, <2>7, <3>1, <3>3 DEF OpenFile
    <3> QED BY <3>2, <3>3
  <2>8. CASE WriteIni
    <3>1. op = "write" /\ result' = "none" /\ op' = "idle" /\ WritePart
      BY <2>8 DEF WriteIni, WriteAll, Leave, ResultInv
    <3> QED BY <1>0, <3>1, TornByWrite
  <2>9. CASE Assign \/ Crash
    BY <1>3, <2>9 DEF Assign, Crash, history
  <2>10. CASE Edit
    BY <2>10 DEF Edit
  <2> QED
    <3>1. "save" # "load" /\ "print" # "load" /\ "initialize" # "load"
      OBVIOUS
    <3> QED BY <1>5, <2>1, <2>2, <2>3, <2>4, <2>5, <2>6, <2>7, <2>8, <2>9, <2>10, <3>1, Begun
<1> QED BY <1>4, <1>5

-----------------------------------------------------------------------------
(* What is printed. *)

\* How many items there are up to a call.
LEMMA ItemsCount ==
  ASSUME TypeOK, NEW n \in 0 .. Len(calls)
  PROVE  /\ IsFiniteSet(ItemsTo(n)) /\ Cardinality(ItemsTo(n)) \in Nat
         /\ \A c \in ItemsTo(n) : /\ Cardinality(ItemsTo(c)) \in Nat
                                 /\ Cardinality(ItemsTo(c)) <= Cardinality(ItemsTo(n))
         /\ n = 0 => ItemsTo(n) = {} /\ Cardinality(ItemsTo(n)) = 0
<1>0. n \in Int /\ Len(calls) \in Nat
  BY CallsAreASeq
<1>1. IsFiniteSet(1 .. n) /\ ItemsTo(n) \in SUBSET (1 .. n)
  BY <1>0, FS_Interval DEF ItemsTo
<1>2. IsFiniteSet(ItemsTo(n))
  BY <1>1, FS_Subset
<1>3. Cardinality(ItemsTo(n)) \in Nat
  BY <1>2, FS_CardinalityType
<1>4. ASSUME NEW c \in ItemsTo(n)
      PROVE  /\ Cardinality(ItemsTo(c)) \in Nat
             /\ Cardinality(ItemsTo(c)) <= Cardinality(ItemsTo(n))
  <2>1. 1 .. c \subseteq 1 .. n
    BY <1>0, <1>4 DEF ItemsTo
  <2>2. ItemsTo(c) \in SUBSET ItemsTo(n)
    BY <2>1 DEF ItemsTo
  <2>3. IsFiniteSet(ItemsTo(c)) /\ Cardinality(ItemsTo(c)) <= Cardinality(ItemsTo(n))
    BY <1>2, <2>2, FS_Subset
  <2> QED BY <2>3, FS_CardinalityType
<1>5. n = 0 => ItemsTo(n) = {}
  BY <1>0 DEF ItemsTo
<1> QED BY <1>2, <1>3, <1>4, <1>5, FS_EmptySet

\* The next call adds itself if it is an item.
LEMMA ItemsMove ==
  ASSUME TypeOK, Serializing
  PROVE  /\ at - 1 \in 0 .. Len(calls) /\ at \in 1 .. Len(calls)
         /\ "item" \in DOMAIN Call => /\ ItemsTo(at) = ItemsTo(at - 1) \cup {at}
                                     /\ Cardinality(ItemsTo(at)) = Cardinality(ItemsTo(at - 1)) + 1
         /\ "group" \in DOMAIN Call => ItemsTo(at) = ItemsTo(at - 1)
<1>1. at - 1 \in 0 .. Len(calls) /\ at \in 1 .. Len(calls) /\ Len(calls) \in Nat
  BY CallsAreASeq DEF Serializing
<1>2. 1 .. at = (1 .. at - 1) \cup {at} /\ at \notin 1 .. at - 1
  BY <1>1
<1>3. ASSUME "item" \in DOMAIN Call
      PROVE  /\ ItemsTo(at) = ItemsTo(at - 1) \cup {at}
             /\ Cardinality(ItemsTo(at)) = Cardinality(ItemsTo(at - 1)) + 1
  <2>1. ItemsTo(at) = ItemsTo(at - 1) \cup {at} /\ at \notin ItemsTo(at - 1)
    BY <1>1, <1>2, <1>3 DEF ItemsTo, IsItem, Call
  <2>2. IsFiniteSet(ItemsTo(at - 1))
    BY <1>1, ItemsCount
  <2> QED BY <2>1, <2>2, FS_AddElement
<1>4. ASSUME "group" \in DOMAIN Call PROVE ItemsTo(at) = ItemsTo(at - 1)
  <2>1. ~IsItem(at)
    BY <1>1, <1>4, CallShape DEF Call, IsItem
  <2> QED BY <1>2, <2>1 DEF ItemsTo
<1> QED BY <1>1, <1>3, <1>4

\* A stream of one header.
LEMMA OneHeader ==
  ASSUME NEW g \in Groups, stream' = <<[header |-> g]>>
  PROVE  stream' # <<>> /\ Headers' = {1} /\ stream'[1].header = g /\ Len(stream') = 1
<1>1. /\ Len(stream') = 1 /\ DOMAIN stream' = 1 .. 1 /\ stream'[1] = [header |-> g]
      /\ stream' # <<>>
  OBVIOUS
<1>2. 1 .. 1 = {1}
  OBVIOUS
<1> QED BY <1>1, <1>2 DEF Headers

\* A line after it.
LEMMA LinePrinted ==
  ASSUME TypeOK, stream # <<>>, NEW line \in Lines, "header" \notin DOMAIN line,
         stream' = Append(stream, line)
  PROVE  /\ stream' # <<>> /\ Headers' = Headers /\ stream'[1] = stream[1]
         /\ Len(stream) \in Nat /\ Len(stream') = Len(stream) + 1
         /\ \A k \in 1 .. Len(stream) : stream'[k] = stream[k]
         /\ stream'[Len(stream) + 1] = line
<1>1. stream \in Seq(Lines)
  BY DEF TypeOK, Lines
<1>2. /\ Append(stream, line) \in Seq(Lines)
      /\ Len(Append(stream, line)) = Len(stream) + 1
      /\ \A k \in 1 .. Len(stream) : Append(stream, line)[k] = stream[k]
      /\ Append(stream, line)[Len(stream) + 1] = line
  BY <1>1, AppendProperties
<1>3. Len(stream) \in Nat /\ Len(stream) >= 1 /\ DOMAIN stream = 1 .. Len(stream)
  BY <1>1, EmptySeq, LenProperties
<1>4. Len(stream') = Len(stream) + 1 /\ DOMAIN stream' = 1 .. Len(stream) + 1
  BY <1>2, LenProperties
<1>5. /\ \A k \in 1 .. Len(stream) + 1 : k \in 1 .. Len(stream) \/ k = Len(stream) + 1
      /\ 1 \in 1 .. Len(stream) /\ 1 .. Len(stream) \subseteq 1 .. Len(stream) + 1
  BY <1>3
<1>6. Headers' = Headers
  BY <1>2, <1>3, <1>4, <1>5 DEF Headers
<1>7. stream' # <<>>
  <2>1. Len(<<>>) = 0
    OBVIOUS
  <2> QED BY <1>3, <1>4, <2>1
<1> QED BY <1>2, <1>3, <1>5, <1>6, <1>7

LEMMA PrintStep == TypeOK /\ ResultInv /\ NameInv /\ PrintInv /\ [Next]_vars => PrintInv'
<1> SUFFICES ASSUME TypeOK, ResultInv, NameInv, PrintInv, [Next]_vars PROVE PrintInv'
  OBVIOUS
<1>0. /\ calls' = calls /\ NoGroup \notin Groups /\ group \in Groups \cup {NoGroup}
      /\ Len(calls) \in Nat /\ at \in 1 .. Len(calls) + 1
  BY CallsStay, IniAssumption, CallsAreASeq DEF TypeOK
<1> USE DEF PrintInv
<1>1. ASSUME stream' = <<>> PROVE Headers' = {}
  BY <1>1 DEF Headers
<1>2. ASSUME stream' = stream PROVE Headers' = Headers
  BY <1>2 DEF Headers
<1>3. ASSUME NEW n PROVE ItemsTo(n)' = ItemsTo(n)
  BY <1>0 DEF ItemsTo, IsItem
<1>4. ASSUME UNCHANGED <<stream, group, data>>, NEW n PROVE PrintedTo(n)' <=> PrintedTo(n)
  BY <1>0, <1>3, <1>4 DEF PrintedTo, LineOf
<1>5. ASSUME stream' = <<>>, op' # "print", result' # "printed" PROVE PrintInv'
  BY <1>5
<1>6. ASSUME UNCHANGED <<stream, group>>, op' = "idle", result' # "printed" PROVE PrintInv'
  BY <1>2, <1>6
<1>7. ASSUME UNCHANGED <<op, group, at, stream, data>>, result' \in {result, "none", "threw"} PROVE PrintInv'
  <2>1. PrintedTo(at - 1)' <=> PrintedTo(at - 1)
    BY <1>4, <1>7 DEF PrintedTo
  <2>2. PrintedTo(Len(calls))' <=> PrintedTo(Len(calls))
    BY <1>0, <1>4, <1>7 DEF PrintedTo
  <2> QED BY <1>2, <1>7, <2>1, <2>2
<1>10. ASSUME at' - 1 = at PROVE ItemsTo(at - 1)' = ItemsTo(at)
  BY <1>0, <1>10 DEF ItemsTo, IsItem
<1>8. CASE UNCHANGED vars
  BY <1>7, <1>8 DEF vars, archive
<1>9. CASE Next
  <2>1. ASSUME NEW o, NEW g \in Groups \cup {NoGroup}, NEW entries, Begin(o, g, entries),
               o \in {"load", "save", "print", "initialize"}
        PROVE  PrintInv'
    <3>1. op' = o /\ group' = g /\ result' = "none" /\ at' = 1 /\ at' - 1 = 0
      BY <2>1 DEF Begin
    <3>2. CASE o # "print"
      BY <1>5, <2>1, <3>1, <3>2 DEF Begin
    <3>3. CASE o = "print"
      <4>1. ItemsTo(0)' = {} /\ Cardinality(ItemsTo(0)') = 0
        BY <1>0, <1>3, ItemsCount
      <4>2. stream' = (IF g # NoGroup THEN <<[header |-> g]>> ELSE <<>>)
        BY <2>1, <3>3 DEF Begin
      <4>3. Len(stream') = IF g = NoGroup THEN 0 ELSE 1
        BY <4>2
      <4>4. PrintedTo(at - 1)'
        BY <3>1, <4>1, <4>3 DEF PrintedTo
      <4>5. stream' # <<>> => Headers' = {1} /\ stream'[1].header = group'
        BY <3>1, <4>2, OneHeader
      <4>6. stream' = <<>> <=> group' = NoGroup
        BY <3>1, <4>2, OneHeader
      <4> QED BY <3>1, <3>3, <4>4, <4>5, <4>6
    <3> QED BY <3>2, <3>3
  <2>2. CASE GroupCall
    <3>1. op' = op /\ op # "idle" /\ result' = "none" /\ at' = at + 1 /\ data' = data
          /\ Serializing /\ "group" \in DOMAIN Call
      BY <2>2 DEF GroupCall, Serializing, ResultInv
    <3>2. ItemsTo(at) = ItemsTo(at - 1) /\ at' - 1 = at /\ at - 1 \in 0 .. Len(calls)
      BY <1>0, <3>1, ItemsMove
    <3>3. CASE op = "print" /\ group = NoGroup
      <4>1. stream = <<>> /\ Seen = {}
        BY <1>0, <3>3 DEF NameInv
      <4>2. ItemsTo(at - 1) = {}
        <5>1. \A c \in ItemsTo(at - 1) : IsItem(c) /\ calls[c].item \in Items /\ c \in 1 .. at - 1
          BY CallShape DEF ItemsTo, IsItem
        <5> QED BY <4>1, <5>1 DEF Seen
      <4>3. Call.group \in Groups
        <5>1. at \in 1 .. Len(calls)
          BY <3>1, ItemsMove
        <5> QED BY <3>1, <5>1, CallShape DEF Call
      <4>4. group' = Call.group /\ stream' = Append(<<>>, [header |-> Call.group])
        BY <2>2, <3>3, <4>1 DEF GroupCall, Header
      <4>5. stream' = <<[header |-> Call.group]>>
        BY <4>4
      <4>6. stream' # <<>> /\ Headers' = {1} /\ stream'[1].header = Call.group /\ Len(stream') = 1
        BY <4>3, <4>5, OneHeader
      <4>7. group' # NoGroup
        BY <1>0, <4>3, <4>4
      <4>8. ItemsTo(at - 1)' = {} /\ Cardinality(ItemsTo(at - 1)') = 0
        BY <1>10, <3>2, <4>2, FS_EmptySet
      <4>9. PrintedTo(at - 1)'
        BY <4>6, <4>7, <4>8 DEF PrintedTo
      <4> QED BY <3>1, <3>3, <4>4, <4>6, <4>7, <4>9
    <3>4. CASE op = "print" /\ group # NoGroup
      <4>1. UNCHANGED <<stream, group, data>>
        BY <2>2, <3>1, <3>4 DEF GroupCall
      <4>2. PrintedTo(at)
        BY <3>2, <3>4 DEF PrintedTo
      <4>3. PrintedTo(at - 1)'
        BY <1>0, <1>3, <1>10, <3>2, <4>1, <4>2 DEF PrintedTo, LineOf
      <4> QED BY <1>2, <3>1, <3>4, <4>1, <4>3
    <3>5. CASE op # "print"
      BY <1>5, <2>2, <3>1, <3>5 DEF GroupCall, Header
    <3> QED BY <3>3, <3>4, <3>5
  <2>3. CASE NoGroupName \/ CannotRead
    BY <1>6, <2>3 DEF NoGroupName, CannotRead, Throw, Leave, archive
  <2>4. CASE LoadItem
    <3>1. CASE Throw
      BY <1>6, <3>1 DEF Throw, Leave
    <3>2. CASE ~Throw
      BY <1>5, <2>4, <3>2 DEF LoadItem, ResultInv
    <3> QED BY <3>1, <3>2
  <2>5. CASE SaveItem \/ InitializeItem
    BY <1>5, <2>5 DEF SaveItem, InitializeItem, ResultInv
  <2>6. CASE PrintItem
    <3> DEFINE line == LineOf(at)
               count == Cardinality(ItemsTo(at - 1))
    <3>1. /\ op = "print" /\ op' = "print" /\ group' = group /\ group # NoGroup /\ result' = "none"
          /\ data' = data /\ at' = at + 1 /\ Serializing /\ "item" \in DOMAIN Call
      BY <2>6 DEF PrintItem, AtItem, ResultInv
    <3>2. stream' = Append(stream, line) /\ line \in Lines /\ "header" \notin DOMAIN line
      <4>1. data[Call.item] \in Values /\ Call.item \in Items
        BY <2>6, ItemCall DEF PrintItem, TypeOK
      <4>2. DOMAIN line = {"item", "shows"}
        BY DEF LineOf
      <4> QED BY <2>6, <4>1, <4>2 DEF PrintItem, LineOf, Call, Lines
    <3> HIDE DEF line
    <3>3. stream # <<>> /\ Len(stream) = count + 1
      BY <3>1 DEF PrintedTo
    <3>4. /\ stream' # <<>> /\ Headers' = Headers /\ stream'[1] = stream[1]
          /\ Len(stream') = Len(stream) + 1
          /\ \A k \in 1 .. Len(stream) : stream'[k] = stream[k]
          /\ stream'[Len(stream) + 1] = line
      BY <3>2, <3>3, LinePrinted
    <3>5. /\ ItemsTo(at) = ItemsTo(at - 1) \cup {at} /\ Cardinality(ItemsTo(at)) = count + 1
          /\ at' - 1 = at /\ at - 1 \in 0 .. Len(calls)
      BY <1>0, <3>1, ItemsMove
    <3>8. count \in Nat
      BY <3>5, ItemsCount
    <3>6. ASSUME NEW c \in ItemsTo(at) PROVE stream'[1 + Cardinality(ItemsTo(c))] = LineOf(c)
      <4>1. CASE c = at
        <5>0. Cardinality(ItemsTo(c)) = count + 1
          BY <3>5, <4>1, Zenon
        <5>1. 1 + Cardinality(ItemsTo(c)) = Len(stream) + 1
          <6> HIDE DEF count
          <6> QED BY <3>3, <3>8, <5>0
        <5> QED BY <3>4, <4>1, <5>1 DEF line
      <4>2. CASE c # at
        <5>1. c \in ItemsTo(at - 1)
          BY <3>5, <4>2
        <5>2. 1 + Cardinality(ItemsTo(c)) \in 1 .. Len(stream)
          BY <3>3, <3>5, <5>1, ItemsCount
        <5>3. stream[1 + Cardinality(ItemsTo(c))] = LineOf(c)
          BY <3>1, <5>1 DEF PrintedTo
        <5> QED BY <3>4, <5>2, <5>3
      <4> QED BY <4>1, <4>2
    <3>7. PrintedTo(at - 1)'
      <4>1. ItemsTo(at - 1)' = ItemsTo(at)
        BY <1>10, <3>5
      <4>2. Len(stream') = Cardinality(ItemsTo(at)) + 1
        BY <3>3, <3>4, <3>5, <3>8
      <4>3. \A c : LineOf(c)' = LineOf(c)
        BY <1>0, <3>1 DEF LineOf
      <4> QED BY <1>3, <3>1, <3>6, <4>1, <4>2, <4>3 DEF PrintedTo
    <3> QED BY <3>1, <3>3, <3>4, <3>7
  <2>7. CASE Serialized
    <3>1. /\ UNCHANGED <<stream, group, data>> /\ op \notin {"idle", "open", "write"}
          /\ op' = (IF op = "save" THEN "open" ELSE "idle") /\ result = "none"
          /\ at - 1 = Len(calls)
      <4>0. at > Len(calls)
        BY Zenon, <2>7 DEF Serialized
      <4>1. at - 1 = Len(calls)
        BY <1>0, <4>0
      <4>2. op \in {"load", "save", "initialize", "print"} /\ data' = data
        BY <2>7 DEF Serialized
      <4>3. UNCHANGED <<stream, group>> /\ op' = (IF op = "save" THEN "open" ELSE "idle")
        BY <2>7 DEF Serialized, Leave, archive
      <4> QED BY <4>1, <4>2, <4>3 DEF ResultInv
    <3>3. result' = "printed" => op = "print"
      BY <2>7, <3>1 DEF Serialized
    <3>2. op = "print" => PrintedTo(Len(calls))'
      BY <1>0, <1>4, <3>1 DEF PrintedTo
    <3> QED BY <1>2, <3>1, <3>2, <3>3
  <2>8. CASE OpenFile \/ WriteIni
    BY <1>5, <2>8 DEF OpenFile, WriteIni, Leave, archive, ResultInv
  <2>9. CASE Assign
    BY <1>6, <2>9 DEF Assign, archive
  <2>10. CASE Edit
    BY <1>7, <2>10 DEF Edit, archive
  <2>11. CASE Crash
    BY <1>5, <2>11 DEF Crash
  <2> QED BY <1>9, <2>1, <2>2, <2>3, <2>4, <2>5, <2>6, <2>7, <2>8, <2>9, <2>10, <2>11, Begun
<1> QED BY <1>8, <1>9

-----------------------------------------------------------------------------
(* The invariant. *)

LEMMA InitOK == Init => IInv
<1> SUFFICES ASSUME Init PROVE IInv
  OBVIOUS
<1> USE DEF Init
<1>1. TypeOK
  <2>1. <<>> \in Seq([header : Groups] \cup [item : Items, shows : Values \cup {Stars}])
    BY EmptySeq
  <2>2. at \in 1 .. Len(calls) + 1
    <3> DEFINE AnyCall == [group : Groups] \cup [item : Items, default : Values \cup {Nothing}, hide : BOOLEAN]
    <3>1. calls \in Seq(AnyCall)
      BY IniAssumption
    <3>2. Len(calls) \in Nat
      <4> HIDE DEF AnyCall
      <4> QED BY <3>1, LenProperties
    <3> QED BY <3>2
  <2>3. data \in [Items -> Values] /\ edits \in 0 .. MaxEdits
    BY IniAssumption
  <2> QED BY <2>1, <2>2, <2>3, EntriesTyped DEF TypeOK
<1>2. PrintInv
  BY DEF PrintInv
<1> QED BY <1>1, <1>2 DEF IInv, ResultInv, NameInv, TornInv, SaveInv, FileInv, LoadInv

LEMMA Inductive == IInv /\ [Next]_vars => IInv'
BY TypeStep, ResultStep, NameStep, TornStep, SaveStep, FileStep, LoadStep, PrintStep DEF IInv

LEMMA Invariance == Spec => []IInv
BY InitOK, Inductive, PTL DEF Spec

LEMMA OwnKeys ==
  ASSUME NEW g
  PROVE  /\ \A k \in Keys : k \in Own(g) <=> k[1] = g /\ k[2] \in ItemNames
         /\ \A k \in Keys : k = <<k[1], k[2]>> /\ k[1] \in Groups /\ k[2] \in Items
         /\ Own(g) \subseteq Keys
BY DEF Own, ItemNames, IsItem, Keys

-----------------------------------------------------------------------------
(* The theorems. *)

\* Every variable has its type: whatever is loaded, saved, edited or torn, the
\* structures hold values of their types, and the file and the tree entries.
THEOREM TypeCorrect == Spec => []TypeOK
<1>1. IInv => TypeOK
  BY DEF IInv
<1> QED BY <1>1, Invariance, PTL

\* A structure comes back from the file it was saved to, but for white space,
\* whatever serialize calls and however the operations before ended
\* (ini.h:274, 303).
THEOREM ComesBack == Spec => []RoundTrip
<1>1. ASSUME IInv PROVE RoundTrip
  <2> SUFFICES ASSUME result \in {"found", "not found"}, saved # Nothing, saved.group = group,
                      NEW k \in Own(group)
               PROVE  data[k[2]] = Trim[saved.data[k[2]]]
    BY DEF RoundTrip
  <2>1. group \in Groups /\ k[2] \in ItemNames
    BY OwnKeys
  <2> QED BY <1>1, <2>1 DEF IInv, LoadInv
<1> QED BY <1>1, Invariance, PTL

\* The tree that is written has the entries of others as they were read.
THEOREM KeepsForeign == Spec => []ForeignKept
<1>1. ASSUME IInv PROVE ForeignKept
  <2> SUFFICES ASSUME op \in {"open", "write"}, NEW k \in Keys \ Own(group)
               PROVE  tree[k] = asRead[k]
    BY DEF ForeignKept
  <2>1. PICK g \in Groups, n \in Items : k = <<g, n>> /\ ~(g = group /\ n \in ItemNames)
    BY OwnKeys
  <2> QED BY <1>1, <2>1 DEF IInv, SaveInv
<1> QED BY <1>1, Invariance, PTL

\* A save that was cut short brings nothing of the older file back, and if
\* nothing of the structure was written it is not taken for a configuration
\* (plugin.cpp:92, ini.h:285, 315).
THEOREM TornSafety == Spec => []TornIsNew
<1>1. ASSUME IInv PROVE TornIsNew
  <2> SUFFICES ASSUME torn # Nothing, torn.group = group, result \in {"found", "not found"}
               PROVE  /\ \A k \in Own(group) :
                           \/ k = torn.cut
                           \/ data[k[2]] = Trim[torn.data[k[2]]]
                           \/ \E c \in DOMAIN calls : /\ "item" \in DOMAIN calls[c]
                                                     /\ calls[c].item = k[2]
                                                     /\ calls[c].default = data[k[2]]
                      /\ result = "found" => \E k \in Own(group) : file[k] # Nothing
    BY DEF TornIsNew
  <2>1. DOMAIN calls = 1 .. Len(calls)
    <3>1. calls \in Seq([group : Groups] \cup [item : Items, default : Values \cup {Nothing}, hide : BOOLEAN])
      BY <1>1, IniAssumption DEF IInv, TypeOK
    <3> QED BY <3>1, LenProperties
  <2>2. ASSUME NEW k \in Own(group)
        PROVE  \/ k = torn.cut
               \/ data[k[2]] = Trim[torn.data[k[2]]]
               \/ \E c \in DOMAIN calls : /\ "item" \in DOMAIN calls[c]
                                         /\ calls[c].item = k[2]
                                         /\ calls[c].default = data[k[2]]
    <3>1. k = <<group, k[2]>> /\ k[2] \in ItemNames /\ group \in Groups
      BY OwnKeys
    <3>2. Loaded(k[2])
      BY <1>1, <3>1 DEF IInv, TornInv
    <3> QED BY <2>1, <3>1, <3>2 DEF Loaded, IsItem
  <2>3. ASSUME result = "found" PROVE \E k \in Own(group) : file[k] # Nothing
    <3>1. group \in Groups
      BY <1>1, <2>3 DEF IInv, NameInv
    <3>2. PICK n \in ItemNames : file[<<group, n>>] # Nothing
      BY <1>1, <2>3, <3>1 DEF IInv, TornInv
    <3>3. <<group, n>> \in Keys /\ <<group, n>>[1] = group /\ <<group, n>>[2] = n
      BY <3>1 DEF Keys, ItemNames
    <3>4. <<group, n>> \in Own(group)
      BY <3>2, <3>3, OwnKeys
    <3> QED BY <3>2, <3>4
  <2> QED BY <2>2, <2>3
<1> QED BY <1>1, Invariance, PTL

\* What is printed is the structure: its header, and every item once, in the
\* order of serialize, with its value or stars (ini.h:229, 241).
THEOREM PrintsIt == Spec => []PrintsTheStructure
<1>1. ASSUME IInv PROVE PrintsTheStructure
  <2> DEFINE items   == {c \in DOMAIN calls : "item" \in DOMAIN calls[c]}
             Upto(c) == {d \in items : d <= c}
  <2>1. Len(calls) \in Nat /\ DOMAIN calls = 1 .. Len(calls)
    <3>1. calls \in Seq([group : Groups] \cup [item : Items, default : Values \cup {Nothing}, hide : BOOLEAN])
      BY <1>1, IniAssumption DEF IInv, TypeOK
    <3> QED BY <1>1, <3>1, CallsAreASeq, LenProperties DEF IInv
  <2>2. items = ItemsTo(Len(calls))
    BY <2>1 DEF ItemsTo, IsItem
  <2>3. ASSUME NEW c \in items PROVE Upto(c) = ItemsTo(c)
    BY <2>1 DEF ItemsTo, IsItem
  <2>4. stream # <<>> => Headers = {1} /\ stream[1].header = group
    BY <1>1 DEF IInv, PrintInv
  <2>5. ASSUME result = "printed"
        PROVE  /\ Len(stream) = Cardinality(items) + IF group = NoGroup THEN 0 ELSE 1
               /\ \A c \in items : stream[1 + Cardinality(Upto(c))] = LineOf(c)
    <3>1. PrintedTo(Len(calls))
      BY <1>1, <2>5 DEF IInv, PrintInv
    <3> HIDE DEF items, Upto
    <3> QED BY <2>2, <2>3, <3>1 DEF PrintedTo
  <2> QED BY <2>4, <2>5 DEF PrintsTheStructure, Headers, LineOf
<1> QED BY <1>1, Invariance, PTL

=============================================================================
