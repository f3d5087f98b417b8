--------------------------- MODULE SymbolFeedProofs ---------------------------
(***************************************************************************)
(* Proofs about the feed of symbols: whatever overlaps, every pair of a    *)
(* group and a symbol is published as both are now, or the failure of that *)
(* publish is logged.                                                      *)
(*                                                                         *)
(* The invariant says of every pair that waits to be published who will do *)
(* it: a task in the queue, one that has the pair before it, or one that   *)
(* has read it.                                                            *)
(***************************************************************************)
EXTENDS SymbolFeed, FiniteSetTheorems, Lemmas

\* A table has each name once.
NamesDiffer(table) ==
  \A j, k \in DOMAIN table : table[j].name = table[k].name => j = k

\* A thread without a task has no row in hand, and rows are counted from 1.
IdleInv == \A w \in Workers : row[w] >= 1 /\ (running[w] = Idle => read[w] = None)

Shown(g, s) == g.sec[s.type].show

InTheQueue(g, s) == [symbol |-> s] \in queued \/ [group |-> g] \in queued

\* The thread has read the pair, or its task comes to it: the task of the symbol
\* when it comes to the row of the group; that of the group at a margin with the
\* name of the symbol, or, if there is none, at the row of the symbol.
HasRead(w, g, s) == read[w] = [g |-> g, s |-> s, special |-> HasMargin(g, s)]

AtGroup(w, g, s) ==
  /\ running[w] = [symbol |-> s]
  /\ \E i \in DOMAIN groups : groups[i] = g /\ i >= row[w]

AtMargin(w, g, s) ==
  /\ running[w] = [group |-> g] /\ loop[w] = "margins"
  /\ HasMargin(g, s) => \E i \in DOMAIN g.margins : g.margins[i] = s.name /\ i >= row[w]

AtSymbol(w, g, s) ==
  /\ running[w] = [group |-> g] /\ loop[w] = "rows" /\ ~HasMargin(g, s)
  /\ \E i \in DOMAIN symbols : symbols[i] = s /\ i >= row[w]

Ahead(w, g, s) == HasRead(w, g, s) \/ AtGroup(w, g, s) \/ AtMargin(w, g, s) \/ AtSymbol(w, g, s)

Done(g, s) == AsItIs(g, s) \in told \cup failed

Settled(g, s) ==
  Done(g, s) \/ InTheQueue(g, s) \/ \E w \in Workers : Ahead(w, g, s)

PairsInv ==
  ~poolPaused => \A g \in ToSet(groups), s \in ToSet(symbols) : Shown(g, s) => Settled(g, s)

-----------------------------------------------------------------------------
(* The tables. *)

\* What becomes of a table: the entry is in it, the others are where they were.
LEMMA PutProperties ==
  ASSUME NEW S, NEW table \in Seq(S), NEW entry \in S, NamesDiffer(table)
  PROVE  /\ Put(table, entry) \in Seq(S) /\ NamesDiffer(Put(table, entry))
         /\ \A e \in ToSet(Put(table, entry)) : e = entry \/ (e \in ToSet(table) /\ e.name # entry.name)
         /\ \A i \in DOMAIN table : table[i].name # entry.name =>
              i \in DOMAIN Put(table, entry) /\ Put(table, entry)[i] = table[i]
<1>0. Len(table) \in Nat /\ DOMAIN table = 1 .. Len(table) /\ \A i \in DOMAIN table : table[i] \in S
  BY LenProperties, ElementOfSeq
<1>1. CASE \E k \in DOMAIN table : table[k].name = entry.name
  <2> DEFINE new == [k \in DOMAIN table |-> IF table[k].name = entry.name THEN entry ELSE table[k]]
  <2>1. Put(table, entry) = new
    BY <1>1 DEF Put
  <2>2. /\ DOMAIN new = DOMAIN table
        /\ \A k \in DOMAIN table : new[k] = IF table[k].name = entry.name THEN entry ELSE table[k]
    OBVIOUS
  <2>3. new \in [1 .. Len(table) -> S]
    BY <1>0, <2>2
  <2>4. new \in Seq(S)
    BY <1>0, <2>3
  <2> HIDE DEF new
  <2>5. NamesDiffer(new)
    BY <2>2 DEF NamesDiffer
  <2>6. \A e \in ToSet(new) : e = entry \/ (e \in ToSet(table) /\ e.name # entry.name)
    BY <2>2 DEF ToSet
  <2> QED BY <2>1, <2>2, <2>4, <2>5, <2>6
<1>2. CASE \A k \in DOMAIN table : table[k].name # entry.name
  <2> DEFINE new == Append(table, entry)
  <2>1. Put(table, entry) = new
    BY <1>2 DEF Put
  <2>2. /\ new \in Seq(S) /\ Len(new) = Len(table) + 1
        /\ \A k \in 1 .. Len(table) : new[k] = table[k]
        /\ new[Len(table) + 1] = entry
    BY AppendProperties
  <2>3. DOMAIN new = 1 .. Len(table) + 1
    BY <2>2, LenProperties
  <2> HIDE DEF new
  <2>4. \A k \in DOMAIN new :
          (k \in DOMAIN table /\ new[k] = table[k]) \/ (k = Len(table) + 1 /\ new[k] = entry)
    BY <1>0, <2>2, <2>3
  <2>5. \A k \in DOMAIN table : k \in DOMAIN new /\ new[k] = table[k]
    BY <1>0, <2>2, <2>3
  <2>6. NamesDiffer(new)
    BY <1>2, <2>4 DEF NamesDiffer
  <2>7. \A e \in ToSet(new) : e = entry \/ (e \in ToSet(table) /\ e.name # entry.name)
    BY <1>2, <2>4 DEF ToSet
  <2> QED BY <2>1, <2>2, <2>5, <2>6, <2>7
<1> QED BY <1>1, <1>2

\* A table has at most as many entries as there are names.
LEMMA TableIsShort ==
  ASSUME NEW S, IsFiniteSet(S), NEW table \in Seq(S), NamesDiffer(table)
  PROVE  Len(table) <= Cardinality({e.name : e \in S})
<1> DEFINE Names == {e.name : e \in S}
           nameOf == [e \in S |-> e.name]
           nameAt == [k \in 1 .. Len(table) |-> table[k].name]
<1>0. Len(table) \in Nat /\ DOMAIN table = 1 .. Len(table) /\ \A i \in 1 .. Len(table) : table[i] \in S
  BY LenProperties, ElementOfSeq
<1>1. nameOf \in Surjection(S, Names)
  BY DEF Surjection
<1>2. IsFiniteSet(Names)
  <2> HIDE DEF Names, nameOf
  <2> QED BY <1>1, FS_Surjection
<1>3. nameAt \in Injection(1 .. Len(table), Names)
  BY <1>0 DEF NamesDiffer, Injection, IsInjective
<1>4. Cardinality(1 .. Len(table)) <= Cardinality(Names)
  <2> HIDE DEF Names, nameAt
  <2> QED BY <1>2, <1>3, FS_Injection
<1>5. Cardinality(1 .. Len(table)) = Len(table)
  <2>1. PICK n \in Nat : n = Len(table)
    BY <1>0
  <2>2. 1 \in Int /\ n \in Int
    OBVIOUS
  <2>3. Cardinality(1 .. n) = IF 1 > n THEN 0 ELSE n - 1 + 1
    BY <2>2, FS_Interval
  <2>4. Cardinality(1 .. n) = n
    BY <2>3
  <2> QED BY <2>1, <2>4
<1> QED BY <1>4, <1>5

LEMMA TablesTyped ==
  ASSUME NEW table
  PROVE  /\ table \in Seq(SymbolCopies) /\ NamesDiffer(table) => Len(table) <= Cardinality(SymbolNames)
         /\ table \in Seq(GroupCopies) /\ NamesDiffer(table) => Len(table) <= Cardinality(GroupNames)
BY FeedAssumption, TableIsShort DEF SymbolNames, GroupNames

-----------------------------------------------------------------------------
(* The types. *)

LEMMA TasksAre ==
  /\ Tasks = [symbol : SymbolCopies] \cup [group : GroupCopies]
  /\ \A s \in SymbolCopies : [symbol |-> s] \in Tasks /\ ~OfGroup([symbol |-> s]) /\ [symbol |-> s] # Idle
  /\ \A g \in GroupCopies : [group |-> g] \in Tasks /\ OfGroup([group |-> g]) /\ [group |-> g] # Idle
  /\ \A t \in Tasks :
       (\E s \in SymbolCopies : t = [symbol |-> s] /\ t.symbol = s /\ ~OfGroup(t))
         \/ (\E g \in GroupCopies : t = [group |-> g] /\ t.group = g /\ OfGroup(t))
<1>1. Tasks = [symbol : SymbolCopies] \cup [group : GroupCopies] /\ Idle \notin Tasks
  BY FeedAssumption, PoolAssumption
<1>2. \A s \in SymbolCopies : [symbol |-> s] \in [symbol : SymbolCopies] /\ [symbol |-> s].symbol = s
  OBVIOUS
<1>3. \A g \in GroupCopies : [group |-> g] \in [group : GroupCopies] /\ [group |-> g].group = g
  OBVIOUS
<1>4. \A t \in [symbol : SymbolCopies] : t \notin [group : GroupCopies] /\ \E s \in SymbolCopies : t = [symbol |-> s]
  <2>1. \A t \in [symbol : SymbolCopies] : DOMAIN t = {"symbol"} /\ t.symbol \in SymbolCopies /\ t = [symbol |-> t.symbol]
    OBVIOUS
  <2>2. \A t \in [group : GroupCopies] : DOMAIN t = {"group"}
    OBVIOUS
  <2>3. {"symbol"} # {"group"}
    OBVIOUS
  <2> QED BY <2>1, <2>2, <2>3
<1>5. \A t \in [group : GroupCopies] : \E g \in GroupCopies : t = [group |-> g]
  <2>1. \A t \in [group : GroupCopies] : t.group \in GroupCopies /\ t = [group |-> t.group]
    OBVIOUS
  <2> QED BY <2>1
<1>6. \A s \in SymbolCopies : [symbol |-> s] \in Tasks /\ ~OfGroup([symbol |-> s]) /\ [symbol |-> s] # Idle
  BY <1>1, <1>2, <1>4 DEF OfGroup
<1>7. \A g \in GroupCopies : [group |-> g] \in Tasks /\ OfGroup([group |-> g]) /\ [group |-> g] # Idle
  BY <1>1, <1>3 DEF OfGroup
<1>8. ASSUME NEW t \in [symbol : SymbolCopies]
      PROVE  \E s \in SymbolCopies : t = [symbol |-> s] /\ t.symbol = s /\ ~OfGroup(t)
  BY <1>2, <1>4 DEF OfGroup
<1>9. ASSUME NEW t \in [group : GroupCopies]
      PROVE  \E g \in GroupCopies : t = [group |-> g] /\ t.group = g /\ OfGroup(t)
  BY <1>3, <1>5 DEF OfGroup
<1> QED BY <1>1, <1>6, <1>7, <1>8, <1>9

TablesInv ==
  /\ symbols \in Seq(SymbolCopies) /\ Len(symbols) <= Cardinality(SymbolNames) /\ NamesDiffer(symbols)
  /\ groups \in Seq(GroupCopies) /\ Len(groups) <= Cardinality(GroupNames) /\ NamesDiffer(groups)

SweepsTyped ==
  /\ loop \in [Workers -> {"margins", "rows"}]
  /\ row \in [Workers -> Nat]
  /\ read \in [Workers -> Pairs \cup {None}]

FeedTyped ==
  /\ told \subseteq Records /\ failed \subseteq Records
  /\ latest \in [GroupNames \X SymbolNames -> Records \cup {None}]

StateInv == TypeOK /\ NamesDiffer(symbols) /\ NamesDiffer(groups) /\ IdleInv

LEMMA StateParts ==
  /\ StateInv <=> /\ PoolTypeOK /\ TablesInv /\ changes \in 0 .. MaxChanges
                  /\ SweepsTyped /\ FeedTyped /\ IdleInv
  /\ StateInv' <=> /\ PoolTypeOK' /\ TablesInv' /\ changes' \in 0 .. MaxChanges
                   /\ SweepsTyped' /\ FeedTyped' /\ IdleInv'
BY DEF StateInv, TypeOK, TablesInv, SweepsTyped, FeedTyped

LEMMA TableEntries ==
  ASSUME StateInv
  PROVE  /\ DOMAIN symbols = 1 .. Len(symbols) /\ Len(symbols) \in Nat
         /\ DOMAIN groups = 1 .. Len(groups) /\ Len(groups) \in Nat
         /\ \A i \in DOMAIN symbols : symbols[i] \in SymbolCopies /\ symbols[i] \in ToSet(symbols)
         /\ \A i \in DOMAIN groups : groups[i] \in GroupCopies /\ groups[i] \in ToSet(groups)
         /\ ToSet(symbols) \subseteq SymbolCopies /\ ToSet(groups) \subseteq GroupCopies
         /\ \A s \in ToSet(symbols) : \E i \in DOMAIN symbols : symbols[i] = s
         /\ \A g \in ToSet(groups) : \E i \in DOMAIN groups : groups[i] = g
         /\ \A s, t \in ToSet(symbols) : s.name = t.name => s = t
<1>1. symbols \in Seq(SymbolCopies) /\ groups \in Seq(GroupCopies) /\ NamesDiffer(symbols)
  BY DEF StateInv, TypeOK
<1>2. /\ DOMAIN symbols = 1 .. Len(symbols) /\ Len(symbols) \in Nat
      /\ DOMAIN groups = 1 .. Len(groups) /\ Len(groups) \in Nat
      /\ \A i \in DOMAIN symbols : symbols[i] \in SymbolCopies
      /\ \A i \in DOMAIN groups : groups[i] \in GroupCopies
  BY <1>1, LenProperties, ElementOfSeq
<1>3. /\ ToSet(symbols) = {symbols[i] : i \in DOMAIN symbols}
      /\ ToSet(groups) = {groups[i] : i \in DOMAIN groups}
  BY DEF ToSet
<1>4. \A s, t \in ToSet(symbols) : s.name = t.name => s = t
  BY <1>1, <1>3 DEF NamesDiffer
<1> QED BY <1>2, <1>3, <1>4

LEMMA MarginsAre ==
  ASSUME NEW g \in GroupCopies
  PROVE  DOMAIN g.margins = 1 .. Len(g.margins) /\ Len(g.margins) \in Nat
BY CopiesAssumption, LenProperties

\* What a loop body works on.
LEMMA PairOfRow ==
  ASSUME StateInv, NEW w \in Workers, AtRow(w), row[w] <= RowCount(w)
  PROVE  /\ \A s \in SymbolCopies : running[w] = [symbol |-> s] =>
              /\ row[w] \in DOMAIN groups
              /\ PairAt(w) = [g |-> groups[row[w]], s |-> s, special |-> HasMargin(groups[row[w]], s)]
         /\ \A g \in GroupCopies : running[w] = [group |-> g] /\ loop[w] = "rows" =>
              /\ row[w] \in DOMAIN symbols
              /\ PairAt(w) = [g |-> g, s |-> symbols[row[w]], special |-> FALSE]
         /\ \A g \in GroupCopies : running[w] = [group |-> g] /\ loop[w] = "margins" =>
              /\ row[w] \in DOMAIN g.margins
              /\ PairAt(w) = None => \A s \in ToSet(symbols) : s.name # g.margins[row[w]]
              /\ PairAt(w) # None =>
                   \E s \in ToSet(symbols) :
                     s.name = g.margins[row[w]] /\ PairAt(w) = [g |-> g, s |-> s, special |-> TRUE]
         /\ PairAt(w) \in Pairs \cup {None}
<1>0. row[w] \in Nat /\ row[w] >= 1 /\ running[w] \in Tasks
      /\ loop[w] \in {"margins", "rows"}
  BY DEF StateInv, TypeOK, IdleInv, PoolTypeOK, AtRow
<1>1. ASSUME NEW s \in SymbolCopies, running[w] = [symbol |-> s]
      PROVE  /\ row[w] \in DOMAIN groups
             /\ PairAt(w) = [g |-> groups[row[w]], s |-> s, special |-> HasMargin(groups[row[w]], s)]
             /\ PairAt(w) \in Pairs
  <2>1. ~OfGroup(running[w]) /\ running[w].symbol = s
    BY <1>1, TasksAre
  <2>2. row[w] \in DOMAIN groups
    BY <1>0, <2>1, TableEntries DEF RowCount
  <2>3. PairAt(w) = [g |-> groups[row[w]], s |-> s, special |-> HasMargin(groups[row[w]], s)]
    BY <2>1 DEF PairAt
  <2>4. groups[row[w]] \in GroupCopies /\ HasMargin(groups[row[w]], s) \in BOOLEAN
    BY <2>2, TableEntries DEF HasMargin
  <2> QED BY <2>2, <2>3, <2>4 DEF Pairs
<1>2. ASSUME NEW g \in GroupCopies, running[w] = [group |-> g], loop[w] = "rows"
      PROVE  /\ row[w] \in DOMAIN symbols
             /\ PairAt(w) = [g |-> g, s |-> symbols[row[w]], special |-> FALSE]
             /\ PairAt(w) \in Pairs
  <2>1. OfGroup(running[w]) /\ running[w].group = g
    BY <1>2, TasksAre
  <2>2. row[w] \in DOMAIN symbols
    BY <1>0, <1>2, <2>1, TableEntries DEF RowCount
  <2>3. PairAt(w) = [g |-> g, s |-> symbols[row[w]], special |-> FALSE]
    BY <1>2, <2>1 DEF PairAt
  <2>4. symbols[row[w]] \in SymbolCopies
    BY <2>2, TableEntries
  <2> QED BY <2>2, <2>3, <2>4 DEF Pairs
<1>3. ASSUME NEW g \in GroupCopies, running[w] = [group |-> g], loop[w] = "margins"
      PROVE  /\ row[w] \in DOMAIN g.margins
             /\ PairAt(w) = None => \A s \in ToSet(symbols) : s.name # g.margins[row[w]]
             /\ PairAt(w) # None =>
                  \E s \in ToSet(symbols) :
                    s.name = g.margins[row[w]] /\ PairAt(w) = [g |-> g, s |-> s, special |-> TRUE]
             /\ PairAt(w) \in Pairs \cup {None}
  <2>1. OfGroup(running[w]) /\ running[w].group = g
    BY <1>3, TasksAre
  <2>2. row[w] \in DOMAIN g.margins
    BY <1>0, <1>3, <2>1, MarginsAre DEF RowCount
  <2> DEFINE known == {s \in ToSet(symbols) : s.name = g.margins[row[w]]}
  <2>3. PairAt(w) = IF known = {} THEN None
                    ELSE [g |-> g, s |-> CHOOSE s \in known : TRUE, special |-> TRUE]
    BY <1>3, <2>1 DEF PairAt
  <2>4. CASE known = {}
    <3>1. PairAt(w) = None
      BY <2>3, <2>4
    <3> QED BY <2>2, <2>4, <3>1
  <2>5. CASE known # {}
    <3>1. PICK s \in known : s = CHOOSE t \in known : TRUE
      BY <2>5
    <3>2. PairAt(w) = [g |-> g, s |-> s, special |-> TRUE]
      BY <2>3, <2>5, <3>1
    <3>3. s \in ToSet(symbols) /\ s.name = g.margins[row[w]] /\ s \in SymbolCopies
      BY <3>1, TableEntries
    <3>4. PairAt(w) \in Pairs
      BY <3>2, <3>3 DEF Pairs
    <3> QED BY <2>2, <3>2, <3>3, <3>4, PairAssumption
  <2> QED BY <2>4, <2>5
<1>4. PairAt(w) \in Pairs \cup {None}
  BY <1>0, <1>1, <1>2, <1>3, TasksAre
<1> QED BY <1>1, <1>2, <1>3, <1>4

LEMMA FeedConstants == MaxChanges \in Nat
BY FeedAssumption

LEMMA StateStep == StateInv /\ [Next]_vars => StateInv'
<1> SUFFICES ASSUME StateInv, [Next]_vars PROVE StateInv'
  OBVIOUS
<1>0. /\ PoolTypeOK /\ TablesInv /\ changes \in 0 .. MaxChanges
      /\ SweepsTyped /\ FeedTyped /\ IdleInv
  BY StateParts
<1>1. CASE \E s \in SymbolCopies : ChangeSymbol(s)
  <2>1. PICK s \in SymbolCopies : ChangeSymbol(s)
    BY <1>1
  <2>2. PoolTypeOK'
    BY <1>0, <2>1, TasksAre DEF ChangeSymbol, DetachTask, PoolTypeOK
  <2>3. symbols' \in Seq(SymbolCopies) /\ NamesDiffer(symbols')
    BY <1>0, <2>1, PutProperties DEF ChangeSymbol, TablesInv
  <2>4. TablesInv'
    BY <1>0, <2>1, <2>3, TablesTyped DEF ChangeSymbol, TablesInv
  <2>5. changes' \in 0 .. MaxChanges
    BY <1>0, <2>1, FeedConstants DEF ChangeSymbol
  <2>6. SweepsTyped' /\ FeedTyped' /\ IdleInv'
    BY <1>0, <2>1 DEF ChangeSymbol, DetachTask, sweeps, SweepsTyped, FeedTyped, IdleInv
  <2> QED BY <2>2, <2>4, <2>5, <2>6, StateParts
<1>2. CASE \E g \in GroupCopies : ChangeGroup(g)
  <2>1. PICK g \in GroupCopies : ChangeGroup(g)
    BY <1>2
  <2>2. PoolTypeOK'
    BY <1>0, <2>1, TasksAre DEF ChangeGroup, DetachTask, PoolTypeOK
  <2>3. groups' \in Seq(GroupCopies) /\ NamesDiffer(groups')
    BY <1>0, <2>1, PutProperties DEF ChangeGroup, TablesInv
  <2>4. TablesInv'
    BY <1>0, <2>1, <2>3, TablesTyped DEF ChangeGroup, TablesInv
  <2>5. changes' \in 0 .. MaxChanges
    BY <1>0, <2>1, FeedConstants DEF ChangeGroup
  <2>6. SweepsTyped' /\ FeedTyped' /\ IdleInv'
    BY <1>0, <2>1 DEF ChangeGroup, DetachTask, sweeps, SweepsTyped, FeedTyped, IdleInv
  <2> QED BY <2>2, <2>4, <2>5, <2>6, StateParts
<1>3. ASSUME NEW w \in Workers, FinishTask(w), read[w] = None, UNCHANGED <<server, sweeps, feed>>
      PROVE  StateInv'
  <2>1. PoolTypeOK' /\ IdleInv'
    BY <1>0, <1>3 DEF FinishTask, PoolTypeOK, IdleInv, sweeps, SweepsTyped
  <2>2. TablesInv' /\ changes' \in 0 .. MaxChanges /\ SweepsTyped' /\ FeedTyped'
    BY <1>0, <1>3 DEF server, sweeps, feed, TablesInv, SweepsTyped, FeedTyped
  <2> QED BY <2>1, <2>2, StateParts
<1>4. ASSUME NEW w \in Workers, Take(w) PROVE StateInv'
  <2>1. PICK t \in Tasks : /\ TakeTask(w, t)
                          /\ loop' = [loop EXCEPT ![w] = IF OfGroup(t) THEN "margins" ELSE "rows"]
    BY <1>4 DEF Take
  <2>2. PoolTypeOK'
    BY <1>0, <2>1 DEF TakeTask, PoolTypeOK
  <2>3. SweepsTyped' /\ IdleInv'
    BY <1>0, <1>4, <2>1, TasksAre DEF Take, TakeTask, SweepsTyped, IdleInv, PoolTypeOK
  <2>4. TablesInv' /\ changes' \in 0 .. MaxChanges /\ FeedTyped'
    BY <1>0, <1>4 DEF Take, server, feed, TablesInv, FeedTyped
  <2> QED BY <2>2, <2>3, <2>4, StateParts
<1>5. ASSUME NEW w \in Workers, ReadRow(w) PROVE StateInv'
  <2>1. PairAt(w) \in Pairs \cup {None}
    BY <1>5, PairOfRow DEF ReadRow
  <2>2. PoolTypeOK' /\ TablesInv' /\ changes' \in 0 .. MaxChanges /\ FeedTyped'
    BY <1>0, <1>5 DEF ReadRow, pool, server, feed, PoolTypeOK, TablesInv, FeedTyped
  <2>3. SweepsTyped'
    BY <1>0, <1>5, <2>1 DEF ReadRow, SweepsTyped
  <2>4. IdleInv'
    BY <1>0, <1>5 DEF ReadRow, AtRow, pool, SweepsTyped, IdleInv
  <2> QED BY <2>2, <2>3, <2>4, StateParts
<1>6. ASSUME NEW w \in Workers, PublishRow(w) PROVE StateInv'
  <2> DEFINE r == ToJson(GroupSymbol(read[w].g, read[w].s, read[w].special))
  <2>1. read[w] \in Pairs
    BY <1>0, <1>6 DEF PublishRow, SweepsTyped
  <2>2. /\ read[w].g \in GroupCopies /\ read[w].s \in SymbolCopies /\ read[w].special \in BOOLEAN
    BY <2>1 DEF Pairs
  <2>3. r \in Records /\ read[w].g.name \in GroupNames /\ read[w].s.name \in SymbolNames
    BY <2>2 DEF Records, GroupNames, SymbolNames
  <2>4. \/ UNCHANGED feed
        \/ /\ told' = told \cup {r} /\ failed' = failed
           /\ latest' = [latest EXCEPT ![<<read[w].g.name, read[w].s.name>>] = r]
        \/ failed' = failed \cup {r} /\ UNCHANGED <<told, latest>>
    BY <1>6 DEF PublishRow
  <2> HIDE DEF r
  <2>5. FeedTyped'
    BY <1>0, <2>3, <2>4 DEF FeedTyped, feed
  <2>6. PoolTypeOK' /\ TablesInv' /\ changes' \in 0 .. MaxChanges
    BY <1>0, <1>6 DEF PublishRow, pool, server, PoolTypeOK, TablesInv
  <2>7. SweepsTyped' /\ IdleInv'
    BY <1>0, <1>6 DEF PublishRow, pool, SweepsTyped, IdleInv
  <2> QED BY <2>5, <2>6, <2>7, StateParts
<1>7. ASSUME NEW w \in Workers, RowsRunOut(w) PROVE StateInv'
  <2>1. CASE loop[w] = "margins"
    <3>1. PoolTypeOK' /\ TablesInv' /\ changes' \in 0 .. MaxChanges /\ FeedTyped'
      BY <1>0, <1>7, <2>1 DEF RowsRunOut, pool, server, feed, PoolTypeOK, TablesInv, FeedTyped
    <3>2. SweepsTyped' /\ IdleInv'
      BY <1>0, <1>7, <2>1 DEF RowsRunOut, pool, SweepsTyped, IdleInv
    <3> QED BY <3>1, <3>2, StateParts
  <2>2. CASE loop[w] # "margins"
    BY <1>3, <1>7, <2>2 DEF RowsRunOut, AtRow, sweeps
  <2> QED BY <2>1, <2>2
<1>8. ASSUME NEW w \in Workers, StopTask(w) PROVE StateInv'
  BY <1>3, <1>8 DEF StopTask, AtRow
<1>9. CASE PausePool
  BY <1>0, <1>9, StateParts DEF PausePool, Pause, server, sweeps, feed, PoolTypeOK, TablesInv,
     SweepsTyped, FeedTyped, IdleInv
<1>10. CASE UNCHANGED vars
  BY <1>0, <1>10, StateParts DEF vars, pool, server, sweeps, feed, PoolTypeOK, TablesInv,
     SweepsTyped, FeedTyped, IdleInv
<1> QED BY <1>1, <1>2, <1>4, <1>5, <1>6, <1>7, <1>8, <1>9, <1>10 DEF Next, Work

-----------------------------------------------------------------------------
(* The pairs. *)

\* What the code publishes of a pair is what subscribers are to be told of it.
LEMMA AsPublished ==
  ASSUME NEW g \in GroupCopies, NEW s \in SymbolCopies
  PROVE  /\ ToJson(GroupSymbol(g, s, HasMargin(g, s))) = AsItIs(g, s)
         /\ AsItIs(g, s).symbol = s.name /\ AsItIs(g, s).account_group = g.name
<1>1. g.sec[s.type].trade \in BOOLEAN /\ s.longOnly \in BOOLEAN /\ s.trade \in {0, 1, 2}
  <2>1. s \in ConSymbol /\ g.sec[s.type] \in ConGroupSec
    BY CopiesAssumption
  <2> QED BY <2>1 DEF ConSymbol, ConGroupSec
<1> DEFINE mode == TradeMode(g, s)
           named == IF ~g.sec[s.type].trade THEN "no_trade"
                    ELSE IF s.longOnly THEN "long_only"
                    ELSE <<"no_trade", "close_only", "full">>[s.trade + 1]
<1>2. TradeNames[mode + 1] = named
  <2> DEFINE server3 == <<"no_trade", "close_only", "full">>
  <2>0. /\ TradeNames[1] = "no_trade" /\ TradeNames[2] = "close_only"
        /\ TradeNames[3] = "full" /\ TradeNames[4] = "long_only"
        /\ server3[1] = "no_trade" /\ server3[2] = "close_only" /\ server3[3] = "full"
    BY DEF TradeNames
  <2> HIDE DEF server3
  <2>1. CASE ~g.sec[s.type].trade
    <3>1. mode = 0
      BY <2>1 DEF TradeMode, TRADE_NO
    <3>2. named = "no_trade"
      BY <2>1
    <3> HIDE DEF mode, named
    <3> QED BY <2>0, <3>1, <3>2
  <2>2. CASE g.sec[s.type].trade /\ s.longOnly
    <3>1. mode = 3 /\ named = "long_only"
      BY <2>2 DEF TradeMode, TRADE_LONG_ONLY
    <3> HIDE DEF mode, named
    <3> QED BY <2>0, <3>1
  <2>3. CASE g.sec[s.type].trade /\ ~s.longOnly
    <3>1. mode = s.trade /\ named = server3[s.trade + 1]
      BY <2>3 DEF TradeMode, server3
    <3> HIDE DEF mode, named
    <3>2. TradeNames[s.trade + 1] = server3[s.trade + 1]
      <4>1. CASE s.trade = 0
        BY <2>0, <4>1
      <4>2. CASE s.trade = 1
        BY <2>0, <4>2
      <4>3. CASE s.trade = 2
        BY <2>0, <4>3
      <4> QED BY <1>1, <4>1, <4>2, <4>3
    <3> QED BY <3>1, <3>2
  <2> HIDE DEF mode, named
  <2> QED BY <1>1, <2>1, <2>2, <2>3
<1>3. ToJson(GroupSymbol(g, s, HasMargin(g, s))) =
        [ account_group |-> g.name, symbol |-> s.name, lots |-> g.sec[s.type].lots,
          trade |-> TradeNames[mode + 1], swap |-> IF HasMargin(g, s) THEN "margin" ELSE "symbol" ]
  BY DEF ToJson, GroupSymbol
<1>4. AsItIs(g, s) =
        [ account_group |-> g.name, symbol |-> s.name, lots |-> g.sec[s.type].lots,
          trade |-> named, swap |-> IF HasMargin(g, s) THEN "margin" ELSE "symbol" ]
  BY DEF AsItIs
<1> HIDE DEF mode, named
<1> QED BY <1>2, <1>3, <1>4

LEMMA NothingIsNoPair ==
  ASSUME NEW g \in GroupCopies, NEW s \in SymbolCopies
  PROVE  None # [g |-> g, s |-> s, special |-> HasMargin(g, s)]
<1>1. HasMargin(g, s) \in BOOLEAN
  BY DEF HasMargin
<1>2. \A special \in BOOLEAN : [g |-> g, s |-> s, special |-> special] \in Pairs
  BY DEF Pairs
<1> QED BY <1>1, <1>2, PairAssumption

LEMMA MarginNamed ==
  ASSUME NEW g, NEW s
  PROVE  HasMargin(g, s) <=> \E i \in DOMAIN g.margins : g.margins[i] = s.name
BY DEF HasMargin, ToSet

\* What a thread has before it stays there as long as the thread and the rows do.
LEMMA AheadStays ==
  ASSUME NEW w \in Workers, NEW g, NEW s, Ahead(w, g, s),
         running'[w] = running[w], loop'[w] = loop[w], row'[w] = row[w], read'[w] = read[w],
         \A i \in DOMAIN groups : groups[i] = g => i \in DOMAIN groups' /\ groups'[i] = g,
         \A i \in DOMAIN symbols : symbols[i] = s => i \in DOMAIN symbols' /\ symbols'[i] = s
  PROVE  Ahead(w, g, s)'
BY DEF Ahead, HasRead, AtGroup, AtMargin, AtSymbol

\* A change of a table leaves the pairs it does not concern as they are, and
\* queues a task for the others.
LEMMA ChangesKeepPairs ==
  ASSUME StateInv, PairsInv, ~poolPaused',
         \/ \E s \in SymbolCopies : ChangeSymbol(s)
         \/ \E g \in GroupCopies : ChangeGroup(g),
         NEW g \in ToSet(groups)', NEW s \in ToSet(symbols)', Shown(g, s)
  PROVE  Settled(g, s)'
<1>0. /\ symbols \in Seq(SymbolCopies) /\ NamesDiffer(symbols)
      /\ groups \in Seq(GroupCopies) /\ NamesDiffer(groups)
  BY DEF StateInv, TypeOK
<1>1. ASSUME NEW c \in SymbolCopies, ChangeSymbol(c) PROVE Settled(g, s)'
  <2>1. /\ groups' = groups /\ symbols' = Put(symbols, c)
        /\ told' = {r \in told : r.symbol # c.name} /\ failed' = {r \in failed : r.symbol # c.name}
        /\ queued' = queued \cup {[symbol |-> c]}
        /\ UNCHANGED <<loop, row, read, running>> /\ ~poolPaused
    BY <1>1 DEF ChangeSymbol, DetachTask, sweeps
  <2>2. CASE s = c
    BY <2>1, <2>2 DEF Settled, InTheQueue
  <2>3. CASE s # c
    <3>1. s \in ToSet(symbols) /\ s.name # c.name /\ g \in ToSet(groups)
      BY <1>0, <2>1, <2>3, PutProperties
    <3>2. Settled(g, s)
      BY <2>1, <3>1 DEF PairsInv
    <3>3. CASE Done(g, s)
      <4>1. AsItIs(g, s) \in told' \cup failed'
        BY <2>1, <3>1, <3>3, AsPublished, TableEntries DEF Done
      <4> QED BY <4>1 DEF Settled, Done
    <3>4. CASE InTheQueue(g, s)
      BY <2>1, <3>4 DEF Settled, InTheQueue
    <3>5. ASSUME NEW w \in Workers, Ahead(w, g, s) PROVE Ahead(w, g, s)'
      <4>0. \A i \in DOMAIN symbols : symbols[i].name # c.name =>
              i \in DOMAIN Put(symbols, c) /\ Put(symbols, c)[i] = symbols[i]
        BY <1>0, PutProperties
      <4>1. \A i \in DOMAIN symbols : symbols[i] = s => i \in DOMAIN symbols' /\ symbols'[i] = s
        BY <2>1, <3>1, <4>0
      <4> QED BY <2>1, <3>5, <4>1, AheadStays
    <3> QED BY <3>2, <3>3, <3>4, <3>5 DEF Settled
  <2> QED BY <2>2, <2>3
<1>2. ASSUME NEW c \in GroupCopies, ChangeGroup(c) PROVE Settled(g, s)'
  <2>1. /\ symbols' = symbols /\ groups' = Put(groups, c)
        /\ told' = {r \in told : r.account_group # c.name}
        /\ failed' = {r \in failed : r.account_group # c.name}
        /\ queued' = queued \cup {[group |-> c]}
        /\ UNCHANGED <<loop, row, read, running>> /\ ~poolPaused
    BY <1>2 DEF ChangeGroup, DetachTask, sweeps
  <2>2. CASE g = c
    BY <2>1, <2>2 DEF Settled, InTheQueue
  <2>3. CASE g # c
    <3>1. g \in ToSet(groups) /\ g.name # c.name /\ s \in ToSet(symbols)
      BY <1>0, <2>1, <2>3, PutProperties
    <3>2. Settled(g, s)
      BY <2>1, <3>1 DEF PairsInv
    <3>3. CASE Done(g, s)
      <4>1. AsItIs(g, s) \in told' \cup failed'
        BY <2>1, <3>1, <3>3, AsPublished, TableEntries DEF Done
      <4> QED BY <4>1 DEF Settled, Done
    <3>4. CASE InTheQueue(g, s)
      BY <2>1, <3>4 DEF Settled, InTheQueue
    <3>5. ASSUME NEW w \in Workers, Ahead(w, g, s) PROVE Ahead(w, g, s)'
      <4>0. \A i \in DOMAIN groups : groups[i].name # c.name =>
              i \in DOMAIN Put(groups, c) /\ Put(groups, c)[i] = groups[i]
        BY <1>0, PutProperties
      <4>1. \A i \in DOMAIN groups : groups[i] = g => i \in DOMAIN groups' /\ groups'[i] = g
        BY <2>1, <3>1, <4>0
      <4> QED BY <2>1, <3>5, <4>1, AheadStays
    <3> QED BY <3>2, <3>3, <3>4, <3>5 DEF Settled
  <2> QED BY <2>2, <2>3
<1> QED BY <1>1, <1>2

\* The thread that reads a row has the pair of the row in hand afterwards, and
\* the pairs of the rows behind it before it.
LEMMA ReadKeepsAhead ==
  ASSUME StateInv, NEW w \in Workers, ReadRow(w),
         NEW g \in ToSet(groups), NEW s \in ToSet(symbols), Ahead(w, g, s)
  PROVE  Ahead(w, g, s)'
<1>0. /\ read' = [read EXCEPT ![w] = PairAt(w)] /\ row' = [row EXCEPT ![w] = @ + 1]
      /\ UNCHANGED <<running, loop, symbols, groups>> /\ AtRow(w) /\ row[w] <= RowCount(w)
      /\ read \in [Workers -> Pairs \cup {None}] /\ row \in [Workers -> Nat]
  BY DEF ReadRow, pool, server, StateInv, TypeOK
<1>1. read'[w] = PairAt(w) /\ row'[w] = row[w] + 1 /\ row[w] \in Nat
  BY <1>0
<1>2. g \in GroupCopies /\ s \in SymbolCopies
  BY TableEntries
<1>3. ~HasRead(w, g, s)
  BY <1>0, <1>2, NothingIsNoPair DEF AtRow, HasRead
<1>4. CASE AtGroup(w, g, s)
  <2>1. PICK i \in DOMAIN groups : groups[i] = g /\ i >= row[w]
    BY <1>4 DEF AtGroup
  <2>2. i \in Nat /\ running[w] = [symbol |-> s]
    BY <1>4, TableEntries DEF AtGroup
  <2>3. CASE i = row[w]
    <3>1. PairAt(w) = [g |-> g, s |-> s, special |-> HasMargin(g, s)]
      BY <1>0, <1>2, <2>1, <2>2, <2>3, PairOfRow
    <3> QED BY <1>1, <3>1 DEF Ahead, HasRead
  <2>4. CASE i # row[w]
    <3>1. i >= row[w] + 1
      BY <1>1, <2>1, <2>2, <2>4
    <3> QED BY <1>0, <1>1, <2>1, <2>2, <3>1 DEF Ahead, AtGroup
  <2> QED BY <2>3, <2>4
<1>5. CASE AtMargin(w, g, s) /\ ~HasMargin(g, s)
  BY <1>0, <1>5 DEF AtMargin, Ahead
<1>6. CASE AtMargin(w, g, s) /\ HasMargin(g, s)
  <2>1. PICK i \in DOMAIN g.margins : g.margins[i] = s.name /\ i >= row[w]
    BY <1>6 DEF AtMargin
  <2>2. i \in Nat /\ running[w] = [group |-> g] /\ loop[w] = "margins"
    BY <1>2, <1>6, MarginsAre DEF AtMargin
  <2>3. CASE i = row[w]
    <3>1. PairAt(w) = [g |-> g, s |-> s, special |-> TRUE]
      BY <1>0, <1>2, <2>1, <2>2, <2>3, PairOfRow, TableEntries
    <3>2. HasMargin(g, s) = TRUE
      BY <1>6 DEF HasMargin
    <3>3. read'[w] = [g |-> g, s |-> s, special |-> HasMargin(g, s)]
      BY <1>1, <3>1, <3>2
    <3> QED BY <3>3 DEF Ahead, HasRead
  <2>4. CASE i # row[w]
    <3>1. i >= row[w] + 1
      BY <1>1, <2>1, <2>2, <2>4
    <3> QED BY <1>0, <1>1, <2>1, <2>2, <3>1 DEF Ahead, AtMargin
  <2> QED BY <2>3, <2>4
<1>7. CASE AtSymbol(w, g, s)
  <2>1. PICK i \in DOMAIN symbols : symbols[i] = s /\ i >= row[w]
    BY <1>7 DEF AtSymbol
  <2>2. i \in Nat /\ running[w] = [group |-> g] /\ loop[w] = "rows" /\ ~HasMargin(g, s)
    BY <1>7, TableEntries DEF AtSymbol
  <2>3. CASE i = row[w]
    <3>1. PairAt(w) = [g |-> g, s |-> s, special |-> FALSE]
      BY <1>0, <1>2, <2>1, <2>2, <2>3, PairOfRow
    <3>2. HasMargin(g, s) = FALSE
      BY <2>2 DEF HasMargin
    <3>3. read'[w] = [g |-> g, s |-> s, special |-> HasMargin(g, s)]
      BY <1>1, <3>1, <3>2
    <3> QED BY <3>3 DEF Ahead, HasRead
  <2>4. CASE i # row[w]
    <3>1. i >= row[w] + 1
      BY <1>1, <2>1, <2>2, <2>4
    <3> QED BY <1>0, <1>1, <2>1, <2>2, <3>1 DEF Ahead, AtSymbol
  <2> QED BY <2>3, <2>4
<1> QED BY <1>3, <1>4, <1>5, <1>6, <1>7 DEF Ahead

\* At the end of a loop no pair of it is left.
LEMMA RunOutKeepsAhead ==
  ASSUME StateInv, NEW w \in Workers, RowsRunOut(w),
         NEW g \in ToSet(groups), NEW s \in ToSet(symbols), Ahead(w, g, s)
  PROVE  Ahead(w, g, s)'
<1>0. /\ AtRow(w) /\ row[w] > RowCount(w) /\ row[w] \in Nat
      /\ UNCHANGED <<read, symbols, groups>>
      /\ row \in [Workers -> Nat] /\ loop \in [Workers -> {"margins", "rows"}]
  BY DEF RowsRunOut, server, StateInv, TypeOK
<1>1. g \in GroupCopies /\ s \in SymbolCopies
  BY TableEntries
<1>2. ~HasRead(w, g, s)
  BY <1>0, <1>1, NothingIsNoPair DEF AtRow, HasRead
<1>3. ~AtGroup(w, g, s)
  <2> SUFFICES ASSUME AtGroup(w, g, s) PROVE FALSE
    OBVIOUS
  <2>1. RowCount(w) = Len(groups)
    BY <1>1, TasksAre DEF AtGroup, RowCount
  <2> QED BY <1>0, <2>1, TableEntries DEF AtGroup
<1>4. ~AtSymbol(w, g, s)
  <2> SUFFICES ASSUME AtSymbol(w, g, s) PROVE FALSE
    OBVIOUS
  <2>1. RowCount(w) = Len(symbols)
    BY <1>1, TasksAre DEF AtSymbol, RowCount
  <2> QED BY <1>0, <2>1, TableEntries DEF AtSymbol
<1>5. AtMargin(w, g, s)
  BY <1>2, <1>3, <1>4 DEF Ahead
<1>6. ~HasMargin(g, s)
  <2> SUFFICES ASSUME HasMargin(g, s) PROVE FALSE
    OBVIOUS
  <2>1. RowCount(w) = Len(running[w].group.margins) /\ running[w].group = g
    BY <1>1, <1>5, TasksAre DEF AtMargin, RowCount
  <2> QED BY <1>0, <1>1, <1>5, <2>1, MarginsAre DEF AtMargin
<1>7. running' = running /\ loop'[w] = "rows" /\ row'[w] = 1
  BY <1>0, <1>5 DEF AtMargin, RowsRunOut, pool
<1>8. PICK i \in DOMAIN symbols : symbols[i] = s /\ i >= 1
  BY TableEntries
<1>9. AtSymbol(w, g, s)'
  BY <1>0, <1>5, <1>6, <1>7, <1>8 DEF AtMargin, AtSymbol, HasMargin
<1> QED BY <1>9 DEF Ahead

\* A step of one thread leaves what the others have before them.
LEMMA OthersKeepAhead ==
  ASSUME StateInv, NEW w \in Workers, Work(w), NEW v \in Workers, v # w, NEW g, NEW s, Ahead(v, g, s)
  PROVE  Ahead(v, g, s)'
<1>1. /\ running \in [Workers -> Tasks \cup {Idle}] /\ loop \in [Workers -> {"margins", "rows"}]
      /\ row \in [Workers -> Nat] /\ read \in [Workers -> Pairs \cup {None}]
  BY DEF StateInv, TypeOK, PoolTypeOK
<1>2. /\ groups' = groups /\ symbols' = symbols
      /\ running'[v] = running[v] /\ loop'[v] = loop[v] /\ row'[v] = row[v] /\ read'[v] = read[v]
  <2>1. CASE Take(w)
    BY <1>1, <2>1 DEF Take, TakeTask, server
  <2>2. CASE ReadRow(w)
    BY <1>1, <2>2 DEF ReadRow, pool, server
  <2>3. CASE PublishRow(w)
    BY <1>1, <2>3 DEF PublishRow, pool, server
  <2>4. CASE RowsRunOut(w)
    BY <1>1, <2>4 DEF RowsRunOut, FinishTask, pool, server
  <2>5. CASE StopTask(w)
    BY <1>1, <2>5 DEF StopTask, FinishTask, server, sweeps
  <2> QED BY <2>1, <2>2, <2>3, <2>4, <2>5 DEF Work
<1> QED BY <1>2, AheadStays

\* The thread that takes the task of a pair has the pair before it.
LEMMA TakeGetsAhead ==
  ASSUME StateInv, NEW w \in Workers, Take(w), NEW g \in ToSet(groups), NEW s \in ToSet(symbols),
         InTheQueue(g, s), ~InTheQueue(g, s)'
  PROVE  Ahead(w, g, s)'
<1>0. /\ running \in [Workers -> Tasks \cup {Idle}] /\ loop \in [Workers -> {"margins", "rows"}]
      /\ row \in [Workers -> Nat] /\ g \in GroupCopies /\ s \in SymbolCopies
  BY TableEntries DEF StateInv, TypeOK, PoolTypeOK
<1>1. PICK t \in Tasks : /\ queued' = queued \ {t} /\ running'[w] = t
                         /\ loop'[w] = IF OfGroup(t) THEN "margins" ELSE "rows"
                         /\ row'[w] = 1 /\ symbols' = symbols /\ groups' = groups
  BY <1>0 DEF Take, TakeTask, server
<1>2. t = [symbol |-> s] \/ t = [group |-> g]
  BY <1>1 DEF InTheQueue
<1>3. CASE t = [symbol |-> s]
  <2>1. PICK i \in DOMAIN groups : groups[i] = g /\ i >= 1
    BY TableEntries
  <2>2. AtGroup(w, g, s)'
    BY <1>1, <1>3, <2>1 DEF AtGroup
  <2> QED BY <2>2 DEF Ahead
<1>4. CASE t = [group |-> g]
  <2>1. loop'[w] = "margins"
    BY <1>0, <1>1, <1>4, TasksAre
  <2>2. HasMargin(g, s) => \E i \in DOMAIN g.margins : g.margins[i] = s.name /\ i >= 1
    BY <1>0, MarginNamed, MarginsAre
  <2>3. AtMargin(w, g, s)'
    BY <1>1, <1>4, <2>1, <2>2 DEF AtMargin, HasMargin
  <2> QED BY <2>3 DEF Ahead
<1> QED BY <1>2, <1>3, <1>4

\* A pair that is read is published, if the group shows the symbol.
LEMMA PublishEndsAhead ==
  ASSUME StateInv, NEW w \in Workers, PublishRow(w),
         NEW g \in ToSet(groups), NEW s \in ToSet(symbols), Shown(g, s), Ahead(w, g, s)
  PROVE  Done(g, s)' \/ Ahead(w, g, s)'
<1>0. g \in GroupCopies /\ s \in SymbolCopies
  BY TableEntries
<1>1. CASE HasRead(w, g, s)
  <2>1. read[w].g = g /\ read[w].s = s /\ read[w].special = HasMargin(g, s)
    BY <1>1 DEF HasRead
  <2>2. ToJson(GroupSymbol(g, s, HasMargin(g, s))) \in (told \cup failed)'
    BY <2>1 DEF PublishRow, Shown
  <2>3. AsItIs(g, s) \in (told \cup failed)'
    BY <1>0, <2>2, AsPublished
  <2> QED BY <2>3 DEF Done
<1>2. CASE ~HasRead(w, g, s)
  BY <1>2 DEF PublishRow, pool, server, Ahead, AtGroup, AtMargin, AtSymbol
<1> QED BY <1>1, <1>2

LEMMA PairsStep == StateInv /\ PairsInv /\ [Next]_vars => PairsInv'
<1> SUFFICES ASSUME StateInv, PairsInv, [Next]_vars, ~poolPaused',
                    NEW g \in ToSet(groups)', NEW s \in ToSet(symbols)', Shown(g, s)
             PROVE  Settled(g, s)'
  BY DEF PairsInv, Shown
<1>1. CASE (\E c \in SymbolCopies : ChangeSymbol(c)) \/ (\E c \in GroupCopies : ChangeGroup(c))
  BY <1>1, ChangesKeepPairs
<1>2. ASSUME NEW w \in Workers, Work(w) PROVE Settled(g, s)'
  <2>1. /\ groups' = groups /\ symbols' = symbols /\ poolPaused' = poolPaused
    BY <1>2 DEF Work, Take, TakeTask, ReadRow, PublishRow, RowsRunOut, StopTask, FinishTask, server, pool
  <2>2. told \subseteq told' /\ failed \subseteq failed'
    BY <1>2 DEF Work, Take, ReadRow, PublishRow, RowsRunOut, StopTask, feed
  <2>3. g \in ToSet(groups) /\ s \in ToSet(symbols) /\ ~poolPaused
    BY <2>1
  <2>4. Settled(g, s)
    BY <2>3 DEF PairsInv
  <2>5. CASE Done(g, s)
    <3>1. Done(g, s)'
      BY <2>2, <2>5 DEF Done, AsItIs, HasMargin
    <3> QED BY <3>1 DEF Settled
  <2>6. CASE InTheQueue(g, s)
    <3>1. CASE InTheQueue(g, s)'
      BY <3>1 DEF Settled
    <3>2. CASE ~InTheQueue(g, s)'
      <4>1. Take(w)
        BY <1>2, <2>6, <3>2 DEF Work, ReadRow, PublishRow, RowsRunOut, StopTask, FinishTask, pool, InTheQueue
      <4>2. Ahead(w, g, s)'
        BY <2>3, <2>6, <3>2, <4>1, TakeGetsAhead
      <4> QED BY <4>2 DEF Settled
    <3> QED BY <3>1, <3>2
  <2>7. ASSUME NEW v \in Workers, v # w, Ahead(v, g, s) PROVE Settled(g, s)'
    <3>1. Ahead(v, g, s)'
      BY <1>2, <2>7, OthersKeepAhead
    <3> QED BY <3>1 DEF Settled
  <2>8. CASE Ahead(w, g, s)
    <3>1. CASE Take(w)
      <4>1. running[w] = Idle /\ read[w] = None
        BY <3>1 DEF Take, TakeTask, StateInv, IdleInv
      <4>2. g \in GroupCopies /\ s \in SymbolCopies
        BY <2>3, TableEntries
      <4>3. ~HasRead(w, g, s)
        BY <4>1, <4>2, NothingIsNoPair DEF HasRead
      <4>4. ~AtGroup(w, g, s) /\ ~AtMargin(w, g, s) /\ ~AtSymbol(w, g, s)
        BY <4>1, <4>2, TasksAre DEF AtGroup, AtMargin, AtSymbol
      <4> QED BY <2>8, <4>3, <4>4 DEF Ahead
    <3>2. CASE ReadRow(w)
      BY <2>3, <2>8, <3>2, ReadKeepsAhead DEF Settled
    <3>3. CASE PublishRow(w)
      BY <2>3, <2>8, <3>3, PublishEndsAhead DEF Settled
    <3>4. CASE RowsRunOut(w)
      BY <2>3, <2>8, <3>4, RunOutKeepsAhead DEF Settled
    <3>5. CASE StopTask(w)
      BY <2>3, <3>5 DEF StopTask, MustStop
    <3> QED BY <1>2, <3>1, <3>2, <3>3, <3>4, <3>5 DEF Work
  <2> QED BY <2>4, <2>5, <2>6, <2>7, <2>8 DEF Settled
<1>3. CASE PausePool
  BY <1>3 DEF PausePool, Pause
<1>4. CASE UNCHANGED vars
  <2>1. g \in ToSet(groups) /\ s \in ToSet(symbols) /\ ~poolPaused
    BY <1>4 DEF vars, pool, server
  <2>2. Settled(g, s)
    BY <2>1 DEF PairsInv
  <2>3. UNCHANGED <<told, failed, queued, running, groups, symbols, loop, row, read>>
    BY <1>4 DEF vars, pool, server, sweeps, feed
  <2> QED BY <2>2, <2>3 DEF Settled, Done, InTheQueue, Ahead, HasRead, AtGroup, AtMargin, AtSymbol
<1> QED BY <1>1, <1>2, <1>3, <1>4 DEF Next

-----------------------------------------------------------------------------
(* The invariant and what follows from it. *)

IInv == StateInv /\ PairsInv

LEMMA InitOK == Init => IInv
<1> SUFFICES ASSUME Init PROVE IInv
  OBVIOUS
<1>1. <<>> \in Seq(SymbolCopies) /\ <<>> \in Seq(GroupCopies) /\ NamesDiffer(<<>>) /\ ToSet(<<>>) = {}
  BY SetOfEmpty DEF NamesDiffer
<1>2. TablesInv
  BY <1>1, TablesTyped DEF Init, TablesInv
<1>3. PoolTypeOK /\ SweepsTyped
  BY DEF Init, PoolTypeOK, SweepsTyped
<1>4. FeedTyped
  BY DEF Init, FeedTyped
<1>5. IdleInv /\ changes \in 0 .. MaxChanges
  BY FeedConstants DEF Init, IdleInv
<1>6. PairsInv
  BY <1>1 DEF Init, PairsInv
<1> QED BY <1>2, <1>3, <1>4, <1>5, <1>6, StateParts DEF IInv

LEMMA Inductive == IInv /\ [Next]_vars => IInv'
BY StateStep, PairsStep DEF IInv

LEMMA Invariance == Spec => []IInv
BY InitOK, Inductive, PTL DEF Spec

\* Every variable has its type: the row a thread has in hand is of structures
\* the server had (plugin.cpp:281, 323), and a table has at most one for a name.
THEOREM TypeCorrect == Spec => []TypeOK
<1>1. IInv => TypeOK
  BY DEF IInv, StateInv
<1> QED BY <1>1, Invariance, PTL

\* However the tasks of the feed overlap with each other and with changes of the
\* server, once they are done every pair that is shown has been published as it
\* is now, or the failure of that publish is in the log: for any number of
\* threads, symbols and groups.
THEOREM EveryPair == Spec => []EveryPairToldOrLogged
<1>1. IInv => EveryPairToldOrLogged
  <2> SUFFICES ASSUME IInv, Quiet, NEW g \in ToSet(groups), NEW s \in ToSet(symbols), Shown(g, s)
               PROVE  Done(g, s)
    BY DEF EveryPairToldOrLogged, Shown, Done
  <2>1. Settled(g, s)
    BY DEF IInv, PairsInv, Quiet
  <2>2. ~InTheQueue(g, s)
    BY DEF Quiet, InTheQueue
  <2>3. g \in GroupCopies /\ s \in SymbolCopies
    BY TableEntries DEF IInv
  <2>4. ASSUME NEW w \in Workers PROVE ~Ahead(w, g, s)
    <3>1. running[w] = Idle /\ read[w] = None
      BY DEF Quiet, Busy, IInv, StateInv, IdleInv
    <3>2. ~HasRead(w, g, s)
      BY <2>3, <3>1, NothingIsNoPair DEF HasRead
    <3>3. ~AtGroup(w, g, s) /\ ~AtMargin(w, g, s) /\ ~AtSymbol(w, g, s)
      BY <2>3, <3>1, TasksAre DEF AtGroup, AtMargin, AtSymbol
    <3> QED BY <3>2, <3>3 DEF Ahead
  <2> QED BY <2>1, <2>2, <2>4 DEF Settled
<1> QED BY <1>1, Invariance, PTL

=============================================================================
