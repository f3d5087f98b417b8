----------------------------- MODULE MCSymbolFeed -----------------------------
(* SymbolFeed for TLC: a symbol that changes and one that does not, of two    *)
(* types; a group in two versions, with margins for the first and for a       *)
(* symbol nobody knows, and a group without margins that hides one type.      *)
EXTENDS SymbolFeed

MCSymbolCopies ==
  { [name |-> "A", type |-> 1, trade |-> 2, longOnly |-> FALSE],
    [name |-> "A", type |-> 1, trade |-> 1, longOnly |-> TRUE],
    [name |-> "B", type |-> 2, trade |-> 1, longOnly |-> FALSE] }

Sec(show, trade, lots) == [show |-> show, trade |-> trade, lots |-> lots]

MCGroupCopies ==
  { [name |-> "G", margins |-> <<"Z", "A">>, sec |-> <<Sec(TRUE, TRUE, 1), Sec(TRUE, TRUE, 2)>>],
    [name |-> "G", margins |-> <<"Z", "A">>, sec |-> <<Sec(TRUE, FALSE, 2), Sec(TRUE, TRUE, 2)>>],
    [name |-> "H", margins |-> <<>>, sec |-> <<Sec(FALSE, TRUE, 1), Sec(TRUE, FALSE, 1)>>] }

MCTasks == [symbol : MCSymbolCopies] \cup [group : MCGroupCopies]

=============================================================================
