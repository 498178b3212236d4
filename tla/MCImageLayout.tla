---------------------------- MODULE MCImageLayout ----------------------------
(* Two tables, one of which refers to the other by a coded index.  Their    *)
(* last columns refer to the heap of strings, which two bytes cover up to   *)
(* size 7; a GUID takes two units.                                          *)
EXTENDS ImageLayout

MCColumns ==
    [Owner  |-> <<[kind |-> "constant"], [kind |-> "heap", of |-> "strings"]>>,
     Member |-> <<[kind |-> "index", of |-> <<"Owner">>, bits |-> 1],
                  [kind |-> "heap", of |-> "guids"],
                  [kind |-> "heap", of |-> "strings"]>>]
(* The heap is referred to by a column that others follow, as the names of  *)
(* most tables are.                                                         *)
MCNameFirst ==
    [Owner  |-> <<[kind |-> "heap", of |-> "strings"], [kind |-> "constant"]>>,
     Member |-> <<[kind |-> "index", of |-> <<"Owner">>, bits |-> 1],
                  [kind |-> "heap", of |-> "guids"]>>]
MCMaxRows == [Owner |-> 2, Member |-> 1]
(* Enough owners for references to outgrow two bytes.                      *)
MCManyRows == [Owner |-> 4, Member |-> 1]
MCMaxHeap == [strings |-> 12, guids |-> 2]
MCStrings == [a |-> 6, bc |-> 5]
(* The references of a loaded image narrow when a delta has nothing new for *)
(* its heap of size 7, flagged as large, and widen when it has 4 units.     *)
MCLoadedEntries == [strings |-> "a"]
MCDeltaSizes == [strings |-> {0, 4}, guids |-> {2}]
=============================================================================
