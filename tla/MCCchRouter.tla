---------------------------- MODULE MCCchRouter ----------------------------
(* Graphs, orderings and requests for TLC.                                 *)
EXTENDS CchRouter

CONSTANT MaxWeight

Proper == { a \in [from : Nodes, to : Nodes, weight : 1..MaxWeight] : a.from # a.to }

(* A self-loop, and a weight no pack admits.                               *)
Improper ==
    { {[from |-> 1, to |-> 1, weight |-> 1]},
      {[from |-> 0, to |-> 1, weight |-> MaxArcWeight + 1]} }

(* A detour as long as an arc, a shortcut below a shortcut, parallel arcs.  *)
MCFragile ==
    { { [from |-> 1, to |-> 3, weight |-> 1], [from |-> 3, to |-> 2, weight |-> 1],
        [from |-> 1, to |-> 2, weight |-> 2], [from |-> 1, to |-> 2, weight |-> 3] },
      { [from |-> 1, to |-> 3, weight |-> 1], [from |-> 3, to |-> 0, weight |-> 2],
        [from |-> 0, to |-> 2, weight |-> 1] },
      { [from |-> 1, to |-> 3, weight |-> 1], [from |-> 1, to |-> 3, weight |-> 2],
        [from |-> 3, to |-> 0, weight |-> 1] } }

Unit == { a \in Proper : a.weight = 1 }

(* At most four arcs, all but one of them of weight 1: a way by three, or  *)
(* by two, may be as long as another by one, or longer or shorter.         *)
MCInputs == { {a, b, c, d} : a, b, c \in Unit, d \in Proper } \cup {{}} \cup Improper \cup MCFragile

(* Cut by longitude, and one half then by latitude: ranks 1, 2, 3, 0.      *)
MCPositions ==
    { [n \in Nodes |-> [lat |-> IF n = 0 THEN 1 ELSE 0, lng |-> << 0, 3, 2, 0 >>[n + 1]]] }

(* Ranks that are no permutation.                                          *)
MCGivenRanks == { [n \in Nodes |-> n \div 2] }

Pair(s, t) == [controls |-> << s, t >>, closed |-> FALSE]

MCRequests ==
    ({ Pair(s, t) : s, t \in Nodes } \ { Pair(n, n) : n \in Nodes }) \cup
    { [controls |-> << 0, 2 >>, closed |-> TRUE], [controls |-> << 3, 0, 1 >>, closed |-> FALSE],
      [controls |-> << 1, 1, 2 >>, closed |-> TRUE], [controls |-> << 0, Nowhere >>, closed |-> FALSE],
      [controls |-> << 0 >>, closed |-> TRUE], [controls |-> << 0, 1, 2, 3 >>, closed |-> FALSE] }

=============================================================================
