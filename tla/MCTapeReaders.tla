--------------------------- MODULE MCTapeReaders ---------------------------
(* Two inputs, a constant, and up to three comparisons and Selects over    *)
(* them; implicit blocks of square, overdetermined and refused sizes, and  *)
(* calls of their programs.                                                *)
EXTENDS TapeReaders

Node(op, a, b, c) == [op |-> op, a |-> a, b |-> b, c |-> c]
Started == <<Node("Input", 1, 0, 0), Node("Const", 0, 7, 0), Node("Input", 2, 0, 0)>>
Grown(ts) ==
  ts \cup UNION {{Append(t, n) :
                    n \in {Node(op, a, b, 0) : op \in {"CmpLt", "CmpGt"}, a \in {1, 3}, b \in {3}}
                          \cup {Node("Select", p, a, b) : p \in {1} \cup 4..Len(t), a \in {2, 3}, b \in {3}}} : t \in ts}
SmallTapes == Grown(Grown(Grown({Started})))

(* Blocks whose unknowns are not in the order of the inputs, with one or   *)
(* two parameters or none; one of an unknown no residual reads, and one    *)
(* with fewer residuals than unknowns.                                     *)
SomeBlocks ==
  {[unknowns |-> u, reads |-> r, rows |-> n] :
      u \in {<<3, 1>>, <<2>>}, r \in {<<1, 3>>, <<1, 2, 3>>, <<2, 4, 5>>}, n \in {1, 3}}

SomeSizes == {<<0, 1, TRUE>>, <<1, 1, TRUE>>, <<1, 2, TRUE>>, <<2, 1, TRUE>>, <<1, 2, FALSE>>}
=============================================================================
