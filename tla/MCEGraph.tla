------------------------------ MODULE MCEGraph ------------------------------
(* Small rule sets on four programs and two decisions. *)
EXTENDS EGraph

CONSTANTS base, folded, grouped, both, malformed   \* programs
Programs == {base, folded, grouped, both}

Never == [program \in Programs |-> <<>>]
On(table) == table @@ Never
Always(proposals) == [program \in Programs |-> proposals]

(* Two structural rules that meet in one program, by several sites and     *)
(* orders, and two planner rules over two domains.                         *)
Meeting ==
  [group |-> On(base :> <<Structural(grouped), Structural(malformed), Structural(folded)>>),
   fold  |-> On(base :> <<Structural(folded)>> @@ grouped :> <<Structural(both)>>
                @@ folded :> <<Structural(both)>>),
   fuse  |-> Always(<<Annotation(1 :> "fused")>>),
   inline |-> On(base :> <<Annotation(2 :> "inlined"), Annotation(1 :> "inlined")>>
                 @@ both :> <<Annotation(2 :> "inlined")>>)]

RuleVectors == {<<"group", "fold", "fuse">>, <<"fuse", "fold">>, <<"fold", "inline", "group">>,
                <<"fuse", "inline">>, <<"fuse", "inline", "group">>}

ASSUME RulesAreOneKind == OneKind

Limit(iterations, nodes, policies, dedups) ==
    {[iterations |-> i, programs |-> n[1], plans |-> n[2], refire |-> p, dedup |-> d] :
        i \in iterations, n \in nodes, p \in policies, d \in dedups}

(* For every policy limits that cut a round, and room enough; duplicates   *)
(* are matched under the complete policy, with room for them.              *)
SomeLimits == Limit({1, 6}, {<<2, 2>>, <<3, 5>>, <<9, 40>>}, {AllRules}, {TRUE})
              \cup Limit({2, 6}, {<<20, 60>>}, {AllRules}, {TRUE, FALSE})
              \cup Limit({1, 6}, {<<3, 3>>, <<9, 40>>}, {NoFreshCrossRule}, {TRUE})
              \cup Limit({1, 6}, {<<3, 4>>, <<9, 40>>}, {PipelineOrderedPlans}, {TRUE})
=============================================================================
