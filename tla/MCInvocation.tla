----------------------------- MODULE MCInvocation -----------------------------
(* Values of the constants of Invocation for TLC: two routes of which the     *)
(* first may call the second, two guards that may call both, and a third.     *)
EXTENDS Invocation

MCCovers == ("a" :> <<"g">>) @@ ("b" :> <<"g", "h", "k">>)

\* Bodies of the outer route, of the inner one, of a guard and of the fallback.
OuterBodies ==
  {<<<<"template", "b">>, <<"return", 200>>>>, <<<<"self", "b">>>>,
   <<<<"iterate", <<<<"template", "b">>, <<"plain">>>>>>>>}
InnerBodies ==
  {<<<<"goto", 1>>>>, <<<<"return", 400>>>>, <<<<"http">>, <<"fail">>>>}
GuardBodies ==
  {<<>>, <<<<"return", 400>>>>, <<<<"template", "a">>>>,
   <<<<"template", "b">>, <<"return", 400>>>>, <<<<"http">>, <<"template", "b">>>>}

MCPrograms ==
  {("a" :> a) @@ ("b" :> b) @@ ("g" :> g) @@ ("h" :> h) @@ ("k" :> <<>>) @@ ("x" :> x) :
     a \in OuterBodies, b \in InnerBodies, g \in GuardBodies, h \in GuardBodies,
     x \in {<<<<"plain">>>>, <<<<"fail">>>>}}

=============================================================================
