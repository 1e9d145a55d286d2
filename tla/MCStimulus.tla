---------------------------- MODULE MCStimulus ----------------------------
(* A document of four elements: the outer and the inner one may nest two   *)
(* scopes of the same name, and a leaf starts out of the document.         *)
EXTENDS Stimulus

CONSTANTS root, outer, inner, leaf, x, y

MCElement == {root, outer, inner, leaf}

MCLists == {None, <<x>>, <<y, x>>}

MCDocuments ==
    {[path |-> (root :> {root} @@ outer :> {root, outer}
                @@ inner :> {root, outer, inner}
                @@ leaf :> IF out THEN {leaf} ELSE {root, outer, inner, leaf}),
      controller |-> (root :> None @@ outer :> <<x>> @@ inner :> i @@ leaf :> None),
      action |-> (root :> None @@ outer :> None @@ inner :> <<x>> @@ leaf :> <<x>>)]
     : out \in BOOLEAN, i \in {<<x>>, <<y, x>>}}
===========================================================================
