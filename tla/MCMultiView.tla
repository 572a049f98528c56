---------------------------- MODULE MCMultiView ----------------------------
(* MultiView with the small styles of the menu. *)
EXTENDS MultiView

MCSmallLayouts == {<<1, 1>>, <<1, 2>>, <<2, 2>>}

=============================================================================
