------------------------------ MODULE FrameCache ------------------------------
(***************************************************************************)
(* What the frame cache between a player and its widget promises, and what *)
(* Pipeline takes it for: at most CacheNum pictures, the oldest squeezed   *)
(* out by a new one, shown in the order they came and as they were.        *)
(***************************************************************************)
EXTENDS Naturals, Sequences

CONSTANTS Pictures, CacheNum

VARIABLES
  pictures,       \* the pictures in the cache, the oldest first
  shown           \* what was popped last, in a sequence of at most one

vars == <<pictures, shown>>

Init == pictures = <<>> /\ shown = <<>>

Put ==
  /\ \E p \in Pictures :
       pictures' = Append(IF Len(pictures) >= CacheNum THEN Tail(pictures) ELSE pictures, p)
  /\ UNCHANGED shown

Take ==
  /\ pictures # <<>>
  /\ shown' = <<Head(pictures)>>
  /\ pictures' = Tail(pictures)

Clear == pictures' = <<>> /\ UNCHANGED shown

Spec == Init /\ [][Put \/ Take \/ Clear]_vars
=============================================================================
