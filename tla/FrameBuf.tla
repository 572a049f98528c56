------------------------------- MODULE FrameBuf -------------------------------
(***************************************************************************)
(* HFrameBuf: the cache of frames between a player's worker, which pushes, *)
(* and the GUI thread, which pops one on each tick of its timer and clears *)
(* the cache in seek.  Each holds the mutex for all of its operation.      *)
(*                                                                         *)
(* The frames lie in a ring of bytes, HRingBuf, which the first push sizes *)
(* for CacheNum frames of its own length and nothing ever resizes.  Nor    *)
(* does close clear the cache: the next session of the player, whose       *)
(* frames may have another length, finds what the last one left.           *)
(*                                                                         *)
(* A picture is one value in all of its bytes, so that memory shows when   *)
(* one frame has overwritten a part of another.  The policy is SQUEEZE;    *)
(* DISCARD is never chosen.                                                *)
(***************************************************************************)
EXTENDS Integers, Sequences, FiniteSets

CONSTANTS
  CacheNum,       \* cache_num
  Lengths,        \* the lengths of frames, one for each session
  Pictures        \* what can be on a frame

ASSUME FrameAssumption ==
  /\ CacheNum \in Nat \ {0}
  /\ Lengths \subseteq Nat \ {0} /\ Lengths # {}
  /\ Pictures # {}

VARIABLES
  len,            \* HBuf::len of the ring, 0 before the first push
  head, tail, size,
  memory,         \* what lies at each byte of the ring
  frames,         \* where each frame lies: base and length
  flen,           \* the length of this session's frames
  least, grew,    \* history, since the first push or the last clear: the shortest length
                  \* pushed; a frame was longer than that or than a part of the ring
  shown,          \* the picture popped last, in a sequence of at most one
  crashed         \* a frame was copied to a NULL base

ringVars == <<len, head, tail, size>>
vars == <<ringVars, memory, frames, flen, least, grew, shown, crashed>>

Init ==
  /\ len = 0 /\ head = 0 /\ tail = 0 /\ size = 0
  /\ memory = <<>>
  /\ frames = <<>>
  /\ flen \in Lengths /\ least = 0 /\ grew = FALSE
  /\ shown = <<>> /\ crashed = FALSE
-----------------------------------------------------------------------------
(* HRingBuf, as a record of its fields. *)

Ring == [len |-> len, head |-> head, tail |-> tail, size |-> size]

(* Mutants of Base: the head is not looked at; n bytes need one more. *)
BaseAnywhere(r, n) ==
  IF r.len - r.tail >= n THEN r.tail
  ELSE IF r.head >= n THEN 0 ELSE -1

BaseWithin(r, n) ==
  IF r.head < r.tail \/ r.size = 0
  THEN IF r.len - r.tail >= n THEN r.tail
       ELSE IF r.head >= n THEN 0 ELSE -1
  ELSE IF r.head - r.tail > n THEN r.tail ELSE -1

(* alloc(): where n bytes are free, or -1 (NULL).  Behind the tail as far  *)
(* as the end, else in front of the head; or between the two.              *)
Base(r, n) ==
  IF r.head < r.tail \/ r.size = 0
  THEN IF r.len - r.tail >= n THEN r.tail
       ELSE IF r.head >= n THEN 0 ELSE -1
  ELSE IF r.head - r.tail >= n THEN r.tail ELSE -1

(* The bytes behind the tail are used up: the end is the beginning. *)
Past(r, p, n) == IF p + n = r.len THEN 0 ELSE p + n

Alloc(r, n) ==
  IF Base(r, n) = -1 THEN r
  ELSE [r EXCEPT !.tail = Past(r, Base(r, n), n), !.size = @ + n]

(* free(): the oldest n bytes, which begin at the head, or at the beginning *)
(* if that many do not lie between the head and the end.                   *)
Free(r, n) ==
  [r EXCEPT !.head = IF n <= r.len - r.head THEN Past(r, r.head, n) ELSE n,
            !.size = @ - n]

SetRing(r) == len' = r.len /\ head' = r.head /\ tail' = r.tail /\ size' = r.size

(* The bytes of a frame, and the picture on it: torn when they disagree.   *)
Bytes(f) == f.base + 1 .. f.base + f.len

Picture(f) ==
  IF \E p \in Pictures : \A b \in Bytes(f) : memory[b] = p
  THEN memory[f.base + 1] ELSE "torn"
-----------------------------------------------------------------------------
Full == Len(frames) >= CacheNum

(* The ring after a full cache has squeezed its oldest frame out, and      *)
(* after the first push has sized it.                                      *)
Squeezed == IF Full THEN Free(Ring, frames[1].len) ELSE Ring

Sized(r) == IF r.len = 0 THEN [r EXCEPT !.len = flen * CacheNum] ELSE r

(* push().  alloc may fail, and then the copy goes to NULL. *)
Push ==
  /\ ~crashed
  /\ LET r == Sized(Squeezed)
         at == Base(r, flen)
         kept == IF Full THEN Tail(frames) ELSE frames
     IN /\ least' = IF least = 0 \/ flen < least THEN flen ELSE least
        /\ grew' = (grew \/ flen > least' \/ flen * CacheNum > r.len)
        /\ IF at = -1
           THEN crashed' = TRUE /\ UNCHANGED <<ringVars, memory, frames>>
           ELSE /\ SetRing(Alloc(r, flen))
                /\ frames' = Append(kept, [base |-> at, len |-> flen])
                /\ \E p \in Pictures :
                     memory' = [b \in 1 .. r.len |->
                                  IF b \in at + 1 .. at + flen THEN p
                                  ELSE IF len = 0 THEN "none" ELSE memory[b]]
                /\ UNCHANGED crashed
  /\ UNCHANGED <<flen, shown>>

(* pop(), which fails before the first push and when the cache is empty.   *)
Pop ==
  /\ ~crashed
  /\ len # 0 /\ frames # <<>>
  /\ SetRing(Free(Ring, frames[1].len))
  /\ shown' = <<Picture(frames[1])>>
  /\ frames' = Tail(frames)
  /\ UNCHANGED <<memory, flen, least, grew, crashed>>

(* Mutant of Clear: the deque is emptied and the ring is not. *)
ClearFrames ==
  /\ ~crashed
  /\ frames' = <<>>
  /\ least' = 0 /\ grew' = FALSE
  /\ UNCHANGED <<ringVars, memory, flen, shown, crashed>>

(* clear(), in seek. *)
Clear ==
  /\ ~crashed
  /\ frames' = <<>>
  /\ head' = 0 /\ tail' = 0 /\ size' = 0
  /\ least' = 0 /\ grew' = FALSE
  /\ UNCHANGED <<len, memory, flen, shown, crashed>>

(* close and open: the same player with a stream of another size. *)
NewSession ==
  /\ ~crashed
  /\ flen' \in Lengths
  /\ UNCHANGED <<ringVars, memory, frames, least, grew, shown, crashed>>

Next == Push \/ Pop \/ Clear \/ NewSession

Spec == Init /\ [][Next]_vars
-----------------------------------------------------------------------------
(* Every variable has the shape the code gives it. *)
TypeOK ==
  /\ len \in Nat /\ head \in Nat /\ tail \in Nat /\ size \in 0 .. len
  /\ head <= len /\ tail <= len
  /\ memory \in [1 .. len -> Pictures \cup {"none"}]
  /\ frames \in Seq([base : Nat, len : Lengths]) /\ Len(frames) <= CacheNum
  /\ flen \in Lengths /\ least \in Lengths \cup {0} /\ grew \in BOOLEAN
  /\ shown \in Seq(Pictures \cup {"torn"})
  /\ crashed \in BOOLEAN

Occupied(fs) == UNION {Bytes(fs[i]) : i \in 1 .. Len(fs)}

(* Where n bytes lie that follow what ends at p: there, or at the beginning *)
(* when the end is too near.                                               *)
Place(r, p, n) == IF p + n <= r.len THEN p ELSE 0

(* How far behind the head a byte is, around the ring.                     *)
Ahead(r, p) == IF r.head <= p THEN p - r.head ELSE p + r.len - r.head

(* Frames from head to tail: the oldest begins at the head and each begins *)
(* where the one before it ends, or at 0 when it does not fit before the   *)
(* end, which leaves the only gap; the tail is where the youngest ends.    *)
Chained(r, fs) ==
  /\ fs[1].base = Place(r, r.head, fs[1].len)
  /\ \A i \in 1 .. Len(fs) - 1 :
       fs[i + 1].base = Place(r, Past(r, fs[i].base, fs[i].len), fs[i + 1].len)
  /\ r.tail = Past(r, fs[Len(fs)].base, fs[Len(fs)].len)

(* Read from the head, each is in one piece and wholly before the younger  *)
(* ones, and none comes round to the head again.                           *)
InOneTurn(r, fs) ==
  /\ \A i \in 1 .. Len(fs) :
       /\ fs[i].base + fs[i].len <= r.len
       /\ Ahead(r, fs[i].base) + fs[i].len <= r.len
  /\ \A i, j \in 1 .. Len(fs) :
       i < j => Ahead(r, fs[i].base) + fs[i].len <= Ahead(r, fs[j].base)

(* The ring never loses a byte: what it counts as used are the bytes of    *)
(* the frames, those of the gap not among them, and the frames lie in it   *)
(* one behind the other, from head to tail, in one turn.  It is alloc and  *)
(* free that must agree on this: free is told a length only, and takes the *)
(* oldest frame to be where alloc would have put it.                       *)
RingFits ==
  /\ size = Cardinality(Occupied(frames))
  /\ frames = <<>> => head = tail
  /\ frames # <<>> => Chained(Ring, frames) /\ InOneTurn(Ring, frames)

(* Types and ring together, which is what every operation may rely on.     *)
RingInv == TypeOK /\ RingFits

(* alloc fails only after a frame that was longer than the ring was sized  *)
(* for, or than one before it: frames of one size, or of ever smaller ones, *)
(* never fail, however they are pushed, squeezed out, popped and cleared.  *)
FailsOnlyGrown == crashed => grew

(* What comes out of the ring is what a cache of pictures would give: no   *)
(* frame overwrites another, and none is lost but the oldest.              *)
Cache == INSTANCE FrameCache WITH pictures <- [i \in 1 .. Len(frames) |-> Picture(frames[i])]

ImplementsCache == Cache!Spec
=============================================================================
