---------------------------- MODULE FrameBuf_proofs ----------------------------
(***************************************************************************)
(* The ring of bytes under the frame cache, for every number of frames and *)
(* every set of lengths: what it counts is what its frames occupy, they    *)
(* lie in order from head to tail (RingInv), frames that never grow always *)
(* find room (FailsOnlyGrown), and what is popped is what a cache of       *)
(* pictures gives (ImplementsCache).                                       *)
(*                                                                         *)
(* FitsInv is the layout: the frames lie in order from head to tail, at    *)
(* most once around the end.  LapInv counts the frames popped (h) and      *)
(* pushed (t) in this turn around the ring: the head is at least h lengths *)
(* of any frame from the beginning and the tail at most t times a part of  *)
(* the ring, so a turn that has room for CacheNum frames never fails.      *)
(***************************************************************************)
EXTENDS FrameBuf, SequenceTheorems, FiniteSetTheorems, TLAPS

Rings == [len : Nat \ {0}, head : Nat, tail : Nat, size : Int]
FrameSet == [base : Nat, len : Nat \ {0}]

End(f) == f.base + f.len

(* A frame lies between head and tail, around the end if need be.          *)
Lies(r, f) ==
  \/ r.head < r.tail /\ r.head <= f.base /\ End(f) <= r.tail
  \/ r.head >= r.tail /\ (r.head <= f.base \/ End(f) <= r.tail)

(* A frame lies behind another one, or at the other side of the end.       *)
Behind(r, f, g) ==
  \/ End(f) <= g.base /\ (End(f) <= r.tail => End(g) <= r.tail)
  \/ r.head >= r.tail /\ r.head <= f.base /\ End(g) <= r.tail

Follows(r, f, g) == g.base = Place(r, Past(r, f.base, f.len), g.len)

Fits(r, fs) ==
  /\ r.head < r.len /\ r.tail < r.len
  /\ fs = <<>> => r.tail = r.head
  /\ fs # <<>> => /\ fs[1].base = Place(r, r.head, fs[1].len)
                  /\ r.tail = Past(r, fs[Len(fs)].base, fs[Len(fs)].len)
  /\ \A i \in 1 .. Len(fs) : End(fs[i]) <= r.len /\ Lies(r, fs[i])
  /\ \A i \in 1 .. Len(fs) - 1 : Follows(r, fs[i], fs[i + 1])
  /\ \A i, j \in 1 .. Len(fs) : i < j => Behind(r, fs[i], fs[j])

Counts(r, fs) == r.size = Cardinality(Occupied(fs))
-----------------------------------------------------------------------------
(* What free and alloc do to the fields of a ring. *)
LEMMA FreeFields ==
  ASSUME NEW r \in Rings, NEW n \in Nat
  PROVE  /\ Free(r, n) \in Rings
         /\ Free(r, n).len = r.len /\ Free(r, n).tail = r.tail
         /\ Free(r, n).size = r.size - n
         /\ Free(r, n).head = IF n <= r.len - r.head THEN Past(r, r.head, n) ELSE n
<1> DEFINE h == IF n <= r.len - r.head THEN Past(r, r.head, n) ELSE n
           z == r.size - n
<1>1. h \in Nat /\ z \in Int
  BY DEF Rings, Past
<1>2. Free(r, n) = [r EXCEPT !.head = h, !.size = z]
  BY DEF Free
<1>h. h = IF n <= r.len - r.head THEN Past(r, r.head, n) ELSE n
  OBVIOUS
<1>z. z = r.size - n
  OBVIOUS
<1> HIDE DEF h, z
<1>3. /\ [r EXCEPT !.head = h, !.size = z] \in Rings
  BY <1>1 DEF Rings
<1>4. [r EXCEPT !.head = h, !.size = z].len = r.len /\ [r EXCEPT !.head = h, !.size = z].tail = r.tail
  BY <1>1 DEF Rings
<1>5. [r EXCEPT !.head = h, !.size = z].head = h 
  BY <1>1 DEF Rings
<1>6. [r EXCEPT !.head = h, !.size = z].size = z 
  BY <1>1 DEF Rings
<1>7. QED
  BY <1>2, <1>3, <1>4, <1>5, <1>6, <1>h, <1>z

LEMMA BaseType ==
  ASSUME NEW r \in Rings, NEW n \in Nat, Base(r, n) # -1
  PROVE  Base(r, n) \in Nat
  BY DEF Base, Rings
LEMMA AllocFields ==
  ASSUME NEW r \in Rings, NEW n \in Nat, Base(r, n) # -1
  PROVE  /\ Alloc(r, n) \in Rings
         /\ Alloc(r, n).len = r.len /\ Alloc(r, n).head = r.head
         /\ Alloc(r, n).size = r.size + n
         /\ Alloc(r, n).tail = Past(r, Base(r, n), n)
<1> DEFINE t == Past(r, Base(r, n), n)
           z == r.size + n
<1>1. t \in Nat /\ z \in Int
  BY BaseType DEF Past, Rings
<1>2. Alloc(r, n) = [r EXCEPT !.tail = t, !.size = z]
  BY DEF Alloc
<1>h. t = Past(r, Base(r, n), n)
  OBVIOUS
<1>z. z = r.size + n
  OBVIOUS
<1> HIDE DEF t, z
<1>3. [r EXCEPT !.tail = t, !.size = z] \in Rings
  BY <1>1 DEF Rings
<1>4. [r EXCEPT !.tail = t, !.size = z].len = r.len /\ [r EXCEPT !.tail = t, !.size = z].head = r.head
  BY <1>1 DEF Rings
<1>5. [r EXCEPT !.tail = t, !.size = z].tail = t
  BY <1>1 DEF Rings
<1>6. [r EXCEPT !.tail = t, !.size = z].size = z
  BY <1>1 DEF Rings
<1>7. QED
  BY <1>2, <1>3, <1>4, <1>5, <1>6, <1>h, <1>z
(* The oldest frame lies where free takes it to be: the head ends up       *)
(* behind it.                                                              *)
LEMMA FreeHead ==
  ASSUME NEW r \in Rings, NEW f \in FrameSet,
         r.head < r.len, r.tail < r.len,
         End(f) <= r.len, Lies(r, f), f.base = Place(r, r.head, f.len)
  PROVE  /\ Free(r, f.len).head = Past(r, f.base, f.len)
         /\ Free(r, f.len).head < r.len
<1>1. f.len \in Nat \ {0} /\ f.base \in Nat /\ r.len \in Nat /\ r.head \in Nat /\ r.tail \in Nat
  BY DEF FrameSet, Rings
<1>2. Free(r, f.len).head = IF f.len <= r.len - r.head THEN Past(r, r.head, f.len) ELSE f.len
  BY <1>1, FreeFields
<1>3. QED
  BY <1>1, <1>2 DEF End, Lies, Place, Past

LEMMA FreeLies ==
  ASSUME NEW r \in Rings, NEW s \in Rings, NEW f \in FrameSet, NEW g \in FrameSet,
         r.head < r.len, r.tail < r.len,
         End(f) <= r.len, Lies(r, f), f.base = Place(r, r.head, f.len),
         End(g) <= r.len, Lies(r, g), Behind(r, f, g),
         s.len = r.len, s.tail = r.tail, s.head = Past(r, f.base, f.len)
  PROVE  Lies(s, g)
  BY DEF FrameSet, Rings, End, Lies, Place, Past, Behind

LEMMA FreeBehind ==
  ASSUME NEW r \in Rings, NEW s \in Rings,
         NEW e \in FrameSet, NEW f \in FrameSet, NEW g \in FrameSet,
         r.head < r.len, r.tail < r.len,
         End(e) <= r.len, Lies(r, e), e.base = Place(r, r.head, e.len),
         End(f) <= r.len, Lies(r, f), End(g) <= r.len, Lies(r, g),
         Behind(r, e, f), Behind(r, e, g), Behind(r, f, g),
         s.len = r.len, s.tail = r.tail, s.head = Past(r, e.base, e.len)
  PROVE  Behind(s, f, g)
  BY DEF FrameSet, Rings, End, Lies, Place, Past, Behind

LEMMA SameFollows ==
  ASSUME NEW r \in Rings, NEW s \in Rings, s.len = r.len,
         NEW f, NEW g, Follows(r, f, g)
  PROVE  Follows(s, f, g)
  BY DEF Follows, Place, Past

LEMMA Tails ==
  ASSUME NEW S, NEW fs \in Seq(S), fs # <<>>
  PROVE  /\ Len(fs) \in Nat \ {0}
         /\ Tail(fs) \in Seq(S) /\ Len(Tail(fs)) = Len(fs) - 1
         /\ \A i \in 1 .. Len(Tail(fs)) : /\ i \in 1 .. Len(fs) /\ i + 1 \in 1 .. Len(fs)
                                          /\ Tail(fs)[i] = fs[i + 1]
         /\ \A i \in 1 .. Len(fs) : fs[i] \in S
         /\ 1 \in 1 .. Len(fs)
  OBVIOUS

(* Popping the oldest frame leaves a ring in which the others fit. *)
LEMMA FreeFits ==
  ASSUME NEW r \in Rings, NEW fs \in Seq(FrameSet), fs # <<>>, Fits(r, fs)
  PROVE  Fits(Free(r, fs[1].len), Tail(fs))
<1> DEFINE f == fs[1]
           s == Free(r, f.len)
           gs == Tail(fs)
           k == Len(fs)
<1>1. /\ f \in FrameSet /\ f.len \in Nat
      /\ r.head < r.len /\ r.tail < r.len /\ End(f) <= r.len /\ Lies(r, f)
      /\ f.base = Place(r, r.head, f.len)
      /\ r.tail = Past(r, fs[k].base, fs[k].len)
  <2>1. f \in FrameSet /\ 1 \in 1 .. Len(fs)
    BY Tails
  <2>2. f.len \in Nat
    BY <2>1 DEF FrameSet
  <2>3. QED
    BY <2>1, <2>2 DEF Fits
<1>2. /\ s \in Rings /\ s.len = r.len /\ s.tail = r.tail
      /\ s.head = Past(r, f.base, f.len) /\ s.head < r.len
  BY <1>1, FreeFields, FreeHead
<1>3. /\ k \in Nat \ {0} /\ gs \in Seq(FrameSet) /\ Len(gs) = k - 1
      /\ \A i \in 1 .. k - 1 : i + 1 \in 1 .. k /\ gs[i] = fs[i + 1]
      /\ \A i \in 1 .. k : fs[i] \in FrameSet
  BY Tails
<1>4. /\ \A i \in 1 .. k : End(fs[i]) <= r.len /\ Lies(r, fs[i])
      /\ \A i \in 1 .. k - 1 : Follows(r, fs[i], fs[i + 1])
      /\ \A i, j \in 1 .. k : i < j => Behind(r, fs[i], fs[j])
  BY DEF Fits
<1> HIDE DEF f, s, gs, k
<1>f. f = fs[1]
  BY DEF f
<1>5. s.head < s.len /\ s.tail < s.len
  BY <1>1, <1>2
<1>6. ASSUME gs = <<>> PROVE s.tail = s.head
  <2>1. k = 1
    BY <1>3, <1>6
  <2>2. QED
    BY <2>1, <1>1, <1>2, <1>f
<1>7. ASSUME gs # <<>>
      PROVE  gs[1].base = Place(s, s.head, gs[1].len) /\ s.tail = Past(s, gs[Len(gs)].base, gs[Len(gs)].len)
  <2>1. k - 1 \in Nat \ {0}
    BY <1>3, <1>7
  <2>2. gs[1] = fs[2] /\ gs[k - 1] = fs[k]
    <3>1. 1 \in 1 .. k - 1 /\ k - 1 \in 1 .. k - 1 /\ k - 1 + 1 = k /\ 1 + 1 = 2
      BY <2>1, <1>3
    <3>2. QED
      BY <3>1, <1>3
  <2>3. Follows(r, f, fs[2])
    <3>1. 1 \in 1 .. k - 1 /\ 1 + 1 = 2
      BY <2>1, <1>3
    <3>2. Follows(r, fs[1], fs[1 + 1])
      BY <3>1, <1>4
    <3>3. QED
      BY <3>1, <3>2, <1>f
  <2>4. QED
    BY <2>2, <2>3, <1>1, <1>2, <1>3 DEF Follows, Place, Past
<1>8. ASSUME NEW i \in 1 .. Len(gs) PROVE End(gs[i]) <= s.len /\ Lies(s, gs[i])
  <2>1. i \in 1 .. k - 1 /\ i + 1 \in 1 .. k /\ 1 \in 1 .. k /\ 1 < i + 1
    BY <1>3
  <2> DEFINE g == fs[i + 1]
  <2>2. gs[i] = g /\ g \in FrameSet /\ End(g) <= r.len /\ Lies(r, g) /\ Behind(r, f, g)
    BY <2>1, <1>3, <1>4, <1>f
  <2> HIDE DEF g
  <2>3. Lies(s, g)
    BY <2>2, <1>1, <1>2, FreeLies
  <2>4. QED
    BY <2>2, <2>3, <1>2
<1>9. ASSUME NEW i \in 1 .. Len(gs) - 1 PROVE Follows(s, gs[i], gs[i + 1])
  <2>1. i \in 1 .. k - 1 /\ i + 1 \in 1 .. k - 1
    BY <1>3
  <2>2. gs[i] = fs[i + 1] /\ gs[i + 1] = fs[(i + 1) + 1]
    BY <2>1, <1>3
  <2>3. Follows(r, fs[i + 1], fs[(i + 1) + 1])
    BY <2>1, <1>4
  <2>4. QED
    BY <2>2, <2>3, <1>2, SameFollows
<1>10. ASSUME NEW i \in 1 .. Len(gs), NEW j \in 1 .. Len(gs), i < j
       PROVE  Behind(s, gs[i], gs[j])
  <2>1. /\ i \in 1 .. k - 1 /\ i + 1 \in 1 .. k /\ 1 \in 1 .. k /\ 1 < i + 1
        /\ j \in 1 .. k - 1 /\ j + 1 \in 1 .. k /\ 1 < j + 1 /\ i + 1 < j + 1
    BY <1>3, <1>10
  <2> DEFINE g == fs[i + 1]
             h == fs[j + 1]
  <2>2. gs[i] = g /\ g \in FrameSet /\ End(g) <= r.len /\ Lies(r, g) /\ Behind(r, f, g)
    BY <2>1, <1>3, <1>4, <1>f
  <2>3. gs[j] = h /\ h \in FrameSet /\ End(h) <= r.len /\ Lies(r, h) /\ Behind(r, f, h)
    BY <2>1, <1>3, <1>4, <1>f
  <2>4. Behind(r, g, h)
    BY <2>1, <1>4
  <2> HIDE DEF g, h
  <2>5. Behind(s, g, h)
    BY <2>2, <2>3, <2>4, <1>1, <1>2, FreeBehind
  <2>6. QED
    BY <2>2, <2>3, <2>5
<1>11. QED
  BY <1>5, <1>6, <1>7, <1>8, <1>9, <1>10 DEF Fits, s, gs, f
-----------------------------------------------------------------------------
(* Where alloc puts a frame: behind the tail or at the beginning, between  *)
(* the frames that are there.                                              *)
LEMMA AllocBase ==
  ASSUME NEW r \in Rings, NEW n \in Nat \ {0},
         r.head < r.len, r.tail < r.len, Base(r, n) # -1,
         r.size = 0 => r.tail = r.head
  PROVE  LET b == Base(r, n) IN
         \/ /\ b = r.tail /\ b + n <= r.len
            /\ r.head < r.tail \/ (r.size = 0 /\ r.head = r.tail)
         \/ /\ b = 0 /\ r.tail + n > r.len /\ n <= r.head
            /\ r.head < r.tail \/ (r.size = 0 /\ r.head = r.tail)
         \/ b = r.tail /\ r.tail + n <= r.head /\ r.head >= r.tail /\ r.size # 0
  BY DEF Base, Rings

LEMMA AllocNew ==
  ASSUME NEW r \in Rings, NEW s \in Rings, NEW x \in FrameSet,
         r.head < r.len, r.tail < r.len, Base(r, x.len) # -1,
         r.size = 0 => r.tail = r.head, x.base = Base(r, x.len),
         s.len = r.len, s.head = r.head, s.tail = Past(r, x.base, x.len)
  PROVE  /\ End(x) <= s.len /\ Lies(s, x)
         /\ s.tail < s.len
         /\ x.base = Place(r, r.tail, x.len)
<1>1. /\ x.len \in Nat \ {0} /\ x.base \in Nat /\ r.len \in Nat \ {0}
      /\ r.head \in Nat /\ r.tail \in Nat
  BY DEF FrameSet, Rings
<1>2. QED
  BY <1>1, AllocBase DEF End, Lies, Place, Past

LEMMA AllocLies ==
  ASSUME NEW r \in Rings, NEW s \in Rings, NEW x \in FrameSet, NEW f \in FrameSet,
         r.head < r.len, r.tail < r.len, Base(r, x.len) # -1,
         r.size # 0, x.base = Base(r, x.len),
         s.len = r.len, s.head = r.head, s.tail = Past(r, x.base, x.len),
         Lies(r, f), End(f) <= r.len
  PROVE  Lies(s, f) /\ Behind(s, f, x)
<1>1. /\ x.len \in Nat \ {0} /\ x.base \in Nat /\ r.len \in Nat \ {0}
      /\ r.head \in Nat /\ r.tail \in Nat
      /\ f.len \in Nat \ {0} /\ f.base \in Nat
  BY DEF FrameSet, Rings
<1>2. QED
  BY <1>1, AllocBase DEF End, Lies, Place, Past, Behind

LEMMA AllocBehind ==
  ASSUME NEW r \in Rings, NEW s \in Rings, NEW x \in FrameSet,
         NEW f \in FrameSet, NEW g \in FrameSet,
         r.head < r.len, r.tail < r.len, Base(r, x.len) # -1,
         r.size # 0, x.base = Base(r, x.len),
         s.len = r.len, s.head = r.head, s.tail = Past(r, x.base, x.len),
         Lies(r, f), End(f) <= r.len, Lies(r, g), End(g) <= r.len, Behind(r, f, g)
  PROVE  Behind(s, f, g)
<1>1. /\ x.len \in Nat \ {0} /\ x.base \in Nat /\ r.len \in Nat \ {0}
      /\ r.head \in Nat /\ r.tail \in Nat
      /\ f.len \in Nat \ {0} /\ f.base \in Nat
      /\ g.len \in Nat \ {0} /\ g.base \in Nat
  BY DEF FrameSet, Rings
<1>2. QED
  BY <1>1, AllocBase DEF End, Lies, Place, Past, Behind

LEMMA Appends ==
  ASSUME NEW S, NEW fs \in Seq(S), NEW x \in S
  PROVE  /\ Len(fs) \in Nat
         /\ Append(fs, x) \in Seq(S) /\ Len(Append(fs, x)) = Len(fs) + 1
         /\ \A i \in 1 .. Len(fs) : Append(fs, x)[i] = fs[i] /\ fs[i] \in S
         /\ Append(fs, x)[Len(fs) + 1] = x
         /\ Append(fs, x) # <<>>
         /\ fs = <<>> <=> Len(fs) = 0
  OBVIOUS

(* A frame that found room fits in behind the others. *)
LEMMA AllocFits ==
  ASSUME NEW r \in Rings, NEW fs \in Seq(FrameSet), Fits(r, fs),
         r.size = 0 <=> fs = <<>>,
         NEW n \in Nat \ {0}, Base(r, n) # -1
  PROVE  Fits(Alloc(r, n), Append(fs, [base |-> Base(r, n), len |-> n]))
<1> DEFINE x == [base |-> Base(r, n), len |-> n]
           s == Alloc(r, n)
           gs == Append(fs, x)
           k == Len(fs)
<1>1. x \in FrameSet /\ x.base = Base(r, x.len) /\ x.len = n /\ Base(r, x.len) # -1
  BY BaseType DEF FrameSet
<1>2. /\ s \in Rings /\ s.len = r.len /\ s.head = r.head
      /\ s.tail = Past(r, x.base, x.len)
  BY AllocFields
<1>3. /\ k \in Nat /\ Len(gs) = k + 1
      /\ \A i \in 1 .. k : gs[i] = fs[i] /\ fs[i] \in FrameSet
      /\ gs[k + 1] = x /\ gs # <<>> /\ (fs = <<>> <=> k = 0)
  BY <1>1, Appends
<1>4. /\ r.head < r.len /\ r.tail < r.len
      /\ r.size = 0 => r.tail = r.head
      /\ \A i \in 1 .. k : End(fs[i]) <= r.len /\ Lies(r, fs[i])
      /\ \A i \in 1 .. k - 1 : Follows(r, fs[i], fs[i + 1])
      /\ \A i, j \in 1 .. k : i < j => Behind(r, fs[i], fs[j])
  BY DEF Fits
<1>5. k # 0 => /\ fs[1].base = Place(r, r.head, fs[1].len)
               /\ r.tail = Past(r, fs[k].base, fs[k].len)
  BY <1>3 DEF Fits
<1>6. k # 0 <=> r.size # 0
  BY <1>3
<1> HIDE DEF x, s, gs, k
<1>7. /\ End(x) <= s.len /\ Lies(s, x)
      /\ s.tail < s.len
      /\ x.base = Place(r, r.tail, x.len)
  BY <1>1, <1>2, <1>4, AllocNew
<1>8. s.head < s.len
  BY <1>2, <1>4
<1>9. gs[1].base = Place(s, s.head, gs[1].len) /\ s.tail = Past(s, gs[Len(gs)].base, gs[Len(gs)].len)
  <2>1. s.tail = Past(s, gs[Len(gs)].base, gs[Len(gs)].len)
    BY <1>2, <1>3 DEF Past
  <2>2. CASE k = 0
    <3>1. gs[1] = x /\ r.tail = r.head
      BY <2>2, <1>3, <1>4, <1>6
    <3>2. QED
      BY <3>1, <2>1, <1>2, <1>7 DEF Place
  <2>3. CASE k # 0
    <3>1. 1 \in 1 .. k
      BY <2>3, <1>3
    <3>2. gs[1] = fs[1]
      BY <3>1, <1>3
    <3>3. QED
      BY <3>2, <2>1, <2>3, <1>2, <1>5 DEF Place
  <2>4. QED
    BY <2>2, <2>3
<1>10. ASSUME NEW i \in 1 .. k
       PROVE  /\ gs[i] = fs[i] /\ fs[i] \in FrameSet /\ Lies(r, fs[i]) /\ End(fs[i]) <= r.len
              /\ r.size # 0
              /\ Lies(s, fs[i]) /\ Behind(s, fs[i], x)
  <2>1. /\ gs[i] = fs[i] /\ fs[i] \in FrameSet /\ Lies(r, fs[i]) /\ End(fs[i]) <= r.len
        /\ r.size # 0
    BY <1>3, <1>4, <1>6
  <2> DEFINE f == fs[i]
  <2> HIDE DEF f
  <2>2. f \in FrameSet /\ Lies(r, f) /\ End(f) <= r.len
    BY <2>1 DEF f
  <2>3. Lies(s, f) /\ Behind(s, f, x)
    BY <2>1, <2>2, <1>1, <1>2, <1>4, AllocLies
  <2>4. QED
    BY <2>1, <2>3 DEF f
<1>11. ASSUME NEW i \in 1 .. Len(gs) PROVE End(gs[i]) <= s.len /\ Lies(s, gs[i])
  <2>1. CASE i = k + 1
    BY <2>1, <1>3, <1>7
  <2>2. CASE i \in 1 .. k
    BY <2>2, <1>10, <1>2
  <2>3. QED
    BY <2>1, <2>2, <1>3
<1>12. ASSUME NEW i \in 1 .. Len(gs) - 1 PROVE Follows(s, gs[i], gs[i + 1])
  <2>0. i \in 1 .. k
    BY <1>3
  <2>1. CASE i = k
    <3>1. gs[i] = fs[k] /\ gs[i + 1] = x /\ r.tail = Past(r, fs[k].base, fs[k].len)
      BY <2>0, <2>1, <1>3, <1>5
    <3>2. QED
      BY <3>1, <1>2, <1>7 DEF Follows, Place, Past
  <2>2. CASE i \in 1 .. k - 1
    <3>1. i + 1 \in 1 .. k
      BY <2>2, <1>3
    <3>2. gs[i] = fs[i] /\ gs[i + 1] = fs[i + 1] /\ Follows(r, fs[i], fs[i + 1])
      BY <3>1, <2>0, <2>2, <1>3, <1>4
    <3>3. QED
      BY <3>2, <1>2, SameFollows
  <2>3. QED
    BY <2>0, <2>1, <2>2, <1>3
<1>13. ASSUME NEW i \in 1 .. Len(gs), NEW j \in 1 .. Len(gs), i < j
       PROVE  Behind(s, gs[i], gs[j])
  <2>0. i \in 1 .. k
    BY <1>3, <1>13
  <2>1. CASE j = k + 1
    BY <2>0, <2>1, <1>3, <1>10
  <2>2. CASE j \in 1 .. k
    <3> DEFINE f == fs[i]
               g == fs[j]
    <3>1. gs[i] = f /\ f \in FrameSet /\ Lies(r, f) /\ End(f) <= r.len
      BY <2>0, <1>10
    <3>2. gs[j] = g /\ g \in FrameSet /\ Lies(r, g) /\ End(g) <= r.len /\ r.size # 0
      BY <2>2, <1>10
    <3>3. Behind(r, f, g)
      BY <2>0, <2>2, <1>4, <1>13
    <3> HIDE DEF f, g
    <3>4. Behind(s, f, g)
      BY <3>1, <3>2, <3>3, <1>1, <1>2, <1>4, AllocBehind
    <3>5. QED
      BY <3>1, <3>2, <3>4
  <2>3. QED
    BY <2>1, <2>2, <1>3
<1>14. QED
  BY <1>3, <1>7, <1>8, <1>9, <1>11, <1>12, <1>13 DEF Fits, s, gs, x
-----------------------------------------------------------------------------
(* Frames that fit overlap nowhere. *)
LEMMA BehindApart ==
  ASSUME NEW r \in Rings, NEW f \in FrameSet, NEW g \in FrameSet,
         Lies(r, f), Lies(r, g), Behind(r, f, g)
  PROVE  Bytes(f) \cap Bytes(g) = {}
<1>1. /\ f.len \in Nat \ {0} /\ f.base \in Nat /\ g.len \in Nat \ {0} /\ g.base \in Nat
      /\ r.head \in Nat /\ r.tail \in Nat
  BY DEF FrameSet, Rings
<1>2. End(f) <= g.base \/ End(g) <= f.base
  BY <1>1 DEF Behind, End
<1>3. QED
  BY <1>1, <1>2 DEF Bytes, End

LEMMA Apart ==
  ASSUME NEW r \in Rings, NEW fs \in Seq(FrameSet), Fits(r, fs),
         NEW i \in 1 .. Len(fs), NEW j \in 1 .. Len(fs), i # j
  PROVE  Bytes(fs[i]) \cap Bytes(fs[j]) = {}
<1>1. /\ fs[i] \in FrameSet /\ fs[j] \in FrameSet
      /\ Lies(r, fs[i]) /\ Lies(r, fs[j])
  BY DEF Fits
<1>2. CASE i < j
  <2>1. Behind(r, fs[i], fs[j])
    BY <1>2 DEF Fits
  <2>2. QED
    BY <1>1, <2>1, BehindApart
<1>3. CASE j < i
  <2>1. Behind(r, fs[j], fs[i])
    BY <1>3 DEF Fits
  <2>2. Bytes(fs[j]) \cap Bytes(fs[i]) = {}
    BY <1>1, <2>1, BehindApart
  <2>3. QED
    BY <2>2
<1>4. QED
  BY <1>2, <1>3

LEMMA Interval ==
  ASSUME NEW a \in Int, NEW b \in Int, a <= b + 1
  PROVE  IsFiniteSet(a .. b) /\ Cardinality(a .. b) = b - a + 1
<1>1. IsFiniteSet(a .. b) /\ Cardinality(a .. b) = IF a > b THEN 0 ELSE b - a + 1
  BY FS_Interval
<1>2. QED
  BY <1>1

LEMMA BytesOf ==
  ASSUME NEW f \in FrameSet
  PROVE  /\ IsFiniteSet(Bytes(f)) /\ Cardinality(Bytes(f)) = f.len
         /\ f.base + 1 \in Bytes(f)
<1>1. f.base \in Nat /\ f.len \in Nat \ {0}
  BY DEF FrameSet
<1>2. f.base + 1 \in Int /\ f.base + f.len \in Int /\ f.base + 1 <= (f.base + f.len) + 1
      /\ f.base + f.len - (f.base + 1) + 1 = f.len
  BY <1>1
<1> DEFINE a == f.base + 1
           b == f.base + f.len
<1>3. a \in Int /\ b \in Int /\ a <= b + 1 /\ b - a + 1 = f.len
  BY <1>1, <1>2
<1>7. Bytes(f) = a .. b
  BY DEF Bytes
<1>4. f.base + 1 \in Bytes(f)
  BY <1>1 DEF Bytes
<1> HIDE DEF a, b
<1>5. IsFiniteSet(a .. b) /\ Cardinality(a .. b) = b - a + 1
  BY <1>3, Interval
<1>6. QED
  BY <1>3, <1>4, <1>5, <1>7

(* What the frames occupy is a part of the ring. *)
LEMMA OccupiedFinite ==
  ASSUME NEW r \in Rings, NEW fs \in Seq(FrameSet), Fits(r, fs)
  PROVE  /\ Occupied(fs) \subseteq 1 .. r.len
         /\ IsFiniteSet(Occupied(fs))
         /\ Cardinality(Occupied(fs)) \in 0 .. r.len
         /\ Cardinality(Occupied(fs)) = 0 <=> fs = <<>>
<1>1. r.len \in Nat
  BY DEF Rings
<1>2. ASSUME NEW i \in 1 .. Len(fs) PROVE Bytes(fs[i]) \subseteq 1 .. r.len /\ Bytes(fs[i]) # {}
  <2>1. fs[i] \in FrameSet /\ End(fs[i]) <= r.len
    BY DEF Fits
  <2>2. fs[i].base \in Nat /\ fs[i].len \in Nat \ {0}
    BY <2>1 DEF FrameSet
  <2>3. QED
    BY <2>1, <2>2, <1>1, BytesOf DEF Bytes, End
<1>3. Occupied(fs) \subseteq 1 .. r.len
  BY <1>2 DEF Occupied
<1>4. IsFiniteSet(1 .. r.len) /\ Cardinality(1 .. r.len) <= r.len
  <2> DEFINE a == 1
             b == r.len
  <2>1. a \in Int /\ b \in Int /\ a <= b + 1 /\ b - a + 1 = r.len
    BY <1>1
  <2> HIDE DEF a, b
  <2>2. IsFiniteSet(a .. b) /\ Cardinality(a .. b) = b - a + 1
    BY <2>1, Interval
  <2>3. QED
    BY <1>1, <2>1, <2>2 DEF a, b
<1>5. IsFiniteSet(Occupied(fs)) /\ Cardinality(Occupied(fs)) <= Cardinality(1 .. r.len)
  BY <1>3, <1>4, FS_Subset
<1>6. Cardinality(Occupied(fs)) \in Nat /\ Cardinality(1 .. r.len) \in Nat
  BY <1>4, <1>5, FS_CardinalityType
<1>7. Occupied(fs) = {} <=> fs = <<>>
  <2>1. CASE fs = <<>>
    BY <2>1 DEF Occupied
  <2>2. CASE fs # <<>>
    <3>1. 1 \in 1 .. Len(fs)
      BY <2>2, Tails
    <3>2. Bytes(fs[1]) # {} /\ Bytes(fs[1]) \subseteq Occupied(fs)
      BY <3>1, <1>2 DEF Occupied
    <3>3. QED
      BY <3>2, <2>2
  <2>3. QED
    BY <2>1, <2>2
<1>8. QED
  BY <1>1, <1>3, <1>4, <1>5, <1>6, <1>7, FS_EmptySet

LEMMA FreeCounts ==
  ASSUME NEW r \in Rings, NEW fs \in Seq(FrameSet), fs # <<>>, Fits(r, fs), Counts(r, fs)
  PROVE  Counts(Free(r, fs[1].len), Tail(fs))
<1> DEFINE f == fs[1]
           gs == Tail(fs)
<1>1. f \in FrameSet /\ gs \in Seq(FrameSet)
  BY Tails
<1>2. f.len \in Nat
  BY <1>1 DEF FrameSet
<1>3. Free(r, f.len) \in Rings /\ Free(r, f.len).size = r.size - f.len
  BY <1>2, FreeFields
<1>4. Fits(Free(r, f.len), gs)
  BY FreeFits
<1>5. IsFiniteSet(Occupied(gs)) /\ IsFiniteSet(Bytes(f)) /\ Cardinality(Bytes(f)) = f.len
      /\ Cardinality(Occupied(gs)) \in Int
  <2>1. IsFiniteSet(Bytes(f)) /\ Cardinality(Bytes(f)) = f.len
    BY <1>1, BytesOf
  <2> DEFINE q == Free(r, f.len)
  <2>2. q \in Rings /\ Fits(q, gs)
    BY <1>3, <1>4
  <2> HIDE DEF q, gs
  <2>3. IsFiniteSet(Occupied(gs)) /\ Cardinality(Occupied(gs)) \in 0 .. q.len /\ q.len \in Nat
    BY <1>1, <2>2, OccupiedFinite DEF Rings
  <2>4. QED
    BY <2>1, <2>3
<1>6. Occupied(fs) = Bytes(f) \cup Occupied(gs) /\ Bytes(f) \cap Occupied(gs) = {}
  <2>1. /\ Len(fs) \in Nat \ {0} /\ 1 \in 1 .. Len(fs) /\ Len(gs) = Len(fs) - 1
        /\ \A i \in 1 .. Len(gs) : i + 1 \in 1 .. Len(fs) /\ gs[i] = fs[i + 1]
    BY Tails
  <2>2. \A i \in 1 .. Len(fs) : i = 1 \/ (i - 1 \in 1 .. Len(gs) /\ fs[i] = gs[i - 1])
    BY <2>1
  <2>3. \A i \in 1 .. Len(gs) : Bytes(f) \cap Bytes(gs[i]) = {}
    <3>1. TAKE i \in 1 .. Len(gs)
    <3>2. i + 1 \in 1 .. Len(fs) /\ gs[i] = fs[i + 1] /\ i + 1 # 1
      BY <2>1
    <3>3. QED
      BY <2>1, <3>2, Apart
  <2>4. Occupied(gs) \subseteq Occupied(fs) /\ Bytes(f) \subseteq Occupied(fs)
    BY <2>1 DEF Occupied
  <2>5. Occupied(fs) \subseteq Bytes(f) \cup Occupied(gs)
    BY <2>2 DEF Occupied
  <2>6. Bytes(f) \cap Occupied(gs) = {}
    BY <2>3 DEF Occupied
  <2>7. QED
    BY <2>4, <2>5, <2>6
<1> HIDE DEF f, gs
<1>7. Cardinality(Occupied(fs)) = f.len + Cardinality(Occupied(gs)) - 0
  BY <1>5, <1>6, FS_Union, FS_EmptySet
<1>8. Cardinality(Occupied(gs)) = r.size - f.len
  BY <1>2, <1>5, <1>7 DEF Counts
<1>9. QED
  BY <1>3, <1>8 DEF Counts, f, gs

LEMMA AllocCounts ==
  ASSUME NEW r \in Rings, NEW fs \in Seq(FrameSet), Fits(r, fs), Counts(r, fs),
         NEW n \in Nat \ {0}, Base(r, n) # -1
  PROVE  Counts(Alloc(r, n), Append(fs, [base |-> Base(r, n), len |-> n]))
<1> DEFINE x == [base |-> Base(r, n), len |-> n]
           gs == Append(fs, x)
           k == Len(fs)
<1>1. x \in FrameSet /\ x.len = n
  BY BaseType DEF FrameSet
<1>2. Alloc(r, n) \in Rings /\ Alloc(r, n).size = r.size + n
  BY AllocFields
<1>3. r.size = 0 <=> fs = <<>>
  BY OccupiedFinite DEF Counts
<1>4. Fits(Alloc(r, n), gs)
  BY <1>3, AllocFits
<1>5. /\ k \in Nat /\ Len(gs) = k + 1 /\ gs \in Seq(FrameSet)
      /\ \A i \in 1 .. k : gs[i] = fs[i]
      /\ gs[k + 1] = x
  BY <1>1, Appends
<1>6. IsFiniteSet(Occupied(fs)) /\ IsFiniteSet(Bytes(x)) /\ Cardinality(Bytes(x)) = n
      /\ Cardinality(Occupied(fs)) \in Int
  BY <1>1, OccupiedFinite, BytesOf
<1> HIDE DEF x, gs, k
<1>k. k = Len(fs)
  BY DEF k
<1>7. Occupied(gs) = Occupied(fs) \cup Bytes(x) /\ Occupied(fs) \cap Bytes(x) = {}
  <2>1. \A i \in 1 .. Len(gs) : i = k + 1 \/ i \in 1 .. k
    BY <1>5
  <2>2. \A i \in 1 .. k : Bytes(fs[i]) \cap Bytes(x) = {}
    <3>1. TAKE i \in 1 .. k
    <3>2. i \in 1 .. Len(gs) /\ k + 1 \in 1 .. Len(gs) /\ i # k + 1
      BY <1>5
    <3>3. QED
      BY <3>2, <1>2, <1>4, <1>5, Apart
  <2>3. \A i \in 1 .. k : i \in 1 .. Len(gs) /\ k + 1 \in 1 .. Len(gs)
    BY <1>5
  <2>4. Occupied(gs) \subseteq Occupied(fs) \cup Bytes(x)
    BY <2>1, <1>5, <1>k DEF Occupied
  <2>5. Occupied(fs) \subseteq Occupied(gs)
    BY <2>3, <1>5, <1>k DEF Occupied
  <2>6. Bytes(x) \subseteq Occupied(gs)
    <3>1. k + 1 \in 1 .. Len(gs)
      BY <1>5
    <3>2. QED
      BY <3>1, <1>5 DEF Occupied
  <2>7. Occupied(fs) \cap Bytes(x) = {}
    BY <2>2, <1>k DEF Occupied
  <2>8. QED
    BY <2>4, <2>5, <2>6, <2>7
<1>8. Cardinality(Occupied(gs)) = Cardinality(Occupied(fs)) + n - 0
  BY <1>6, <1>7, FS_Union, FS_EmptySet
<1>9. QED
  BY <1>2, <1>6, <1>8 DEF Counts, x, gs
-----------------------------------------------------------------------------
(* The types, without the bounds that only the layout gives. *)
ShapeInv ==
  /\ len \in Nat /\ head \in Nat /\ tail \in Nat /\ size \in Int
  /\ memory \in [1 .. len -> Pictures \cup {"none"}]
  /\ frames \in Seq([base : Nat, len : Lengths]) /\ Len(frames) <= CacheNum
  /\ flen \in Lengths /\ least \in Lengths \cup {0} /\ grew \in BOOLEAN
  /\ shown \in Seq(Pictures \cup {"torn"})
  /\ crashed \in BOOLEAN

FitsInv ==
  IF len = 0 THEN head = 0 /\ tail = 0 /\ size = 0 /\ frames = <<>>
             ELSE Fits(Ring, frames) /\ Counts(Ring, frames)

Kept == IF Full THEN Tail(frames) ELSE frames

(* The ring in which push looks for room. *)
Room == Sized(Squeezed)

LEMMA RingType ==
  ASSUME ShapeInv, len # 0
  PROVE  Ring \in Rings
  BY DEF ShapeInv, Ring, Rings

LEMMA FrameTypes ==
  ASSUME NEW fs \in Seq([base : Nat, len : Lengths])
  PROVE  /\ fs \in Seq(FrameSet)
         /\ \A i \in 1 .. Len(fs) : fs[i].len \in Lengths /\ fs[i].len \in Nat \ {0}
<1>1. [base : Nat, len : Lengths] \subseteq FrameSet
  BY FrameAssumption DEF FrameSet
<1>2. fs \in Seq(FrameSet)
  BY <1>1, SeqMonotonic
<1>3. \A i \in 1 .. Len(fs) : fs[i] \in [base : Nat, len : Lengths]
  BY ElementOfSeq
<1>4. QED
  BY <1>2, <1>3, FrameAssumption

LEMMA RingOf ==
  ASSUME NEW s \in Rings, SetRing(s)
  PROVE  Ring' = s
<1>1. len' = s.len /\ head' = s.head /\ tail' = s.tail /\ size' = s.size
  BY DEF SetRing
<1>2. Ring' = [len |-> s.len, head |-> s.head, tail |-> s.tail, size |-> s.size]
  BY <1>1 DEF Ring
<1>3. s = [len |-> s.len, head |-> s.head, tail |-> s.tail, size |-> s.size]
  BY DEF Rings
<1>4. QED
  BY <1>2, <1>3

LEMMA FlenType == 
  ASSUME ShapeInv
  PROVE  flen \in Nat \ {0} /\ CacheNum \in Nat \ {0} /\ flen * CacheNum \in Nat \ {0}
<1>1. flen \in Nat \ {0} /\ CacheNum \in Nat \ {0}
  BY FrameAssumption DEF ShapeInv
<1>2. ASSUME NEW a \in Nat \ {0}, NEW b \in Nat \ {0} PROVE a * b \in Nat \ {0}
  OBVIOUS
<1>3. QED
  BY <1>1, <1>2

LEMMA RoomFits ==
  ASSUME ShapeInv, FitsInv
  PROVE  /\ Room \in Rings /\ Room.len = IF len = 0 THEN flen * CacheNum ELSE len
         /\ Kept \in Seq([base : Nat, len : Lengths]) /\ Len(Kept) < CacheNum
         /\ Fits(Room, Kept) /\ Counts(Room, Kept)
<1>1. CacheNum \in Nat \ {0} /\ frames \in Seq([base : Nat, len : Lengths]) /\ Len(frames) <= CacheNum
  BY FrameAssumption DEF ShapeInv
<1>2. CASE len = 0
  <2> DEFINE n == flen * CacheNum
  <2>1. n \in Nat \ {0}
    BY FlenType
  <2>2. frames = <<>> /\ Len(frames) = 0 /\ ~Full /\ head = 0 /\ tail = 0 /\ size = 0
    BY <1>1, <1>2 DEF FitsInv, Full
  <2>3. Kept = <<>> /\ Squeezed = Ring
    BY <2>2 DEF Kept, Squeezed
  <2>4. Room = [len |-> n, head |-> 0, tail |-> 0, size |-> 0]
    BY <2>2, <2>3, <1>2 DEF Room, Sized, Ring
  <2> HIDE DEF n
  <2>5. Room \in Rings /\ Room.len = n /\ Room.head = 0 /\ Room.tail = 0 /\ Room.size = 0
    BY <2>1, <2>4 DEF Rings
  <2>6. Occupied(<<>>) = {}
    BY DEF Occupied
  <2>7. Counts(Room, Kept)
    BY <2>3, <2>5, <2>6, FS_EmptySet DEF Counts
  <2>8. Fits(Room, Kept)
    BY <2>1, <2>3, <2>5 DEF Fits
  <2>9. QED
    BY <1>1, <1>2, <2>2, <2>3, <2>5, <2>7, <2>8 DEF n
<1>3. CASE len # 0
  <2>1. /\ Ring \in Rings /\ Ring.len = len /\ Fits(Ring, frames) /\ Counts(Ring, frames)
    BY <1>3, RingType DEF FitsInv, Ring
  <2>2. Squeezed.len = len => Room = Squeezed
    BY <1>3 DEF Room, Sized
  <2>3. CASE ~Full
    <3>1. Squeezed = Ring /\ Kept = frames /\ Len(frames) < CacheNum
      BY <2>3, <1>1 DEF Squeezed, Kept, Full
    <3>2. QED
      BY <3>1, <2>1, <2>2, <1>1, <1>3
  <2>4. CASE Full
    <3>1. Squeezed = Free(Ring, frames[1].len) /\ Kept = Tail(frames) /\ Len(frames) >= CacheNum
      BY <2>4 DEF Squeezed, Kept, Full
    <3>2. frames # <<>> /\ frames \in Seq(FrameSet)
      <4>1. frames \in Seq(FrameSet)
        BY <1>1, FrameTypes
      <4>2. QED
        BY <4>1, <3>1, <1>1
    <3>3. frames[1].len \in Nat
      BY <3>2, <1>1, Tails, FrameTypes
    <3>4. /\ Squeezed \in Rings /\ Squeezed.len = len
      BY <3>1, <3>3, <2>1, FreeFields
    <3>5. Fits(Squeezed, Kept) /\ Counts(Squeezed, Kept)
      BY <3>1, <3>2, <2>1, FreeFits, FreeCounts
    <3>6. Kept \in Seq([base : Nat, len : Lengths]) /\ Len(Kept) < CacheNum
      BY <3>1, <3>2, <1>1, Tails
    <3>7. QED
      BY <3>4, <3>5, <3>6, <2>2, <1>3
  <2>5. QED
    BY <2>3, <2>4
<1>4. QED
  BY <1>2, <1>3
-----------------------------------------------------------------------------
PictureIn(m, f) ==
  IF \E p \in Pictures : \A b \in Bytes(f) : m[b] = p THEN m[f.base + 1] ELSE "torn"

Seen(m, fs) == [i \in 1 .. Len(fs) |-> PictureIn(m, fs[i])]

Fresh == [base |-> Base(Room, flen), len |-> flen]

Written(p) ==
  [b \in 1 .. Room.len |-> IF b \in Bytes(Fresh) THEN p
                           ELSE IF len = 0 THEN "none" ELSE memory[b]]

LEMMA PushFound ==
  ASSUME ShapeInv, FitsInv, Push, Base(Room, flen) # -1
  PROVE  /\ Ring' = Alloc(Room, flen) /\ Ring' \in Rings /\ Ring'.len = Room.len
         /\ len' = Room.len /\ head' = Ring'.head /\ tail' = Ring'.tail /\ size' = Ring'.size
         /\ frames' = Append(Kept, Fresh)
         /\ \E p \in Pictures : memory' = Written(p)
         /\ UNCHANGED <<flen, shown, crashed>>
<1>1. Room \in Rings /\ flen \in Nat
  BY RoomFits, FlenType
<1>2. /\ Alloc(Room, flen) \in Rings /\ Alloc(Room, flen).len = Room.len
  BY <1>1, AllocFields
<1>3. /\ SetRing(Alloc(Room, flen))
      /\ frames' = Append(Kept, Fresh)
      /\ \E p \in Pictures : memory' = Written(p)
      /\ UNCHANGED <<flen, shown, crashed>>
  BY DEF Push, Room, Kept, Fresh, Written, Bytes
<1>4. Ring' = Alloc(Room, flen)
  BY <1>2, <1>3, RingOf
<1>5. QED
  BY <1>2, <1>3, <1>4 DEF SetRing

LEMMA PushHistory ==
  ASSUME ShapeInv, FitsInv, Push
  PROVE  /\ least' \in Lengths \cup {0} /\ grew' \in BOOLEAN
         /\ least' = IF least = 0 \/ flen < least THEN flen ELSE least
         /\ ~grew' => ~grew /\ flen <= least' /\ flen * CacheNum <= Room.len
         /\ Base(Room, flen) = -1 => crashed' = TRUE /\ UNCHANGED <<len, head, tail, size, memory, frames, flen, shown>>
<1>1. /\ least' = IF least = 0 \/ flen < least THEN flen ELSE least
      /\ grew' = (grew \/ flen > least' \/ flen * CacheNum > Room.len)
  BY DEF Push, Room
<1>2. flen \in Nat /\ flen \in Lengths /\ least \in Lengths \cup {0} /\ least \in Nat
  BY FrameAssumption DEF ShapeInv
<1>3. least' \in Nat /\ least' \in Lengths \cup {0}
  BY <1>1, <1>2
<1>6. Room.len \in Int /\ flen * CacheNum \in Int
  BY RoomFits, FlenType DEF Rings
<1>7. grew' \in BOOLEAN /\ (~grew' => ~grew /\ ~(flen > least') /\ ~(flen * CacheNum > Room.len))
  BY <1>1, Zenon
<1>8. ~grew' => ~grew /\ flen <= least' /\ flen * CacheNum <= Room.len
  BY <1>2, <1>3, <1>6, <1>7
<1>4. Base(Room, flen) = -1 => crashed' = TRUE /\ UNCHANGED <<len, head, tail, size, memory, frames, flen, shown>>
  BY DEF Push, Room, ringVars
<1>5. QED
  BY <1>1, <1>3, <1>4, <1>7, <1>8

LEMMA SamePicture ==
  ASSUME NEW f \in FrameSet, NEW m, NEW q, \A b \in Bytes(f) : m[b] = q[b]
  PROVE  PictureIn(m, f) = PictureIn(q, f)
<1>1. m[f.base + 1] = q[f.base + 1]
  BY BytesOf
<1>2. (\E p \in Pictures : \A b \in Bytes(f) : m[b] = p) <=> (\E p \in Pictures : \A b \in Bytes(f) : q[b] = p)
  OBVIOUS
<1>3. QED
  BY <1>1, <1>2 DEF PictureIn

LEMMA PictureType ==
  ASSUME NEW f \in FrameSet, NEW m
  PROVE  PictureIn(m, f) \in Pictures \cup {"torn"}
  BY BytesOf DEF PictureIn

LEMMA FreshPicture ==
  ASSUME NEW f \in FrameSet, NEW m, NEW p \in Pictures, \A b \in Bytes(f) : m[b] = p
  PROVE  PictureIn(m, f) = p
  BY BytesOf DEF PictureIn

LEMMA FreshType ==
  ASSUME ShapeInv, FitsInv, Base(Room, flen) # -1
  PROVE  /\ Fresh \in FrameSet /\ Fresh \in [base : Nat, len : Lengths]
         /\ Kept \in Seq(FrameSet)
         /\ Room.size = 0 <=> Kept = <<>>
         /\ Fits(Alloc(Room, flen), Append(Kept, Fresh))
         /\ Counts(Alloc(Room, flen), Append(Kept, Fresh))
         /\ Append(Kept, Fresh) \in Seq([base : Nat, len : Lengths])
         /\ Append(Kept, Fresh) \in Seq(FrameSet)
         /\ Len(Append(Kept, Fresh)) = Len(Kept) + 1 /\ Len(Kept) + 1 <= CacheNum
<1>1. /\ Room \in Rings /\ Kept \in Seq([base : Nat, len : Lengths]) /\ Len(Kept) < CacheNum
      /\ Fits(Room, Kept) /\ Counts(Room, Kept)
  BY RoomFits
<1>2. /\ flen \in Nat \ {0} /\ flen \in Lengths /\ CacheNum \in Nat
  BY FlenType DEF ShapeInv
<1>3. Base(Room, flen) \in Nat
  BY <1>1, <1>2, BaseType
<1>4. Fresh \in FrameSet /\ Fresh \in [base : Nat, len : Lengths]
  BY <1>2, <1>3 DEF Fresh, FrameSet
<1>5. Kept \in Seq(FrameSet)
  BY <1>1, FrameTypes
<1>6. Room.size = 0 <=> Kept = <<>>
  BY <1>1, <1>5, OccupiedFinite DEF Counts
<1>7. Fits(Alloc(Room, flen), Append(Kept, Fresh))
  BY <1>1, <1>2, <1>5, <1>6, AllocFits DEF Fresh
<1>8. Counts(Alloc(Room, flen), Append(Kept, Fresh))
  BY <1>1, <1>2, <1>5, AllocCounts DEF Fresh
<1>9. Append(Kept, Fresh) \in Seq([base : Nat, len : Lengths]) /\ Len(Append(Kept, Fresh)) = Len(Kept) + 1
  BY <1>1, <1>4, AppendProperties
<1>10. Append(Kept, Fresh) \in Seq(FrameSet)
  BY <1>9, FrameTypes
<1>11. Len(Kept) + 1 <= CacheNum
  BY <1>1, <1>2
<1>12. QED
  BY <1>4, <1>5, <1>6, <1>7, <1>8, <1>9, <1>10, <1>11

(* A push leaves the pictures that are kept as they were, and adds one.    *)
LEMMA PushSeen ==
  ASSUME ShapeInv, FitsInv, Base(Room, flen) # -1, NEW p \in Pictures
  PROVE  /\ PictureIn(Written(p), Fresh) = p
         /\ \A i \in 1 .. Len(Kept) : PictureIn(Written(p), Kept[i]) = PictureIn(memory, Kept[i])
<1> DEFINE s == Alloc(Room, flen)
           gs == Append(Kept, Fresh)
           k == Len(Kept)
           m == Written(p)
<1>1. /\ Room \in Rings /\ Room.len = IF len = 0 THEN flen * CacheNum ELSE len
      /\ flen \in Nat
  BY RoomFits, FlenType
<1>2. s \in Rings /\ s.len = Room.len /\ Room.len \in Nat
  BY <1>1, AllocFields DEF Rings
<1>3. /\ Fresh \in FrameSet /\ Kept \in Seq(FrameSet) /\ Fits(s, gs) /\ gs \in Seq(FrameSet)
  BY FreshType
<1>4. /\ k \in Nat /\ Len(gs) = k + 1
      /\ \A i \in 1 .. k : gs[i] = Kept[i] /\ Kept[i] \in FrameSet
      /\ gs[k + 1] = Fresh
  BY <1>3, Appends
<1>5. ASSUME NEW i \in 1 .. Len(gs)
      PROVE  gs[i] \in FrameSet /\ Bytes(gs[i]) \subseteq 1 .. Room.len
  <2>1. gs[i] \in FrameSet
    BY <1>3, ElementOfSeq
  <2>2. End(gs[i]) <= s.len
    BY <1>3 DEF Fits
  <2>3. gs[i].base \in Nat /\ gs[i].len \in Nat
    BY <2>1 DEF FrameSet
  <2>4. QED
    BY SMTT(30), <2>1, <2>2, <2>3, <1>2 DEF Bytes, End
<1>6. m = [b \in 1 .. Room.len |-> IF b \in Bytes(Fresh) THEN p
                                   ELSE IF len = 0 THEN "none" ELSE memory[b]]
  BY DEF Written
<1> HIDE DEF s, gs, k, m
<1>7. PictureIn(m, Fresh) = p
  <2>1. Bytes(Fresh) \subseteq 1 .. Room.len
    <3>1. k + 1 \in 1 .. Len(gs)
      BY <1>4
    <3>2. QED
      BY <3>1, <1>4, <1>5
  <2>2. \A b \in Bytes(Fresh) : m[b] = p
    BY <2>1, <1>6
  <2>3. QED
    BY <2>2, <1>3, FreshPicture
<1>8. ASSUME NEW i \in 1 .. k
      PROVE  PictureIn(m, Kept[i]) = PictureIn(memory, Kept[i])
  <2>1. i \in 1 .. Len(gs) /\ k + 1 \in 1 .. Len(gs) /\ i # k + 1
    BY <1>4
  <2>2. Bytes(Kept[i]) \cap Bytes(Fresh) = {}
    BY <2>1, <1>2, <1>3, <1>4, Apart
  <2>3. Bytes(Kept[i]) \subseteq 1 .. Room.len /\ Kept[i] \in FrameSet
    BY <2>1, <1>4, <1>5
  <2>4. len # 0
    <3>1. Kept # <<>>
      BY <1>4 DEF k
    <3>2. len = 0 => frames = <<>> /\ CacheNum \in Nat \ {0}
      BY FrameAssumption DEF FitsInv
    <3>3. QED
      BY <3>1, <3>2 DEF Kept, Full
  <2>5. \A b \in Bytes(Kept[i]) : m[b] = memory[b]
    BY <2>2, <2>3, <2>4, <1>6
  <2>6. QED
    BY <2>3, <2>5, SamePicture
<1>9. QED
  BY <1>7, <1>8 DEF m, k
-----------------------------------------------------------------------------
LEMMA PopRing ==
  ASSUME ShapeInv, FitsInv, Pop
  PROVE  /\ Ring' = Free(Ring, frames[1].len) /\ Ring \in Rings /\ Ring' \in Rings
         /\ len' = len /\ len # 0 /\ head' = Ring'.head /\ tail' = Ring'.tail /\ size' = Ring'.size
         /\ frames # <<>> /\ frames' = Tail(frames) /\ frames \in Seq(FrameSet)
         /\ Fits(Ring, frames) /\ Fits(Ring', frames') /\ Counts(Ring', frames')
<1>1. /\ len # 0 /\ frames # <<>> /\ frames' = Tail(frames)
      /\ SetRing(Free(Ring, frames[1].len))
  BY DEF Pop
<1>2. frames \in Seq(FrameSet) /\ Ring \in Rings /\ Ring.len = len /\ Fits(Ring, frames) /\ Counts(Ring, frames)
  BY <1>1, FrameTypes, RingType DEF ShapeInv, FitsInv, Ring
<1>3. frames[1].len \in Nat
  <2>1. frames[1] \in FrameSet
    BY <1>1, <1>2, Tails
  <2>2. QED
    BY <2>1 DEF FrameSet
<1>4. Free(Ring, frames[1].len) \in Rings /\ Free(Ring, frames[1].len).len = len
  BY <1>2, <1>3, FreeFields
<1>5. Ring' = Free(Ring, frames[1].len)
  BY <1>1, <1>4, RingOf
<1>6. Fits(Ring', frames') /\ Counts(Ring', frames')
  BY <1>1, <1>2, <1>5, FreeFits, FreeCounts
<1>7. QED
  BY <1>1, <1>2, <1>4, <1>5, <1>6 DEF SetRing

LEMMA EmptyFits ==
  ASSUME NEW r \in Rings, r.head = 0, r.tail = 0, r.size = 0
  PROVE  Fits(r, <<>>) /\ Counts(r, <<>>)
<1>1. Occupied(<<>>) = {}
  BY DEF Occupied
<1>2. QED
  BY <1>1, FS_EmptySet DEF Fits, Counts, Rings

LEMMA WrittenType ==
  ASSUME ShapeInv, FitsInv, NEW p \in Pictures
  PROVE  Written(p) \in [1 .. Room.len -> Pictures \cup {"none"}]
<1>1. len # 0 => Room.len = len
  BY RoomFits
<1>2. memory \in [1 .. len -> Pictures \cup {"none"}]
  BY DEF ShapeInv
<1>3. QED
  BY <1>1, <1>2 DEF Written

LEMMA InitRing == Init => ShapeInv /\ FitsInv
<1> SUFFICES ASSUME Init PROVE ShapeInv /\ FitsInv
  OBVIOUS
<1>1. /\ len = 0 /\ head = 0 /\ tail = 0 /\ size = 0 /\ memory = <<>> /\ frames = <<>>
      /\ flen \in Lengths /\ least = 0 /\ grew = FALSE /\ shown = <<>> /\ crashed = FALSE
  BY DEF Init
<1>2. memory \in [1 .. len -> Pictures \cup {"none"}] /\ shown \in Seq(Pictures \cup {"torn"})
  BY <1>1
<1>3. frames \in Seq([base : Nat, len : Lengths]) /\ Len(frames) <= CacheNum
  BY <1>1, EmptySeq, FrameAssumption
<1>4. FitsInv
  BY <1>1 DEF FitsInv
<1>7. least \in Lengths \cup {0} /\ grew \in BOOLEAN /\ crashed \in BOOLEAN /\ flen \in Lengths
  BY <1>1
<1>8. len \in Nat /\ head \in Nat /\ tail \in Nat /\ size \in Int
  BY <1>1
<1>5. ShapeInv
  BY <1>2, <1>3, <1>7, <1>8 DEF ShapeInv
<1>6. QED
  BY <1>4, <1>5

LEMMA NextRing ==
  ASSUME ShapeInv, FitsInv, [Next]_vars
  PROVE  ShapeInv' /\ FitsInv'
<1>1. CASE Push
  <2>1. /\ least' \in Lengths \cup {0} /\ grew' \in BOOLEAN
        /\ Base(Room, flen) = -1 => crashed' = TRUE /\ UNCHANGED <<len, head, tail, size, memory, frames, flen, shown>>
    BY <1>1, PushHistory
  <2>2. CASE Base(Room, flen) = -1
    <3>1. crashed' = TRUE /\ UNCHANGED <<len, head, tail, size, memory, frames, flen, shown>>
      BY <2>1, <2>2
    <3>2. ShapeInv'
      BY <2>1, <3>1 DEF ShapeInv
    <3>3. FitsInv'
      BY <3>1 DEF FitsInv, Ring
    <3>4. QED
      BY <3>2, <3>3
  <2>3. CASE Base(Room, flen) # -1
    <3>1. /\ Ring' = Alloc(Room, flen) /\ Ring' \in Rings /\ Ring'.len = Room.len
          /\ len' = Room.len /\ head' = Ring'.head /\ tail' = Ring'.tail /\ size' = Ring'.size
          /\ frames' = Append(Kept, Fresh)
          /\ \E p \in Pictures : memory' = Written(p)
          /\ UNCHANGED <<flen, shown, crashed>>
      BY <1>1, <2>3, PushFound
    <3>2. /\ Fits(Ring', frames') /\ Counts(Ring', frames')
          /\ frames' \in Seq([base : Nat, len : Lengths])
          /\ Len(frames') <= CacheNum
      BY <2>3, <3>1, FreshType
    <3>3. len' \in Nat \ {0} /\ head' \in Nat /\ tail' \in Nat /\ size' \in Int
      BY <3>1 DEF Rings
    <3>4. memory' \in [1 .. len' -> Pictures \cup {"none"}]
      BY <3>1, WrittenType
    <3>5. ShapeInv'
      BY <2>1, <3>1, <3>2, <3>3, <3>4 DEF ShapeInv
    <3>6. FitsInv'
      BY <3>2, <3>3 DEF FitsInv
    <3>7. QED
      BY <3>5, <3>6
  <2>4. QED
    BY <2>2, <2>3
<1>2. CASE Pop
  <2>1. /\ Ring' \in Rings /\ len' = len /\ len # 0
        /\ head' = Ring'.head /\ tail' = Ring'.tail /\ size' = Ring'.size
        /\ frames # <<>> /\ frames' = Tail(frames) /\ frames \in Seq(FrameSet)
        /\ Fits(Ring', frames') /\ Counts(Ring', frames')
    BY <1>2, PopRing
  <2>2. head' \in Nat /\ tail' \in Nat /\ size' \in Int
    BY <2>1 DEF Rings
  <2>3. frames' \in Seq([base : Nat, len : Lengths]) /\ Len(frames') <= CacheNum
    <3>1. frames \in Seq([base : Nat, len : Lengths]) /\ Len(frames) <= CacheNum /\ CacheNum \in Nat
      BY FrameAssumption DEF ShapeInv
    <3>2. QED
      BY <3>1, <2>1, Tails
  <2>4. shown' \in Seq(Pictures \cup {"torn"})
    <3>1. shown' = <<PictureIn(memory, frames[1])>>
      BY <1>2 DEF Pop, Picture, PictureIn
    <3>2. frames[1] \in FrameSet
      BY <2>1, Tails
    <3>3. PictureIn(memory, frames[1]) \in Pictures \cup {"torn"}
      BY <3>2, PictureType
    <3>4. QED
      BY <3>1, <3>3
  <2>5. UNCHANGED <<memory, flen, least, grew, crashed>>
    BY <1>2 DEF Pop
  <2>6. ShapeInv'
    BY <2>1, <2>2, <2>3, <2>4, <2>5 DEF ShapeInv
  <2>7. FitsInv'
    BY <2>1 DEF FitsInv
  <2>8. QED
    BY <2>6, <2>7
<1>3. CASE Clear
  <2>1. /\ len' = len /\ head' = 0 /\ tail' = 0 /\ size' = 0 /\ frames' = <<>>
        /\ least' = 0 /\ grew' = FALSE /\ UNCHANGED <<memory, flen, shown, crashed>>
    BY <1>3 DEF Clear
  <2>2. ShapeInv'
    <3>1. frames' \in Seq([base : Nat, len : Lengths]) /\ Len(frames') <= CacheNum
      BY <2>1, EmptySeq, FrameAssumption
    <3>2. least' \in Lengths \cup {0} /\ grew' \in BOOLEAN
      BY <2>1
    <3>3. len' \in Nat /\ head' \in Nat /\ tail' \in Nat /\ size' \in Int
      BY <2>1 DEF ShapeInv
    <3>4. QED
      BY <2>1, <3>1, <3>2, <3>3 DEF ShapeInv
  <2>3. CASE len = 0
    BY <2>1, <2>2, <2>3 DEF FitsInv
  <2>4. CASE len # 0
    <3>1. Ring' \in Rings /\ Ring'.head = 0 /\ Ring'.tail = 0 /\ Ring'.size = 0
      BY <2>1, <2>4 DEF ShapeInv, Ring, Rings
    <3>2. Fits(Ring', <<>>) /\ Counts(Ring', <<>>)
      BY <3>1, EmptyFits
    <3>3. QED
      BY <2>1, <2>2, <2>4, <3>2 DEF FitsInv
  <2>5. QED
    BY <2>2, <2>3, <2>4
<1>4. CASE NewSession \/ UNCHANGED vars
  <2>1. flen' \in Lengths /\ UNCHANGED <<len, head, tail, size, memory, frames, least, grew, shown, crashed>>
    BY <1>4 DEF NewSession, vars, ringVars, ShapeInv
  <2>2. QED
    BY <2>1 DEF ShapeInv, FitsInv, Ring
<1>5. QED
  BY <1>1, <1>2, <1>3, <1>4 DEF Next

(* Read from the head around the ring, a frame ends before the head comes  *)
(* again, and one behind another is further on.                            *)
LEMMA TurnRoom ==
  ASSUME NEW r \in Rings, NEW f \in FrameSet,
         r.head < r.len, r.tail < r.len, End(f) <= r.len, Lies(r, f)
  PROVE  Ahead(r, f.base) + f.len <= r.len
  BY DEF FrameSet, Rings, End, Lies, Ahead

LEMMA TurnOrder ==
  ASSUME NEW r \in Rings, NEW f \in FrameSet, NEW g \in FrameSet,
         r.head < r.len, r.tail < r.len, End(f) <= r.len, Lies(r, f),
         End(g) <= r.len, Lies(r, g), Behind(r, f, g)
  PROVE  Ahead(r, f.base) + f.len <= Ahead(r, g.base)
  BY DEF FrameSet, Rings, End, Lies, Behind, Ahead

LEMMA LayoutHolds ==
  ASSUME ShapeInv, FitsInv
  PROVE  RingInv
<1>1. CASE len = 0
  <2>1. frames = <<>> /\ head = 0 /\ tail = 0 /\ size = 0
    BY <1>1 DEF FitsInv
  <2>2. size = Cardinality(Occupied(frames))
    <3>1. Occupied(<<>>) = {}
      BY DEF Occupied
    <3>2. QED
      BY <2>1, <3>1, FS_EmptySet
  <2>3. QED
    BY <1>1, <2>1, <2>2 DEF RingInv, TypeOK, RingFits, ShapeInv
<1>2. CASE len # 0
  <2>1. /\ Ring \in Rings /\ frames \in Seq(FrameSet) /\ Fits(Ring, frames) /\ Counts(Ring, frames)
    BY <1>2, RingType, FrameTypes DEF FitsInv, ShapeInv
  <2>2. Ring.len = len /\ Ring.head = head /\ Ring.tail = tail /\ Ring.size = size
    BY DEF Ring
  <2>3. size = Cardinality(Occupied(frames)) /\ size \in 0 .. len
    BY <2>1, <2>2, OccupiedFinite DEF Counts
  <2>4. head <= len /\ tail <= len
    BY <2>1, <2>2 DEF Fits, ShapeInv
  <2>5. TypeOK
    BY <2>3, <2>4 DEF TypeOK, ShapeInv
  <2>6. frames # <<>> => Chained(Ring, frames)
    BY <2>1 DEF Fits, Follows, Chained
  <2>7. InOneTurn(Ring, frames)
    <3>1. ASSUME NEW i \in 1 .. Len(frames)
          PROVE  /\ frames[i].base + frames[i].len <= len
                 /\ Ahead(Ring, frames[i].base) + frames[i].len <= len
      BY <2>1, <2>2, ElementOfSeq, TurnRoom DEF Fits, End
    <3>2. ASSUME NEW i \in 1 .. Len(frames), NEW j \in 1 .. Len(frames), i < j
          PROVE  Ahead(Ring, frames[i].base) + frames[i].len <= Ahead(Ring, frames[j].base)
      BY <2>1, <3>2, ElementOfSeq, TurnOrder DEF Fits
    <3>3. QED
      BY <3>1, <3>2, <2>2 DEF InOneTurn
  <2>8. frames = <<>> => head = tail
    BY <2>1, <2>2 DEF Fits
  <2>9. RingFits
    BY <2>3, <2>6, <2>7, <2>8 DEF RingFits
  <2>10. QED
    BY <2>5, <2>9 DEF RingInv
<1>3. QED
  BY <1>1, <1>2

LEMMA LayoutAlways == Spec => [](ShapeInv /\ FitsInv)
<1>1. ShapeInv /\ FitsInv /\ [Next]_vars => (ShapeInv /\ FitsInv)'
  BY NextRing
<1>2. QED
  BY InitRing, <1>1, PTL DEF Spec

(* The ring counts the bytes of its frames and no gap, and they lie in it  *)
(* one behind the other from head to tail, in one turn and each in one     *)
(* piece, with a gap only where a frame did not fit before the end,        *)
(* whatever the lengths of the sessions are: HRingBuf::alloc and free      *)
(* under HFrameBuf.                                                        *)
THEOREM RingAlways == Spec => []RingInv
<1>1. ShapeInv /\ FitsInv => RingInv
  BY LayoutHolds
<1>2. QED
  BY LayoutAlways, <1>1, PTL
-----------------------------------------------------------------------------
LEMMA SeenNow ==
  /\ [i \in 1 .. Len(frames) |-> Picture(frames[i])] = Seen(memory, frames)
  /\ [i \in 1 .. Len(frames) |-> Picture(frames[i])]' = Seen(memory', frames')
  BY DEF Picture, PictureIn, Seen

LEMMA SeenSeq ==
  ASSUME NEW m, NEW fs \in Seq(FrameSet)
  PROVE  /\ Seen(m, fs) \in Seq(Pictures \cup {"torn"})
         /\ Len(Seen(m, fs)) = Len(fs)
         /\ \A i \in 1 .. Len(fs) : Seen(m, fs)[i] = PictureIn(m, fs[i])
<1>1. \A i \in 1 .. Len(fs) : PictureIn(m, fs[i]) \in Pictures \cup {"torn"}
  BY ElementOfSeq, PictureType
<1>2. Len(fs) \in Nat
  OBVIOUS
<1>3. QED
  BY <1>1, <1>2 DEF Seen

LEMMA SeenTail ==
  ASSUME NEW m, NEW fs \in Seq(FrameSet), fs # <<>>
  PROVE  Seen(m, Tail(fs)) = Tail(Seen(m, fs))
<1> DEFINE u == Seen(m, fs)
           v == Seen(m, Tail(fs))
           S == Pictures \cup {"torn"}
<1>1. /\ Len(fs) \in Nat \ {0} /\ Tail(fs) \in Seq(FrameSet) /\ Len(Tail(fs)) = Len(fs) - 1
      /\ \A i \in 1 .. Len(Tail(fs)) : i + 1 \in 1 .. Len(fs) /\ Tail(fs)[i] = fs[i + 1]
  BY Tails
<1>2. /\ u \in Seq(S) /\ Len(u) = Len(fs)
      /\ \A i \in 1 .. Len(fs) : u[i] = PictureIn(m, fs[i])
  BY SeenSeq
<1>3. /\ v \in Seq(S) /\ Len(v) = Len(fs) - 1
      /\ \A i \in 1 .. Len(fs) - 1 : v[i] = PictureIn(m, fs[i + 1])
  <2> DEFINE gs == Tail(fs)
  <2>1. gs \in Seq(FrameSet) /\ Len(gs) = Len(fs) - 1
        /\ \A i \in 1 .. Len(gs) : gs[i] = fs[i + 1]
    BY <1>1
  <2>2. v = Seen(m, gs)
    OBVIOUS
  <2> HIDE DEF gs, v
  <2>3. v \in Seq(S) /\ Len(v) = Len(gs) /\ \A i \in 1 .. Len(gs) : v[i] = PictureIn(m, gs[i])
    BY <2>1, <2>2, SeenSeq
  <2>4. QED
    BY <2>1, <2>3
<1> HIDE DEF u, v, S
<1>4. u # <<>>
  BY <1>1, <1>2
<1>5. /\ Tail(u) \in Seq(S) /\ Len(Tail(u)) = Len(fs) - 1
      /\ \A i \in 1 .. Len(fs) - 1 : Tail(u)[i] = u[i + 1]
  BY <1>2, <1>4, Tails
<1>6. \A i \in 1 .. Len(fs) - 1 : i + 1 \in 1 .. Len(fs)
  BY <1>1
<1>7. \A i \in 1 .. Len(v) : v[i] = Tail(u)[i]
  BY <1>2, <1>3, <1>5, <1>6
<1>8. v = Tail(u)
  BY <1>3, <1>5, <1>7, SeqEqual
<1>9. QED
  BY <1>8 DEF u, v

LEMMA SeenAppend ==
  ASSUME NEW m, NEW q, NEW fs \in Seq(FrameSet), NEW x \in FrameSet,
         \A i \in 1 .. Len(fs) : PictureIn(q, fs[i]) = PictureIn(m, fs[i])
  PROVE  Seen(q, Append(fs, x)) = Append(Seen(m, fs), PictureIn(q, x))
<1> DEFINE u == Seen(m, fs)
           gs == Append(fs, x)
           v == Seen(q, gs)
           p == PictureIn(q, x)
           S == Pictures \cup {"torn"}
           k == Len(fs)
<1>1. /\ k \in Nat /\ gs \in Seq(FrameSet) /\ Len(gs) = k + 1
      /\ \A i \in 1 .. k : gs[i] = fs[i]
      /\ gs[k + 1] = x
  BY Appends
<1>2. u \in Seq(S) /\ Len(u) = k /\ p \in S
      /\ \A i \in 1 .. k : u[i] = PictureIn(m, fs[i])
  BY SeenSeq, PictureType
<1>3. v \in Seq(S) /\ Len(v) = k + 1
      /\ \A i \in 1 .. k + 1 : v[i] = PictureIn(q, gs[i])
  BY <1>1, SeenSeq
<1>k. \A i \in 1 .. k : PictureIn(q, fs[i]) = PictureIn(m, fs[i])
  OBVIOUS
<1>p. p = PictureIn(q, x)
  OBVIOUS
<1> HIDE DEF u, gs, v, p, S, k
<1>4. /\ Append(u, p) \in Seq(S) /\ Len(Append(u, p)) = k + 1
      /\ \A i \in 1 .. k : Append(u, p)[i] = u[i]
      /\ Append(u, p)[k + 1] = p
  BY <1>2, Appends
<1>5. \A i \in 1 .. k : i \in 1 .. k + 1
  BY <1>1
<1>6. ASSUME NEW i \in 1 .. k + 1 PROVE v[i] = Append(u, p)[i]
  <2>1. CASE i = k + 1
    BY <2>1, <1>1, <1>3, <1>4, <1>p
  <2>2. CASE i \in 1 .. k
    BY <2>2, <1>1, <1>2, <1>3, <1>4, <1>k
  <2>3. i = k + 1 \/ i \in 1 .. k
    BY <1>1
  <2>4. QED
    BY <2>1, <2>2, <2>3
<1>7. v = Append(u, p)
  BY <1>3, <1>4, <1>6, SeqEqual
<1>8. QED
  BY <1>7 DEF u, v, gs, p

LEMMA InitCache == Init => Cache!Init
<1> SUFFICES ASSUME Init PROVE Cache!Init
  OBVIOUS
<1>1. frames = <<>> /\ shown = <<>>
  BY DEF Init
<1>2. [i \in 1 .. Len(frames) |-> Picture(frames[i])] = <<>>
  BY <1>1
<1>3. QED
  BY <1>1, <1>2 DEF Cache!Init

LEMMA NextCache ==
  ASSUME ShapeInv, FitsInv, [Next]_vars
  PROVE  [Cache!Put \/ Cache!Take \/ Cache!Clear]_(Cache!vars)
<1> DEFINE now == [i \in 1 .. Len(frames) |-> Picture(frames[i])]
<1>0. now = Seen(memory, frames) /\ now' = Seen(memory', frames')
  BY SeenNow
<1>s. frames \in Seq(FrameSet)
  BY FrameTypes DEF ShapeInv
<1>1. CASE Push
  <2>1. CASE Base(Room, flen) = -1
    <3>1. UNCHANGED <<memory, frames, shown>>
      BY <1>1, <2>1, PushHistory
    <3>2. now' = now /\ shown' = shown
      BY <1>0, <3>1
    <3>3. QED
      BY <3>2 DEF Cache!vars
  <2>2. CASE Base(Room, flen) # -1
    <3>1. /\ frames' = Append(Kept, Fresh)
          /\ \E p \in Pictures : memory' = Written(p)
          /\ shown' = shown
      BY <1>1, <2>2, PushFound
    <3>2. PICK p \in Pictures : memory' = Written(p)
      BY <3>1
    <3>3. Fresh \in FrameSet /\ Kept \in Seq(FrameSet)
      BY <2>2, FreshType
    <3>4. /\ PictureIn(Written(p), Fresh) = p
          /\ \A i \in 1 .. Len(Kept) : PictureIn(Written(p), Kept[i]) = PictureIn(memory, Kept[i])
      BY <2>2, PushSeen
    <3>5. now' = Append(Seen(memory, Kept), p)
      <4> DEFINE q == Written(p)
      <4>1. \A i \in 1 .. Len(Kept) : PictureIn(q, Kept[i]) = PictureIn(memory, Kept[i])
        BY <3>4
      <4>2. PictureIn(q, Fresh) = p /\ memory' = q
        BY <3>2, <3>4
      <4> HIDE DEF q
      <4>3. Seen(q, Append(Kept, Fresh)) = Append(Seen(memory, Kept), PictureIn(q, Fresh))
        BY <3>3, <4>1, SeenAppend
      <4>4. now' = Seen(q, Append(Kept, Fresh))
        BY <1>0, <3>1, <4>2
      <4>5. QED
        BY <4>2, <4>3, <4>4
    <3>6. Seen(memory, Kept) = IF Len(now) >= CacheNum THEN Tail(now) ELSE now
      <4>1. Len(now) = Len(frames)
        BY <1>0, <1>s, SeenSeq
      <4>2. Full => frames # <<>>
        BY <1>s, FrameAssumption DEF Full
      <4>3. Full => Seen(memory, Tail(frames)) = Tail(now)
        BY <4>2, <1>0, <1>s, SeenTail
      <4>4. QED
        BY <4>1, <4>3, <1>0 DEF Kept, Full
    <3>7. Cache!Put
      BY <3>1, <3>5, <3>6 DEF Cache!Put
    <3>8. QED
      BY <3>7
  <2>3. QED
    BY <2>1, <2>2
<1>2. CASE Pop
  <2>1. frames # <<>> /\ frames' = Tail(frames) /\ memory' = memory
        /\ shown' = <<Picture(frames[1])>>
    BY <1>2 DEF Pop
  <2>2. now # <<>> /\ Head(now) = Picture(frames[1])
    <3>1. /\ now \in Seq(Pictures \cup {"torn"}) /\ Len(now) = Len(frames)
      BY <1>0, <1>s, SeenSeq
    <3>2. 1 \in 1 .. Len(frames) /\ Len(frames) \in Nat \ {0}
      BY <1>s, <2>1, Tails
    <3>3. now[1] = Picture(frames[1])
      BY <3>2
    <3> HIDE DEF now
    <3>4. QED
      BY <3>1, <3>2, <3>3
  <2>3. now' = Tail(now)
    BY <2>1, <1>0, <1>s, SeenTail
  <2>4. Cache!Take
    BY <2>1, <2>2, <2>3 DEF Cache!Take
  <2>5. QED
    BY <2>4
<1>3. CASE Clear
  <2>1. frames' = <<>> /\ shown' = shown
    BY <1>3 DEF Clear
  <2>2. now' = <<>>
    BY <2>1
  <2>3. Cache!Clear
    BY <2>1, <2>2 DEF Cache!Clear
  <2>4. QED
    BY <2>3
<1>4. CASE NewSession \/ UNCHANGED vars
  <2>1. UNCHANGED <<memory, frames, shown>>
    BY <1>4 DEF NewSession, vars, ringVars
  <2>2. now' = now /\ shown' = shown
    BY <1>0, <2>1
  <2>3. QED
    BY <2>2 DEF Cache!vars
<1>5. QED
  BY <1>1, <1>2, <1>3, <1>4 DEF Next

(* What push, pop and clear do to the bytes of the ring is what they do to *)
(* a cache of pictures: none is overwritten by another, shown torn, shown  *)
(* twice or out of order, and only the oldest of a full cache is lost.     *)
THEOREM CacheImplemented == Spec => ImplementsCache
<1>1. ShapeInv /\ FitsInv /\ [Next]_vars
        => [Cache!Put \/ Cache!Take \/ Cache!Clear]_(Cache!vars)
  BY NextCache
<1>2. QED
  BY InitCache, LayoutAlways, <1>1, PTL DEF Spec, ImplementsCache, Cache!Spec
-----------------------------------------------------------------------------
(* In this turn around the ring, h frames have left it and t have come in. *)
(* The first k of those in it lie behind the head, the others at the       *)
(* beginning; none is longer than the one before it or shorter than l.     *)
(* So the head is at least h lengths from the beginning, of any of them    *)
(* and of one to come, and the tail at most t parts.                       *)
Laps(r, fs, h, t, k, l) ==
  /\ \A i, j \in 1 .. Len(fs) : i < j => fs[j].len <= fs[i].len
  /\ \A i \in 1 .. Len(fs) : l <= fs[i].len /\ h * fs[i].len <= r.head
  /\ h * l <= r.head
  /\ r.tail * CacheNum <= t * r.len
  /\ \/ k = Len(fs) /\ t = h + k /\ (r.head < r.tail \/ fs = <<>>)
     \/ /\ t = Len(fs) - k /\ h + k >= CacheNum /\ r.head >= r.tail /\ fs # <<>>
        /\ \A i \in 1 .. Len(fs) : IF i <= k THEN r.head <= fs[i].base ELSE End(fs[i]) <= r.tail
        /\ k < Len(fs) => r.tail <= t * fs[k + 1].len

LapsSome(r, fs, l) == \E h, t \in Nat, k \in 0 .. Len(fs) : Laps(r, fs, h, t, k, l)

LapInv ==
  len # 0 /\ ~grew =>
    /\ LapsSome(Ring, frames, least)
    /\ least = 0 => head = 0 /\ tail = 0 /\ frames = <<>>

LEMMA MulNext ==
  ASSUME NEW h \in Nat, NEW a \in Nat
  PROVE  (h + 1) * a = h * a + a /\ 0 * a = 0 /\ 1 * a = a /\ h * a \in Nat
  OBVIOUS

LEMMA MulMono ==
  ASSUME NEW h \in Nat, NEW a \in Nat, NEW b \in Nat, a <= b
  PROVE  h * a <= h * b
  OBVIOUS

LEMMA MulMonoLeft ==
  ASSUME NEW h \in Nat, NEW g \in Nat, NEW a \in Nat, h <= g
  PROVE  h * a <= g * a
  OBVIOUS

(* A tail that has no room for a part of the ring has come CacheNum parts. *)
LEMMA LapFull ==
  ASSUME NEW m \in Nat \ {0}, NEW c \in Nat \ {0}, NEW n \in Nat, NEW p \in Nat, NEW t \in Nat,
         p * c <= t * m, n * c <= m
  PROVE  /\ p + n = m => t + 1 >= c
         /\ p + n > m => t >= c
<1>1. ASSUME t + 2 <= c PROVE p + n < m
  <2>1. t * m + 2 * m <= c * m
    BY <1>1
  <2>2. (p + n) * c = p * c + n * c
    OBVIOUS
  <2>3. (p + n) * c < c * m
    BY <2>1, <2>2
  <2>4. QED
    BY <2>3
<1>2. ASSUME t + 1 <= c PROVE p + n <= m
  <2>1. t * m + m <= c * m
    BY <1>2
  <2>2. (p + n) * c = p * c + n * c
    OBVIOUS
  <2>3. (p + n) * c <= c * m
    BY <2>1, <2>2
  <2>4. QED
    BY <2>3
<1>3. QED
  BY <1>1, <1>2

LEMMA LapGap ==
  ASSUME NEW h \in Nat, NEW t \in Nat, NEW a \in Nat, NEW n \in Nat,
         NEW q \in Nat, NEW p \in Nat,
         t + 1 <= h, h * a <= q, p <= t * a, n <= a
  PROVE  p + n <= q
<1>1. (t + 1) * a = t * a + a /\ t * a \in Nat
  BY MulNext
<1>2. t + 1 \in Nat /\ h * a \in Nat /\ (t + 1) * a <= h * a
  BY MulMonoLeft
<1>3. QED
  BY <1>1, <1>2

LEMMA LapsFree ==
  ASSUME NEW r \in Rings, NEW fs \in Seq(FrameSet), fs # <<>>, Fits(r, fs),
         NEW h \in Nat, NEW t \in Nat, NEW k \in 0 .. Len(fs), NEW l \in Nat,
         Laps(r, fs, h, t, k, l)
  PROVE  LapsSome(Free(r, fs[1].len), Tail(fs), l)
<1> DEFINE f == fs[1]
           s == Free(r, f.len)
           gs == Tail(fs)
           m == Len(fs)
<1>1. /\ f \in FrameSet /\ f.len \in Nat /\ f.base \in Nat /\ f.len \in Nat \ {0}
      /\ r.head < r.len /\ r.tail < r.len /\ End(f) <= r.len /\ Lies(r, f)
      /\ f.base = Place(r, r.head, f.len)
      /\ r.tail = Past(r, fs[m].base, fs[m].len)
  <2>1. f \in FrameSet /\ 1 \in 1 .. Len(fs)
    BY Tails
  <2>2. f.len \in Nat /\ f.base \in Nat /\ f.len \in Nat \ {0}
    BY <2>1 DEF FrameSet
  <2>3. QED
    BY <2>1, <2>2 DEF Fits
<1>2. /\ s \in Rings /\ s.len = r.len /\ s.tail = r.tail
      /\ s.head = Past(r, f.base, f.len)
  BY <1>1, FreeFields, FreeHead
<1>3. /\ m \in Nat \ {0} /\ gs \in Seq(FrameSet) /\ Len(gs) = m - 1
      /\ \A i \in 1 .. m - 1 : i + 1 \in 1 .. m /\ gs[i] = fs[i + 1]
      /\ \A i \in 1 .. m : fs[i] \in FrameSet
  BY Tails
<1>e. gs = <<>> <=> m = 1
  <2> HIDE DEF gs, m
  <2>1. QED
    BY <1>3
<1>4. /\ \A i \in 2 .. m : End(fs[i]) <= r.len /\ Lies(r, fs[i]) /\ Behind(r, f, fs[i])
      /\ \A i \in 1 .. m : fs[i].base \in Nat /\ fs[i].len \in Nat \ {0}
  <2>1. \A i \in 2 .. m : i \in 1 .. m /\ 1 \in 1 .. m /\ 1 < i
    OBVIOUS
  <2>2. QED
    BY <2>1, <1>3 DEF Fits, FrameSet
<1>5. /\ \A i, j \in 1 .. m : i < j => fs[j].len <= fs[i].len
      /\ \A i \in 1 .. m : l <= fs[i].len /\ h * fs[i].len <= r.head
      /\ h * l <= r.head
      /\ r.tail * CacheNum <= t * r.len
      /\ \/ k = m /\ t = h + k /\ r.head < r.tail
         \/ /\ t = m - k /\ h + k >= CacheNum /\ r.head >= r.tail
            /\ \A i \in 1 .. m : IF i <= k THEN r.head <= fs[i].base ELSE End(fs[i]) <= r.tail
            /\ k < m => r.tail <= t * fs[k + 1].len
  BY DEF Laps
<1>6. r.len \in Nat /\ r.head \in Nat /\ r.tail \in Nat /\ k \in 0 .. m /\ CacheNum \in Nat
  BY FrameAssumption DEF Rings
<1>f. f = fs[1]
  OBVIOUS
<1>g. 1 \in 1 .. m /\ \A i \in 2 .. m : i \in 1 .. m
  BY <1>3
<1> HIDE DEF f, s, gs, m
<1>7. \A i, j \in 1 .. Len(gs) : i < j => gs[j].len <= gs[i].len
  <2>1. TAKE i, j \in 1 .. Len(gs)
  <2>2. HAVE i < j
  <2>3. i + 1 \in 1 .. m /\ j + 1 \in 1 .. m /\ i + 1 < j + 1 /\ gs[i] = fs[i + 1] /\ gs[j] = fs[j + 1]
    BY <2>2, <1>3
  <2>4. QED
    BY <2>3, <1>5
<1>8. \A i \in 1 .. Len(gs) : i + 1 \in 2 .. m /\ gs[i] = fs[i + 1] /\ l <= gs[i].len
  BY SMTT(30), <1>3, <1>5
<1>9. \A i \in 2 .. m : fs[i].len <= f.len
  BY <1>3, <1>5, <1>f
<1>10. \A i \in 1 .. Len(gs) : gs[i].len \in Nat /\ gs[i].len <= f.len /\ h * gs[i].len <= r.head
  BY <1>4, <1>5, <1>8, <1>9, <1>g
<1>l. l <= f.len
  BY <1>5, <1>f, <1>g
<1>m. s.tail * CacheNum <= t * s.len
  BY <1>2, <1>5
<1>11. ASSUME s.head = r.head + f.len
       PROVE  /\ \A i \in 1 .. Len(gs) : (h + 1) * gs[i].len <= s.head
              /\ (h + 1) * l <= s.head
  <2>1. ASSUME NEW a \in Nat, a <= f.len, h * a <= r.head PROVE (h + 1) * a <= s.head
    <3>1. (h + 1) * a = h * a + a /\ h * a \in Nat
      BY MulNext
    <3>2. QED
      BY <2>1, <3>1, <1>1, <1>6, <1>11
  <2>2. QED
    BY <2>1, <1>5, <1>10, <1>l
<1>12. CASE k = m /\ t = h + k /\ r.head < r.tail
  <2>1. f.base = r.head /\ End(f) <= r.tail /\ End(f) = r.head + f.len
    BY <1>1, <1>6, <1>12 DEF Lies, Place, End
  <2>2. s.head = r.head + f.len
    BY <2>1, <1>1, <1>2, <1>6 DEF Past, End
  <2>3. s.head < s.tail \/ gs = <<>>
    <3>1. CASE m = 1
      BY <3>1, <1>e
    <3>2. CASE m # 1
      <4>1. 2 \in 2 .. m
        BY <3>2, <1>3
      <4>2. Lies(r, fs[2]) /\ Behind(r, f, fs[2]) /\ fs[2].base \in Nat /\ fs[2].len \in Nat \ {0}
        BY <4>1, <1>4, <1>g
      <4> DEFINE g == fs[2]
      <4> HIDE DEF g
      <4>3. Lies(r, g) /\ Behind(r, f, g) /\ g.base \in Nat /\ g.len \in Nat \ {0}
        BY <4>2 DEF g
      <4>4. End(f) <= g.base /\ End(g) <= r.tail
        BY <4>3, <1>6, <1>12 DEF Lies, Behind
      <4>5. s.head < s.tail
        BY SMTT(30), <4>3, <4>4, <2>1, <2>2, <1>1, <1>2, <1>6 DEF End
      <4>6. QED
        BY <4>5
    <3>3. QED
      BY <3>1, <3>2
  <2>4. Laps(s, gs, h + 1, t, k - 1, l)
    <3>1. k - 1 = Len(gs) /\ t = (h + 1) + (k - 1)
      BY <1>3, <1>6, <1>12
    <3>2. QED
      BY <3>1, <2>2, <2>3, <1>7, <1>8, <1>11, <1>m DEF Laps
  <2>5. h + 1 \in Nat /\ k - 1 \in 0 .. Len(gs)
    BY <1>3, <1>6, <1>12
  <2>6. LapsSome(s, gs, l)
    BY <2>4, <2>5 DEF LapsSome
  <2>7. QED
    BY <2>6 DEF s, gs, f
<1>13. CASE /\ t = m - k /\ h + k >= CacheNum /\ r.head >= r.tail
            /\ \A i \in 1 .. m : IF i <= k THEN r.head <= fs[i].base ELSE End(fs[i]) <= r.tail
            /\ k < m => r.tail <= t * fs[k + 1].len
  <2>0. \A i \in 1 .. m : (i <= k => r.head <= fs[i].base) /\ (i > k => End(fs[i]) <= r.tail)
    BY <1>6, <1>13
  <2>1. CASE k = 0
    <3>1. End(f) <= r.tail
      BY <2>0, <2>1, <1>f, <1>g
    <3>2. f.base = 0 /\ s.head = f.len /\ f.len <= r.tail
      BY <3>1, <1>1, <1>2, <1>6, <1>13 DEF Place, Past, End
    <3>3. s.head < s.tail \/ gs = <<>>
      <4>1. CASE m = 1
        BY <4>1, <1>e
      <4>2. CASE m # 1
        <5>1. 2 \in 2 .. m /\ 2 \in 1 .. m
          BY <4>2, <1>3
        <5>2. End(fs[2]) <= r.tail /\ Behind(r, f, fs[2]) /\ fs[2].base \in Nat /\ fs[2].len \in Nat \ {0}
          BY <5>1, <2>0, <2>1, <1>4
        <5>3. QED
          BY SMTT(30), <5>2, <3>2, <1>1, <1>2, <1>6, <1>13 DEF Behind, End
      <4>3. QED
        BY <4>1, <4>2
    <3>4. \A i \in 1 .. Len(gs) : 1 * gs[i].len <= s.head
      BY <3>2, <1>10
    <3>5. 1 * l <= s.head
      BY <3>2, <1>l
    <3>6. Laps(s, gs, 1, t, m - 1, l)
      <4>1. m - 1 = Len(gs) /\ t = 1 + (m - 1)
        BY <1>3, <1>13, <2>1
      <4>2. QED
        BY <4>1, <3>3, <3>4, <3>5, <1>7, <1>8, <1>m DEF Laps
    <3>7. 1 \in Nat /\ m - 1 \in 0 .. Len(gs)
      BY <1>3
    <3>8. LapsSome(s, gs, l)
      BY <3>6, <3>7 DEF LapsSome
    <3>9. QED
      BY <3>8 DEF s, gs, f
  <2>2. CASE k # 0
    <3>1. k \in 1 .. m /\ r.head <= f.base
      BY <2>0, <2>2, <1>6, <1>f, <1>g
    <3>2. f.base = r.head
      BY <3>1, <1>1, <1>6 DEF Place
    <3>3. CASE End(f) = r.len
      <4>1. s.head = 0
        BY <3>3, <1>1, <1>2 DEF Past, End
      <4>2. k = 1
        <5>1. CASE k = 1
          BY <5>1
        <5>2. CASE k # 1
          <6>1. 2 \in 2 .. m /\ 2 \in 1 .. m /\ 2 <= k
            BY <5>2, <3>1, <1>3
          <6>2. /\ r.head <= fs[2].base /\ Behind(r, f, fs[2]) /\ End(fs[2]) <= r.len
                /\ fs[2].base \in Nat /\ fs[2].len \in Nat \ {0}
            BY <6>1, <2>0, <1>4
          <6>3. QED
            BY SMTT(30), <6>2, <3>3, <1>1, <1>6, <1>13 DEF Behind, End
        <5>3. QED
          BY <5>1, <5>2
      <4>3. s.head < s.tail \/ gs = <<>>
        <5>1. CASE m = 1
          BY <5>1, <1>e
        <5>2. CASE m # 1
          <6>1. 2 \in 1 .. m /\ 2 > k
            BY <5>2, <4>2, <1>3
          <6>2. End(fs[2]) <= r.tail /\ fs[2].base \in Nat /\ fs[2].len \in Nat \ {0}
            BY <6>1, <2>0, <1>4
          <6>3. QED
            BY SMTT(30), <6>2, <4>1, <1>2, <1>6 DEF End
        <5>3. QED
          BY <5>1, <5>2
      <4>4. /\ \A i \in 1 .. Len(gs) : 0 * gs[i].len <= s.head
            /\ 0 * l <= s.head
        BY <4>1, <1>10
      <4>5. Laps(s, gs, 0, t, m - 1, l)
        <5>1. m - 1 = Len(gs) /\ t = 0 + (m - 1)
          BY <1>3, <1>13, <4>2
        <5>2. QED
          BY <5>1, <4>3, <4>4, <1>7, <1>8, <1>m DEF Laps
      <4>6. 0 \in Nat /\ m - 1 \in 0 .. Len(gs)
        BY <1>3
      <4>7. LapsSome(s, gs, l)
        BY <4>5, <4>6 DEF LapsSome
      <4>8. QED
        BY <4>7 DEF s, gs, f
    <3>4. CASE End(f) # r.len
      <4>1. s.head = r.head + f.len /\ s.head = End(f)
        BY <3>2, <3>4, <1>1, <1>2, <1>6 DEF Past, End
      <4>2. gs # <<>>
        <5>1. m = 1 => r.tail = End(f)
          BY <3>4, <1>1, <1>f DEF Past, End
        <5>2. QED
          BY <5>1, <4>1, <1>1, <1>e, <1>6, <1>13
      <4>3. \A i \in 1 .. Len(gs) : IF i <= k - 1 THEN s.head <= gs[i].base ELSE End(gs[i]) <= s.tail
        <5>1. TAKE i \in 1 .. Len(gs)
        <5>2. i + 1 \in 2 .. m /\ i + 1 \in 1 .. m /\ gs[i] = fs[i + 1] /\ i \in Nat
          BY <1>8, <1>g
        <5>3. CASE i <= k - 1
          <6>1. i + 1 <= k
            BY <5>2, <5>3, <1>6
          <6>2. /\ r.head <= gs[i].base /\ Behind(r, f, gs[i]) /\ gs[i].base \in Nat
                /\ gs[i].len \in Nat \ {0}
            BY <5>2, <6>1, <2>0, <1>4
          <6>3. s.head <= gs[i].base
            BY SMTT(30), <6>2, <4>1, <1>1, <1>6, <1>13 DEF Behind, End
          <6>4. QED
            BY <6>3, <5>3
        <5>4. CASE ~(i <= k - 1)
          <6>1. i + 1 > k
            BY <5>2, <5>4, <1>6
          <6>2. End(gs[i]) <= s.tail
            BY <5>2, <6>1, <2>0, <1>2
          <6>3. QED
            BY <6>2, <5>4
        <5>5. QED
          BY <5>3, <5>4
      <4>4. k - 1 < Len(gs) => s.tail <= t * gs[(k - 1) + 1].len
        <5>1. k - 1 < Len(gs) => k \in 1 .. Len(gs) /\ k < m /\ (k - 1) + 1 = k
          BY <3>1, <1>3
        <5>2. k - 1 < Len(gs) => gs[k] = fs[k + 1]
          BY <5>1, <1>8
        <5>3. QED
          BY <5>1, <5>2, <1>2, <1>13
      <4>5. s.head >= s.tail
        BY <4>1, <1>1, <1>2, <1>6, <1>13
      <4>6. t = Len(gs) - (k - 1) /\ (h + 1) + (k - 1) >= CacheNum
        BY <3>1, <1>3, <1>6, <1>13
      <4>7. Laps(s, gs, h + 1, t, k - 1, l)
        BY <4>1, <4>2, <4>3, <4>4, <4>5, <4>6, <1>7, <1>8, <1>11, <1>m DEF Laps
      <4>8. h + 1 \in Nat /\ k - 1 \in 0 .. Len(gs)
        BY <3>1, <1>3
      <4>9. LapsSome(s, gs, l)
        BY <4>7, <4>8 DEF LapsSome
      <4>10. QED
        BY <4>9 DEF s, gs, f
    <3>5. QED
      BY <3>3, <3>4
  <2>3. QED
    BY <2>1, <2>2
<1>14. QED
  BY <1>5, <1>12, <1>13
-----------------------------------------------------------------------------
LEMMA LapOne ==
  ASSUME NEW h \in Nat, NEW n \in Nat, NEW q \in Nat, h >= 1, h * n <= q
  PROVE  n <= q
<1>1. (h - 1) * n + n = h * n /\ (h - 1) * n \in Nat
  <2>1. h - 1 \in Nat /\ (h - 1) + 1 = h
    OBVIOUS
  <2>2. QED
    BY <2>1, MulNext
<1>2. QED
  BY <1>1

(* A frame no longer than those there, and no longer than a part, has room. *)
LEMMA LapsRoom ==
  ASSUME NEW r \in Rings, NEW fs \in Seq(FrameSet), Fits(r, fs),
         r.size = 0 <=> fs = <<>>, Len(fs) < CacheNum,
         NEW n \in Nat \ {0}, n * CacheNum <= r.len,
         NEW h \in Nat, NEW t \in Nat, NEW k \in 0 .. Len(fs), Laps(r, fs, h, t, k, n)
  PROVE  Base(r, n) # -1
<1> DEFINE m == Len(fs)
<1>1. /\ r.len \in Nat \ {0} /\ r.head \in Nat /\ r.tail \in Nat /\ m \in Nat /\ k \in 0 .. m
      /\ CacheNum \in Nat \ {0} /\ r.head < r.len /\ r.tail < r.len
      /\ fs = <<>> => r.tail = r.head
      /\ m < CacheNum
  BY FrameAssumption DEF Rings, Fits
<1>2. /\ h * n <= r.head
      /\ r.tail * CacheNum <= t * r.len
      /\ \A i \in 1 .. m : n <= fs[i].len /\ h * fs[i].len <= r.head /\ fs[i].len \in Nat
      /\ \/ k = m /\ t = h + k /\ (r.head < r.tail \/ fs = <<>>)
         \/ /\ t = m - k /\ h + k >= CacheNum /\ r.head >= r.tail /\ fs # <<>>
            /\ k < m => r.tail <= t * fs[k + 1].len
  <2>1. \A i \in 1 .. m : fs[i] \in FrameSet
    BY ElementOfSeq
  <2>2. QED
    BY <2>1 DEF Laps, FrameSet
<1>3. r.tail + n > r.len => t >= CacheNum
  BY <1>1, <1>2, LapFull
<1> HIDE DEF m
<1>4. CASE k = m /\ t = h + k /\ (r.head < r.tail \/ fs = <<>>)
  <2>1. r.tail + n > r.len => h >= 1
    BY <1>1, <1>3, <1>4
  <2>2. h >= 1 => n <= r.head
    BY <1>1, <1>2, LapOne
  <2>3. r.tail + n <= r.len \/ n <= r.head
    BY <2>1, <2>2, <1>1
  <2>4. r.head < r.tail \/ r.size = 0
    BY <1>4
  <2>5. QED
    BY <2>3, <2>4, <1>1 DEF Base
<1>5. CASE /\ t = m - k /\ h + k >= CacheNum /\ r.head >= r.tail /\ fs # <<>>
           /\ k < m => r.tail <= t * fs[k + 1].len
  <2>1. t + 1 <= h
    BY <1>1, <1>5
  <2>2. r.tail + n <= r.head
    <3>1. CASE k < m
      <4> DEFINE a == fs[k + 1].len
      <4>1. k + 1 \in 1 .. m
        BY <3>1, <1>1
      <4>2. a \in Nat /\ n <= a /\ h * a <= r.head /\ r.tail <= t * a
        BY <4>1, <3>1, <1>2, <1>5
      <4> HIDE DEF a
      <4>3. QED
        BY <4>2, <2>1, <1>1, LapGap
    <3>2. CASE k = m
      <4>1. t = 0
        BY <3>2, <1>1, <1>5
      <4>2. r.tail * CacheNum <= 0
        BY <4>1, <1>1, <1>2, MulNext
      <4>3. r.tail = 0
        <5>1. r.tail * 1 <= r.tail * CacheNum
          BY <1>1, MulMono
        <5>2. QED
          BY <4>2, <5>1, <1>1
      <4>4. n <= r.head
        <5>1. h >= 1 /\ h * n <= r.head /\ r.head \in Nat
          BY <4>1, <2>1, <1>1, <1>2
        <5>2. QED
          BY <5>1, LapOne
      <4>5. QED
        BY <4>3, <4>4, <1>1
    <3>3. QED
      BY <3>1, <3>2, <1>1
  <2>3. ~(r.head < r.tail \/ r.size = 0)
    BY <1>1, <1>5
  <2>4. QED
    BY <2>2, <2>3, <1>1 DEF Base
<1>6. QED
  BY <1>2, <1>4, <1>5

LEMMA LapsAlloc ==
  ASSUME NEW r \in Rings, NEW fs \in Seq(FrameSet), Fits(r, fs),
         r.size = 0 <=> fs = <<>>, Len(fs) < CacheNum,
         NEW n \in Nat \ {0}, n * CacheNum <= r.len,
         NEW h \in Nat, NEW t \in Nat, NEW k \in 0 .. Len(fs), Laps(r, fs, h, t, k, n),
         Base(r, n) # -1
  PROVE  LapsSome(Alloc(r, n), Append(fs, [base |-> Base(r, n), len |-> n]), n)
<1> DEFINE x == [base |-> Base(r, n), len |-> n]
           s == Alloc(r, n)
           gs == Append(fs, x)
           m == Len(fs)
           b == Base(r, n)
<1>1. /\ r.len \in Nat \ {0} /\ r.head \in Nat /\ r.tail \in Nat /\ m \in Nat /\ k \in 0 .. m
      /\ CacheNum \in Nat \ {0} /\ r.head < r.len /\ r.tail < r.len
      /\ fs = <<>> => r.tail = r.head
      /\ m < CacheNum
  BY FrameAssumption DEF Rings, Fits
<1>2. /\ h * n <= r.head
      /\ r.tail * CacheNum <= t * r.len
      /\ \A i \in 1 .. m : n <= fs[i].len /\ h * fs[i].len <= r.head
      /\ \A i, j \in 1 .. m : i < j => fs[j].len <= fs[i].len
      /\ \/ k = m /\ t = h + k /\ (r.head < r.tail \/ fs = <<>>)
         \/ /\ t = m - k /\ h + k >= CacheNum /\ r.head >= r.tail /\ fs # <<>>
            /\ \A i \in 1 .. m : IF i <= k THEN r.head <= fs[i].base ELSE End(fs[i]) <= r.tail
            /\ k < m => r.tail <= t * fs[k + 1].len
  BY DEF Laps
<1>3. \A i \in 1 .. m : fs[i].len \in Nat \ {0} /\ fs[i].base \in Nat /\ Lies(r, fs[i])
  <2>1. \A i \in 1 .. m : fs[i] \in FrameSet
    BY ElementOfSeq
  <2>2. QED
    BY <2>1 DEF FrameSet, Fits
<1>4. x \in FrameSet /\ x.base = b /\ x.len = n /\ b \in Nat
  BY BaseType DEF FrameSet
<1>5. /\ Len(gs) = m + 1
      /\ \A i \in 1 .. m : gs[i] = fs[i]
      /\ gs[m + 1] = x /\ gs # <<>>
  BY <1>4, Appends
<1>6. s \in Rings /\ s.len = r.len /\ s.head = r.head /\ s.tail = Past(r, b, n)
  BY AllocFields
<1>7. /\ r.tail + n = r.len => t + 1 >= CacheNum
      /\ r.tail + n > r.len => t >= CacheNum
  BY <1>1, <1>2, LapFull
<1>8. \/ /\ b = r.tail /\ b + n <= r.len
         /\ r.head < r.tail \/ fs = <<>>
      \/ /\ b = 0 /\ r.tail + n > r.len /\ n <= r.head
         /\ r.head < r.tail \/ fs = <<>>
      \/ b = r.tail /\ r.tail + n <= r.head /\ r.head >= r.tail /\ fs # <<>>
  <2>1. r.size = 0 => r.tail = r.head
    BY <1>1
  <2>2. QED
    BY <2>1, <1>1, AllocBase
<1>9. \A i \in 1 .. Len(gs) : i = m + 1 \/ i \in 1 .. m
  BY <1>1, <1>5
<1> HIDE DEF x, s, gs, m, b
<1>10. \A i, j \in 1 .. Len(gs) : i < j => gs[j].len <= gs[i].len
  <2>1. TAKE i, j \in 1 .. Len(gs)
  <2>2. HAVE i < j
  <2>3. i \in 1 .. m
    BY <2>2, <1>1, <1>5
  <2>4. CASE j = m + 1
    BY <2>3, <2>4, <1>2, <1>4, <1>5
  <2>5. CASE j \in 1 .. m
    BY <2>2, <2>3, <2>5, <1>2, <1>5
  <2>6. QED
    BY <2>4, <2>5, <1>9
<1>11. \A i \in 1 .. Len(gs) : n <= gs[i].len /\ h * gs[i].len <= s.head
  <2>1. TAKE i \in 1 .. Len(gs)
  <2>2. CASE i = m + 1
    BY <2>2, <1>2, <1>4, <1>5, <1>6
  <2>3. CASE i \in 1 .. m
    BY <2>3, <1>2, <1>5, <1>6
  <2>4. QED
    BY <2>2, <2>3, <1>9
<1>12. h * n <= s.head
  BY <1>2, <1>6
<1>13. ASSUME s.tail = r.tail + n PROVE s.tail * CacheNum <= (t + 1) * s.len
  <2>1. (r.tail + n) * CacheNum = r.tail * CacheNum + n * CacheNum
    BY <1>1
  <2>2. (t + 1) * r.len = t * r.len + r.len
    BY <1>1, MulNext
  <2>3. r.tail * CacheNum \in Int /\ n * CacheNum \in Int /\ t * r.len \in Int
    BY <1>1
  <2> DEFINE u == r.tail * CacheNum
             v == n * CacheNum
             w == t * r.len
  <2>4. u <= w /\ v <= r.len /\ u \in Int /\ v \in Int /\ w \in Int
    BY <2>3, <1>2
  <2>5. s.tail * CacheNum = u + v /\ (t + 1) * s.len = w + r.len
    BY <2>1, <2>2, <1>6, <1>13
  <2> HIDE DEF u, v, w
  <2>6. QED
    BY <2>4, <2>5, <1>1
<1>14. CASE k = m /\ t = h + k /\ (r.head < r.tail \/ fs = <<>>)
  <2>1. \A i \in 1 .. m : r.head <= fs[i].base
    <3>1. \A i \in 1 .. m : fs # <<>>
      BY DEF m
    <3>2. QED
      BY SMTT(30), <3>1, <1>1, <1>3, <1>14 DEF Lies
  <2>2. CASE b = r.tail /\ b + n < r.len
    <3>1. s.tail = r.tail + n /\ s.head < s.tail
      BY <2>2, <1>1, <1>6, <1>14 DEF Past
    <3>2. Laps(s, gs, h, t + 1, k + 1, n)
      <4>1. k + 1 = Len(gs) /\ t + 1 = h + (k + 1)
        BY <1>1, <1>5, <1>14
      <4>2. QED
        BY <4>1, <3>1, <1>10, <1>11, <1>12, <1>13 DEF Laps
    <3>3. t + 1 \in Nat /\ k + 1 \in 0 .. Len(gs)
      BY <1>1, <1>5
    <3>4. QED
      BY <3>2, <3>3 DEF LapsSome, gs, x, s, b
  <2>3. CASE b = r.tail /\ b + n = r.len
    <3>1. s.tail = 0 /\ t + 1 >= CacheNum
      BY <2>3, <1>6, <1>7 DEF Past
    <3>2. \A i \in 1 .. Len(gs) : i <= k + 1 /\ s.head <= gs[i].base
      <4>1. TAKE i \in 1 .. Len(gs)
      <4>2. i <= k + 1
        BY <1>1, <1>5, <1>14
      <4>3. CASE i = m + 1
        BY <4>2, <4>3, <2>3, <1>1, <1>4, <1>5, <1>6, <1>14
      <4>4. CASE i \in 1 .. m
        BY <4>2, <4>4, <2>1, <1>5, <1>6
      <4>5. QED
        BY <4>3, <4>4, <1>9
    <3>3. Laps(s, gs, h, 0, k + 1, n)
      <4>1. k + 1 = Len(gs) /\ 0 = Len(gs) - (k + 1) /\ h + (k + 1) >= CacheNum
        BY <3>1, <1>1, <1>5, <1>14
      <4>2. s.tail * CacheNum <= 0 * s.len
        BY <3>1, <1>1, <1>6
      <4>3. s.head >= s.tail
        BY <3>1, <1>1, <1>6
      <4>4. ~(k + 1 < Len(gs))
        BY <4>1, <1>1
      <4>5. QED
        BY <4>1, <4>2, <4>3, <4>4, <3>2, <1>5, <1>10, <1>11, <1>12 DEF Laps
    <3>4. 0 \in Nat /\ k + 1 \in 0 .. Len(gs)
      BY <1>1, <1>5
    <3>5. QED
      BY <3>3, <3>4 DEF LapsSome, gs, x, s, b
  <2>4. CASE b = 0 /\ r.tail + n > r.len /\ n <= r.head
    <3>1. s.tail = n /\ t >= CacheNum
      BY <2>4, <1>1, <1>6, <1>7 DEF Past
    <3>2. \A i \in 1 .. Len(gs) : IF i <= k THEN s.head <= gs[i].base ELSE End(gs[i]) <= s.tail
      <4>1. TAKE i \in 1 .. Len(gs)
      <4>2. CASE i = m + 1
        <5>1. ~(i <= k) /\ End(gs[i]) = n
          BY <4>2, <2>4, <1>1, <1>4, <1>5, <1>14 DEF End
        <5>2. QED
          BY <5>1, <3>1
      <4>3. CASE i \in 1 .. m
        <5>1. i <= k /\ s.head <= gs[i].base
          BY SMTT(30), <4>3, <2>1, <1>1, <1>5, <1>6, <1>14
        <5>2. QED
          BY <5>1
      <4>4. QED
        BY <4>2, <4>3, <1>9
    <3>3. Laps(s, gs, h, 1, k, n)
      <4>1. 1 = Len(gs) - k /\ h + k >= CacheNum
        BY <3>1, <1>1, <1>5, <1>14
      <4>2. s.tail * CacheNum <= 1 * s.len
        BY <3>1, <1>1, <1>6
      <4>3. s.head >= s.tail
        BY <3>1, <2>4, <1>6
      <4>4. s.tail <= 1 * gs[k + 1].len
        BY <3>1, <1>4, <1>5, <1>14
      <4>5. QED
        BY <4>1, <4>2, <4>3, <4>4, <3>2, <1>5, <1>10, <1>11, <1>12 DEF Laps
    <3>4. 1 \in Nat /\ k \in 0 .. Len(gs)
      BY <1>1, <1>5
    <3>5. QED
      BY <3>3, <3>4 DEF LapsSome, gs, x, s, b
  <2>5. \/ b = r.tail /\ b + n <= r.len
        \/ b = 0 /\ r.tail + n > r.len /\ n <= r.head
    BY <1>1, <1>8, <1>14
  <2>6. b = r.tail /\ b + n <= r.len => b + n < r.len \/ b + n = r.len
    <3>1. b = r.tail => b + n \in Int
      BY <1>1
    <3>2. r.len \in Int
      BY <1>1
    <3>3. QED
      BY <3>1, <3>2
  <2>7. QED
    BY <2>2, <2>3, <2>4, <2>5, <2>6
<1>15. CASE /\ t = m - k /\ h + k >= CacheNum /\ r.head >= r.tail /\ fs # <<>>
            /\ \A i \in 1 .. m : IF i <= k THEN r.head <= fs[i].base ELSE End(fs[i]) <= r.tail
            /\ k < m => r.tail <= t * fs[k + 1].len
  <2>1. b = r.tail /\ r.tail + n <= r.head
    BY <1>1, <1>8, <1>15
  <2>2. s.tail = r.tail + n /\ s.head >= s.tail
    BY <2>1, <1>1, <1>6 DEF Past
  <2>3. \A i \in 1 .. Len(gs) : IF i <= k THEN s.head <= gs[i].base ELSE End(gs[i]) <= s.tail
    <3>1. TAKE i \in 1 .. Len(gs)
    <3>2. CASE i = m + 1
      <4>1. ~(i <= k) /\ End(gs[i]) = s.tail
        BY <3>2, <2>1, <2>2, <1>1, <1>4, <1>5 DEF End
      <4>2. s.tail \in Int
        BY <2>2, <1>1
      <4>3. QED
        BY <4>1, <4>2
    <3>3. CASE i \in 1 .. m
      <4>1. gs[i] = fs[i] /\ s.head = r.head /\ r.tail <= s.tail /\ fs[i].base \in Nat /\ fs[i].len \in Nat
        BY <3>3, <2>2, <1>1, <1>3, <1>5, <1>6
      <4>2. IF i <= k THEN r.head <= fs[i].base ELSE End(fs[i]) <= r.tail
        BY <3>3, <1>15
      <4>3. CASE i <= k
        <5>1. s.head <= gs[i].base
          BY <4>1, <4>2, <4>3
        <5>2. QED
          BY <4>3, <5>1
      <4>4. CASE ~(i <= k)
        <5>1. End(fs[i]) <= r.tail /\ End(fs[i]) \in Nat
          BY <4>1, <4>2, <4>4 DEF End
        <5>2. End(gs[i]) <= s.tail
          BY <5>1, <4>1, <2>2, <1>1
        <5>3. QED
          BY <4>4, <5>2
      <4>5. QED
        BY <4>3, <4>4
    <3>4. QED
      BY <3>2, <3>3, <1>9
  <2>4. s.tail <= (t + 1) * gs[k + 1].len
    <3>1. CASE k < m
      <4> DEFINE a == fs[k + 1].len
      <4>1. k + 1 \in 1 .. m
        BY <3>1, <1>1
      <4>2. a \in Nat /\ n <= a /\ r.tail <= t * a /\ gs[k + 1].len = a
        BY <4>1, <3>1, <1>2, <1>3, <1>5, <1>15
      <4> HIDE DEF a
      <4>3. (t + 1) * a = t * a + a /\ t * a \in Nat
        BY <4>2, MulNext
      <4>4. QED
        BY <4>2, <4>3, <2>2, <1>1
    <3>2. CASE k = m
      <4>1. t = 0 /\ gs[k + 1].len = n
        BY <3>2, <1>1, <1>4, <1>5, <1>15
      <4>2. r.tail * CacheNum <= 0
        BY <4>1, <1>1, <1>2, MulNext
      <4>3. r.tail = 0
        <5>1. r.tail * 1 <= r.tail * CacheNum
          BY SMTT(30), <1>1, MulMono
        <5>2. QED
          BY <4>2, <5>1, <1>1
      <4>4. QED
        BY <4>1, <4>3, <2>2
    <3>3. QED
      BY <3>1, <3>2, <1>1
  <2>5. Laps(s, gs, h, t + 1, k, n)
    <3>1. t + 1 = Len(gs) - k
      BY <1>1, <1>5, <1>15
    <3>2. QED
      BY <3>1, <2>2, <2>3, <2>4, <1>5, <1>10, <1>11, <1>12, <1>13, <1>15 DEF Laps
  <2>6. t + 1 \in Nat /\ k \in 0 .. Len(gs)
    BY <1>1, <1>5
  <2>7. QED
    BY <2>5, <2>6 DEF LapsSome, gs, x, s, b
<1>16. QED
  BY <1>2, <1>14, <1>15
-----------------------------------------------------------------------------
LEMMA LapsLess ==
  ASSUME NEW r \in Rings, NEW fs \in Seq(FrameSet), NEW l \in Nat, NEW n \in Nat,
         n <= l, LapsSome(r, fs, l)
  PROVE  LapsSome(r, fs, n)
<1>1. PICK h \in Nat, t \in Nat, k \in 0 .. Len(fs) : Laps(r, fs, h, t, k, l)
  BY DEF LapsSome
<1>2. h * n <= r.head
  <2>1. h * n <= h * l /\ h * l <= r.head
    BY <1>1, MulMono DEF Laps
  <2>2. h * n \in Nat /\ h * l \in Nat /\ r.head \in Nat
    BY MulNext DEF Rings
  <2>3. QED
    BY <2>1, <2>2
<1>3. \A i \in 1 .. Len(fs) : n <= fs[i].len
  <2>1. TAKE i \in 1 .. Len(fs)
  <2>2. fs[i] \in FrameSet
    BY ElementOfSeq
  <2>3. fs[i].len \in Nat /\ l <= fs[i].len
    BY <2>2, <1>1 DEF Laps, FrameSet
  <2>4. QED
    BY <2>3
<1>4. Laps(r, fs, h, t, k, n)
  BY <1>1, <1>2, <1>3 DEF Laps
<1>5. QED
  BY <1>4 DEF LapsSome

LEMMA LapsEmpty ==
  ASSUME NEW r \in Rings, r.head = 0, r.tail = 0, NEW l \in Nat
  PROVE  LapsSome(r, <<>>, l)
<1>1. r.len \in Nat /\ CacheNum \in Nat
  BY FrameAssumption DEF Rings
<1>2. 0 * l <= 0 /\ 0 * CacheNum <= 0 * r.len
  BY <1>1
<1>3. Laps(r, <<>>, 0, 0, 0, l)
  BY <1>2 DEF Laps
<1>4. QED
  BY <1>3 DEF LapsSome

(* Where the next frame of a session whose frames never grew is to go.     *)
LEMMA RoomLaps ==
  ASSUME ShapeInv, FitsInv, LapInv, ~grew, least = 0 \/ flen <= least
  PROVE  LapsSome(Room, Kept, flen)
<1>1. /\ flen \in Nat \ {0} /\ flen \in Nat /\ least \in Nat /\ CacheNum \in Nat \ {0}
      /\ frames \in Seq(FrameSet) /\ Len(frames) <= CacheNum
  <2>1. flen \in Nat \ {0} /\ flen \in Nat /\ CacheNum \in Nat \ {0}
    BY FlenType
  <2>2. least \in Nat /\ frames \in Seq([base : Nat, len : Lengths]) /\ Len(frames) <= CacheNum
    BY FrameAssumption DEF ShapeInv
  <2>3. frames \in Seq(FrameSet)
    BY <2>2, FrameTypes
  <2>4. QED
    BY <2>1, <2>2, <2>3
<1>2. Room \in Rings /\ Room.len = IF len = 0 THEN flen * CacheNum ELSE len
  BY RoomFits
<1>3. CASE len = 0 \/ least = 0
  <2>1. head = 0 /\ tail = 0 /\ frames = <<>>
    BY <1>3 DEF FitsInv, LapInv
  <2>2. ~Full
    BY <2>1, <1>1 DEF Full
  <2>3. Kept = <<>> /\ Squeezed = Ring
    BY <2>1, <2>2 DEF Kept, Squeezed
  <2>4. Room.head = 0 /\ Room.tail = 0
    BY <2>1, <2>3 DEF Room, Sized, Ring
  <2>5. QED
    BY <2>3, <2>4, <1>1, <1>2, LapsEmpty
<1>4. CASE len # 0 /\ least # 0
  <2>1. LapsSome(Ring, frames, least)
    BY <1>4 DEF LapInv
  <2>2. Ring \in Rings /\ Ring.len = len /\ Fits(Ring, frames)
    BY <1>4, RingType DEF FitsInv, Ring
  <2>3. Kept \in Seq(FrameSet)
    BY RoomFits, FrameTypes
  <2>4. LapsSome(Room, Kept, least)
    <3>1. CASE ~Full
      <4>1. Kept = frames /\ Room = Ring
        BY <3>1, <2>2, <1>4 DEF Kept, Room, Squeezed, Sized
      <4>2. QED
        BY <4>1, <2>1
    <3>2. CASE Full
      <4>1. frames # <<>>
        BY <3>2, <1>1 DEF Full
      <4>2. frames[1].len \in Nat
        <5>1. frames[1] \in FrameSet
          BY <4>1, <1>1, Tails
        <5>2. QED
          BY <5>1 DEF FrameSet
      <4>3. Free(Ring, frames[1].len).len = len
        BY <4>2, <2>2, FreeFields
      <4>4. Kept = Tail(frames) /\ Room = Free(Ring, frames[1].len)
        BY <3>2, <4>3, <1>4 DEF Kept, Room, Squeezed, Sized
      <4>5. PICK h \in Nat, t \in Nat, k \in 0 .. Len(frames) : Laps(Ring, frames, h, t, k, least)
        BY <2>1 DEF LapsSome
      <4>6. LapsSome(Free(Ring, frames[1].len), Tail(frames), least)
        BY <4>1, <4>5, <2>2, <1>1, LapsFree
      <4>7. QED
        BY <4>4, <4>6
    <3>3. QED
      BY <3>1, <3>2
  <2>5. QED
    BY <2>3, <2>4, <1>1, <1>2, <1>4, LapsLess
<1>5. QED
  BY <1>3, <1>4

LEMMA PushRoom ==
  ASSUME ShapeInv, FitsInv, LapInv, Push, ~grew'
  PROVE  /\ Base(Room, flen) # -1
         /\ LapsSome(Alloc(Room, flen), Append(Kept, Fresh), flen)
         /\ least' = flen
<1>1. /\ least' = IF least = 0 \/ flen < least THEN flen ELSE least
      /\ ~grew /\ flen <= least' /\ flen * CacheNum <= Room.len
  BY PushHistory
<1>2. flen \in Nat \ {0} /\ least \in Nat
  BY FlenType, FrameAssumption DEF ShapeInv
<1>3. least' = flen /\ (least = 0 \/ flen <= least)
  BY <1>1, <1>2
<1>4. LapsSome(Room, Kept, flen)
  BY <1>1, <1>3, RoomLaps
<1>5. /\ Room \in Rings /\ Kept \in Seq(FrameSet) /\ Len(Kept) < CacheNum
      /\ Fits(Room, Kept) /\ Counts(Room, Kept)
  BY RoomFits, FrameTypes
<1>6. Room.size = 0 <=> Kept = <<>>
  BY <1>5, OccupiedFinite DEF Counts
<1>7. PICK h \in Nat, t \in Nat, k \in 0 .. Len(Kept) : Laps(Room, Kept, h, t, k, flen)
  BY <1>4 DEF LapsSome
<1>8. Base(Room, flen) # -1
  BY <1>1, <1>2, <1>5, <1>6, <1>7, LapsRoom
<1>9. LapsSome(Alloc(Room, flen), Append(Kept, Fresh), flen)
  BY <1>1, <1>2, <1>5, <1>6, <1>7, <1>8, LapsAlloc DEF Fresh
<1>10. QED
  BY <1>3, <1>8, <1>9

FailInv == LapInv /\ FailsOnlyGrown

LEMMA InitFail == Init => FailInv
  BY DEF Init, FailInv, LapInv, FailsOnlyGrown

LEMMA NextFail ==
  ASSUME ShapeInv, FitsInv, FailInv, [Next]_vars
  PROVE  FailInv'
<1>0. LapInv /\ (crashed => grew)
  BY DEF FailInv, FailsOnlyGrown
<1>1. CASE Push
  <2>1. CASE ~grew'
    <3>1. /\ Base(Room, flen) # -1
          /\ LapsSome(Alloc(Room, flen), Append(Kept, Fresh), flen)
          /\ least' = flen
      BY <1>0, <1>1, <2>1, PushRoom
    <3>2. Ring' = Alloc(Room, flen) /\ frames' = Append(Kept, Fresh) /\ crashed' = crashed
      BY <1>1, <3>1, PushFound
    <3>3. flen # 0 /\ ~crashed
      BY <1>1, FlenType DEF Push
    <3>4. LapInv'
      BY <3>1, <3>2, <3>3 DEF LapInv
    <3>5. QED
      BY <3>2, <3>3, <3>4 DEF FailInv, FailsOnlyGrown
  <2>2. CASE grew'
    BY <2>2 DEF FailInv, LapInv, FailsOnlyGrown
  <2>3. QED
    BY <2>1, <2>2
<1>2. CASE Pop
  <2>1. /\ Ring' = Free(Ring, frames[1].len) /\ Ring \in Rings
        /\ len' = len /\ len # 0
        /\ frames # <<>> /\ frames' = Tail(frames) /\ frames \in Seq(FrameSet)
        /\ Fits(Ring, frames)
    BY <1>2, PopRing
  <2>2. UNCHANGED <<least, grew, crashed>>
    BY <1>2 DEF Pop
  <2>3. ASSUME ~grew PROVE LapsSome(Ring', frames', least) /\ least # 0
    <3>1. LapsSome(Ring, frames, least) /\ least # 0
      BY <2>1, <2>3, <1>0 DEF LapInv
    <3>2. least \in Nat
      BY FrameAssumption DEF ShapeInv
    <3>3. PICK h \in Nat, t \in Nat, k \in 0 .. Len(frames) : Laps(Ring, frames, h, t, k, least)
      BY <3>1 DEF LapsSome
    <3>4. LapsSome(Free(Ring, frames[1].len), Tail(frames), least)
      BY <3>2, <3>3, <2>1, LapsFree
    <3>5. QED
      BY <3>1, <3>4, <2>1
  <2>4. LapInv'
    BY <2>2, <2>3 DEF LapInv
  <2>5. QED
    BY <2>2, <2>4, <1>0 DEF FailInv, FailsOnlyGrown
<1>3. CASE Clear
  <2>1. /\ len' = len /\ head' = 0 /\ tail' = 0 /\ size' = 0 /\ frames' = <<>>
        /\ least' = 0 /\ ~crashed /\ crashed' = crashed
    BY <1>3 DEF Clear
  <2>2. ASSUME len' # 0 PROVE LapsSome(Ring', frames', least')
    <3>1. Ring' \in Rings /\ Ring'.head = 0 /\ Ring'.tail = 0
      BY <2>1, <2>2 DEF ShapeInv, Ring, Rings
    <3>2. QED
      BY <3>1, <2>1, LapsEmpty
  <2>3. LapInv'
    BY <2>1, <2>2 DEF LapInv
  <2>4. QED
    BY <2>1, <2>3 DEF FailInv, FailsOnlyGrown
<1>4. CASE NewSession \/ UNCHANGED vars
  <2>1. UNCHANGED <<len, head, tail, size, frames, least, grew, crashed>>
    BY <1>4 DEF NewSession, vars, ringVars
  <2>2. Ring' = Ring
    BY <2>1 DEF Ring
  <2>3. QED
    BY <2>1, <2>2, <1>0 DEF FailInv, LapInv, FailsOnlyGrown
<1>5. QED
  BY <1>1, <1>2, <1>3, <1>4 DEF Next

(* alloc never fails on frames that did not grow since the cache was last  *)
(* empty by clear, and that are no longer than the first push took them to *)
(* be: whatever is pushed, squeezed out, popped and cleared in between,    *)
(* the copy of push never goes to NULL.                                    *)
THEOREM NeverFailsUngrown == Spec => []FailsOnlyGrown
<1>1. ShapeInv /\ FitsInv /\ FailInv /\ [Next]_vars => FailInv'
  BY NextFail
<1>2. FailInv => FailsOnlyGrown
  BY DEF FailInv
<1>3. QED
  BY InitFail, LayoutAlways, <1>1, <1>2, PTL DEF Spec
=============================================================================
