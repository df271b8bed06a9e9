--------------------------- MODULE KvFlashProofs ----------------------------
(***************************************************************************)
(* The key-value store on its flash, for any keys, values, blocks and      *)
(* items in a block, and a power that fails at any step: what kv_init      *)
(* finds and leaves behind, and that nothing comes back or gets lost.      *)
(***************************************************************************)
EXTENDS KvFlash, FiniteSetTheorems, SequenceTheorems, WellFoundedInduction, TLAPS

\* The numbers of blocks and items, and the blocks.
LEMMA Sizes == /\ B \in Nat /\ 2 < B /\ 0 \in Blocks /\ Blocks \subseteq Nat
               /\ C \in Nat /\ 0 < C
BY KvFlashAssumption DEF Reserved, Blocks

-----------------------------------------------------------------------------
(* The first, the least and the next of a set.                             *)

\* A set of naturals has a least element. An induction over the naturals is
\* an argument about the least of the numbers that do not have the property.
LEMMA Least ==
  ASSUME NEW S \in SUBSET Nat, S # {}
  PROVE  \E x \in S : \A y \in S : x <= y
<1>1. PICK x \in S : \A y \in S : <<y, x>> \notin OpToRel(<, Nat)
  BY NatLessThanWellFounded, WFMin
<1>2. \A y \in S : ~ (y < x)
  BY <1>1 DEF OpToRel
<1> QED BY <1>2

LEMMA MinExists ==
  ASSUME NEW S \in SUBSET Nat, S # {}
  PROVE  Min(S) \in S /\ \A y \in S : Min(S) <= y
BY Least DEF Min

\* kv_item_search ends at an item that matches if there is one.
LEMMA FirstExists ==
  ASSUME NEW ps \in SUBSET Positions, ps # {}
  PROVE  First(ps) \in ps /\ \A q \in ps \ {First(ps)} : Before(First(ps), q)
<1> DEFINE bs == {p[1] : p \in ps}
<1>1. \A p \in ps : p[1] \in Nat /\ p[2] \in Nat /\ p = <<p[1], p[2]>>
  <2>1. \A p \in ps : p[1] \in Blocks /\ p[2] \in 1 .. C /\ p = <<p[1], p[2]>>
    BY DEF Positions
  <2> QED BY <2>1, Sizes
<1>2. PICK b \in bs : \A c \in bs : b <= c
  <2>1. bs \in SUBSET Nat /\ bs # {}
    BY <1>1
  <2> HIDE DEF bs
  <2> QED BY <2>1, Least
<1> DEFINE is == {p[2] : p \in {q \in ps : q[1] = b}}
<1>3. PICK i \in is : \A j \in is : i <= j
  <2>1. is \in SUBSET Nat /\ is # {}
    BY <1>1
  <2> HIDE DEF is
  <2> QED BY <2>1, Least
<1>4. PICK p \in ps : p[1] = b /\ p[2] = i
  BY DEF is
<1>5. ASSUME NEW q \in ps \ {p}
      PROVE  Before(p, q)
  <2>1. b <= q[1] /\ (q[1] = b => i <= q[2])
    BY <1>2, <1>3
  <2> QED BY <1>1, <1>4, <2>1 DEF Before
<1> QED BY <1>5 DEF First

\* Of one item, it is that one.
LEMMA FirstOfOne ==
  ASSUME NEW p \in Positions
  PROVE  First({p}) = p
BY DEF First

\* The search for a block from the successor of b round to b ends at one.
LEMMA NextExists ==
  ASSUME NEW b \in Blocks, NEW S \in SUBSET Blocks, S # {}
  PROVE  NextIn(b, S) \in S
<1> DEFINE D(i) == (i - b - 1) % B
           ds == {D(i) : i \in S}
<1>1. \A i \in S : D(i) \in Nat
  BY KvFlashAssumption DEF Blocks
<1>2. ds \in SUBSET Nat /\ ds # {}
  BY <1>1
<1>3. PICK d \in ds : \A e \in ds : d <= e
  BY <1>2, Least
<1>4. PICK i \in S : d = D(i)
  OBVIOUS
<1>5. \A j \in S : D(i) <= D(j)
  BY <1>3, <1>4
<1> QED BY <1>5 DEF NextIn

-----------------------------------------------------------------------------
(* Operations of the flash.                                                *)

\* What a deleted item is not.
LEMMA DeletedNoItem == Deleted \notin Items
<1>1. SUFFICES ASSUME Deleted \in Items PROVE FALSE
  OBVIOUS
<1>2. DOMAIN Deleted = {"key", "val", "origin", "ok"}
  BY <1>1 DEF Items
<1>3. DOMAIN Deleted = {"deleted"}
  BY DEF Deleted
<1> QED BY <1>2, <1>3

\* A block in which one field is programmed.
LEMMA BlockExcept ==
  ASSUME NEW blk \in BlockContents, NEW s \in States, NEW its \in Seq(Items \cup {Deleted})
  PROVE  /\ [blk EXCEPT !.state = s] \in BlockContents
         /\ [blk EXCEPT !.state = s].state = s
         /\ [blk EXCEPT !.state = s].items = blk.items
         /\ [blk EXCEPT !.items = its] \in BlockContents
         /\ [blk EXCEPT !.items = its].state = blk.state
         /\ [blk EXCEPT !.items = its].items = its
<1> DEFINE S == Seq(Items \cup {Deleted})
<1>1. blk \in [state : States, items : S] /\ its \in S
  BY DEF BlockContents
<1> HIDE DEF S
<1>2. /\ [blk EXCEPT !.state = s] \in [state : States, items : S]
      /\ [blk EXCEPT !.state = s].state = s
      /\ [blk EXCEPT !.state = s].items = blk.items
  BY <1>1
<1>3. /\ [blk EXCEPT !.items = its] \in [state : States, items : S]
      /\ [blk EXCEPT !.items = its].state = blk.state
      /\ [blk EXCEPT !.items = its].items = its
  BY <1>1
<1> QED BY <1>2, <1>3 DEF BlockContents, S

LEMMA BlockType ==
  ASSUME NEW bs \in Flash, NEW b \in Blocks
  PROVE  /\ bs[b] \in BlockContents
         /\ bs[b].state \in States
         /\ bs[b].items \in Seq(Items \cup {Deleted})
         /\ bs[b] = [state |-> bs[b].state, items |-> bs[b].items]
         /\ ItemCount(bs, b) \in Nat /\ ItemCount(bs, b) <= C
<1>1. bs[b] \in BlockContents /\ ItemCount(bs, b) <= C
  BY DEF Flash
<1>2. /\ bs[b].state \in States
      /\ bs[b].items \in Seq(Items \cup {Deleted})
      /\ bs[b] = [state |-> bs[b].state, items |-> bs[b].items]
  BY <1>1 DEF BlockContents
<1> QED BY <1>1, <1>2, LenProperties DEF ItemCount

LEMMA LiveType ==
  ASSUME NEW bs \in Flash, NEW p \in Live(bs)
  PROVE  /\ p \in Positions /\ p[1] \in Blocks /\ p[2] \in 1 .. C
         /\ p = <<p[1], p[2]>>
         /\ p[2] <= ItemCount(bs, p[1])
         /\ At(bs, p) \in Items
<1>1. /\ p \in Positions /\ p[1] \in Blocks /\ p[2] \in 1 .. C
      /\ p = <<p[1], p[2]>>
      /\ p[2] <= ItemCount(bs, p[1]) /\ At(bs, p) # Deleted
  BY DEF Live, Positions
<1>2. bs[p[1]].items \in Seq(Items \cup {Deleted})
  BY <1>1, BlockType
<1>3. p[2] \in 1 .. Len(bs[p[1]].items)
  BY <1>1, <1>2, Sizes DEF ItemCount
<1>4. At(bs, p) \in Items \cup {Deleted}
  BY <1>2, <1>3, ElementOfSeq DEF At
<1> QED BY <1>1, <1>4

\* A clean block says so and is empty.
LEMMA CleanBlock ==
  ASSUME NEW bs \in Flash, NEW b \in Blocks
  PROVE  bs[b] = Clean <=> bs[b].state = "clean" /\ ItemCount(bs, b) = 0
<1>1. bs[b].items = << >> <=> Len(bs[b].items) = 0
  BY BlockType, EmptySeq
<1> QED BY <1>1, BlockType DEF Clean, ItemCount

\* Only the state of a block changes.
LEMMA SetStateFacts ==
  ASSUME NEW bs \in Flash, NEW b \in Blocks, NEW s \in States
  PROVE  /\ SetState(bs, b, s) \in Flash
         /\ \A c \in Blocks : /\ SetState(bs, b, s)[c].state = IF c = b THEN s ELSE bs[c].state
                              /\ ItemCount(SetState(bs, b, s), c) = ItemCount(bs, c)
         /\ Live(SetState(bs, b, s)) = Live(bs)
         /\ \A p \in Positions : At(SetState(bs, b, s), p) = At(bs, p)
<1> DEFINE cs == SetState(bs, b, s)
           blk == [bs[b] EXCEPT !.state = s]
<1>13. cs = [bs EXCEPT ![b] = blk]
  BY DEF SetState
<1>0. /\ blk \in BlockContents /\ blk.state = s /\ blk.items = bs[b].items
      /\ cs = [bs EXCEPT ![b] = blk] /\ bs \in [Blocks -> BlockContents]
  <2>1. bs[b] \in BlockContents /\ bs \in [Blocks -> BlockContents]
    BY BlockType DEF Flash
  <2>2. bs[b].items \in Seq(Items \cup {Deleted})
    BY BlockType
  <2>3. blk \in BlockContents /\ blk.state = s /\ blk.items = bs[b].items
    BY <2>1, <2>2, BlockExcept
  <2> QED BY <1>13, <2>1, <2>3
<1> HIDE DEF blk, cs
<1>1. \A c \in Blocks : /\ cs[c].state = IF c = b THEN s ELSE bs[c].state
                        /\ cs[c].items = bs[c].items
  BY <1>0
<1>2. cs \in [Blocks -> BlockContents]
  BY <1>0
<1>3. \A c \in Blocks : ItemCount(cs, c) = ItemCount(bs, c)
  BY <1>1 DEF ItemCount
<1>4. \A p \in Positions : At(cs, p) = At(bs, p)
  BY <1>1 DEF At, Positions
<1>5. Live(cs) = Live(bs)
  BY <1>3, <1>4 DEF Live, Positions
<1> QED BY <1>1, <1>2, <1>3, <1>4, <1>5 DEF Flash, cs

LEMMA StateNames == "dirty" \in States /\ "used" \in States
BY DEF States

LEMMA SetUsed ==
  ASSUME NEW bs \in Flash, NEW b \in Blocks
  PROVE  /\ SetState(bs, b, "used") \in Flash
         /\ \A c \in Blocks :
               /\ SetState(bs, b, "used")[c].state = IF c = b THEN "used" ELSE bs[c].state
               /\ ItemCount(SetState(bs, b, "used"), c) = ItemCount(bs, c)
         /\ Live(SetState(bs, b, "used")) = Live(bs)
         /\ \A p \in Positions : At(SetState(bs, b, "used"), p) = At(bs, p)
BY StateNames, SetStateFacts

LEMMA MarkFacts ==
  ASSUME NEW bs \in Flash, NEW b \in Blocks
  PROVE  /\ Mark(bs, b) \in Flash
         /\ \A c \in Blocks :
               /\ Mark(bs, b)[c].state =
                     IF c = b /\ bs[b].state = "used" THEN "dirty" ELSE bs[c].state
               /\ ItemCount(Mark(bs, b), c) = ItemCount(bs, c)
         /\ Live(Mark(bs, b)) = Live(bs)
         /\ \A p \in Positions : At(Mark(bs, b), p) = At(bs, p)
<1> DEFINE cs == SetState(bs, b, "dirty")
<1>1. /\ cs \in Flash
      /\ \A c \in Blocks : /\ cs[c].state = IF c = b THEN "dirty" ELSE bs[c].state
                           /\ ItemCount(cs, c) = ItemCount(bs, c)
      /\ Live(cs) = Live(bs)
      /\ \A p \in Positions : At(cs, p) = At(bs, p)
  BY SetStateFacts DEF States
<1> HIDE DEF cs
<1>2. Mark(bs, b) = IF bs[b].state = "used" THEN cs ELSE bs
  BY DEF Mark, cs
<1> QED BY <1>1, <1>2

\* Only the item at p changes.
LEMMA KillFacts ==
  ASSUME NEW bs \in Flash, NEW p \in Live(bs)
  PROVE  /\ Kill(bs, p) \in Flash
         /\ \A c \in Blocks : /\ Kill(bs, p)[c].state = bs[c].state
                              /\ ItemCount(Kill(bs, p), c) = ItemCount(bs, c)
         /\ Live(Kill(bs, p)) = Live(bs) \ {p}
         /\ At(Kill(bs, p), p) = Deleted
         /\ \A q \in Positions \ {p} : q[2] <= ItemCount(bs, q[1]) =>
               At(Kill(bs, p), q) = At(bs, q)
<1> DEFINE cs == Kill(bs, p)
<1>0. PICK b \in Blocks : b = p[1]
  BY LiveType
<1> DEFINE its == [bs[b].items EXCEPT ![p[2]] = Deleted]
<1>1. /\ b \in Blocks /\ p[2] \in 1 .. C /\ p = <<b, p[2]>>
      /\ p[2] \in 1 .. Len(bs[b].items)
      /\ bs[b].items \in Seq(Items \cup {Deleted})
  <2>1. b \in Blocks /\ p[2] \in 1 .. C /\ p = <<b, p[2]>> /\ p[2] <= ItemCount(bs, b)
    BY <1>0, LiveType
  <2>2. bs[b].items \in Seq(Items \cup {Deleted}) /\ ItemCount(bs, b) \in Nat
    BY <2>1, BlockType
  <2> QED BY <2>1, <2>2, Sizes DEF ItemCount
<1>2. /\ its \in Seq(Items \cup {Deleted})
      /\ Len(its) = Len(bs[b].items)
      /\ \A j \in 1 .. Len(bs[b].items) :
            its[j] = IF j = p[2] THEN Deleted ELSE bs[b].items[j]
  BY <1>1, ExceptSeq
<1> HIDE DEF its
<1> DEFINE blk == [bs[b] EXCEPT !.items = its]
<1>3. /\ blk \in BlockContents /\ blk.state = bs[b].state /\ blk.items = its
      /\ bs \in [Blocks -> BlockContents]
  <2>1. bs[b] \in BlockContents /\ bs \in [Blocks -> BlockContents]
    BY <1>1, BlockType DEF Flash
  <2>2. bs[b].state \in States
    BY <1>1, BlockType
  <2>3. its \in Seq(Items \cup {Deleted})
    BY <1>2
  <2> QED BY <2>1, <2>2, <2>3, BlockExcept
<1>13. cs = [bs EXCEPT ![b] = blk]
  BY <1>0 DEF Kill, its
<1> HIDE DEF blk, cs
<1>4. cs \in [Blocks -> BlockContents]
  BY <1>3, <1>13
<1>5. \A c \in Blocks : /\ cs[c].state = bs[c].state
                        /\ cs[c].items = IF c = b THEN its ELSE bs[c].items
  BY <1>1, <1>3, <1>13
<1>6. \A c \in Blocks : ItemCount(cs, c) = ItemCount(bs, c)
  BY <1>2, <1>5 DEF ItemCount
<1>7. At(cs, p) = Deleted
  BY <1>1, <1>2, <1>5 DEF At
<1>8. ASSUME NEW q \in Positions \ {p}, q[2] <= ItemCount(bs, q[1])
      PROVE  At(cs, q) = At(bs, q)
  <2>1. q[1] \in Blocks /\ q[2] \in 1 .. C /\ q = <<q[1], q[2]>>
    BY DEF Positions
  <2>2. CASE q[1] = b
    <3>1. q[2] # p[2] /\ q[2] \in 1 .. Len(bs[b].items)
      BY <1>1, <1>8, <2>1, <2>2, Sizes DEF ItemCount
    <3> QED BY <1>2, <1>5, <2>1, <2>2, <3>1 DEF At
  <2>3. CASE q[1] # b
    BY <1>5, <2>1, <2>3 DEF At
  <2> QED BY <2>2, <2>3
<1>9. Live(cs) = Live(bs) \ {p}
  <2>1. \A q \in Positions : q[1] \in Blocks
    BY DEF Positions
  <2> QED BY <1>6, <1>7, <1>8, <2>1 DEF Live
<1> QED BY <1>4, <1>5, <1>6, <1>7, <1>8, <1>9, BlockType DEF Flash, cs

\* Where the next item of a block goes.
Next1(bs, b) == <<b, ItemCount(bs, b) + 1>>

LEMMA PutFacts ==
  ASSUME NEW bs \in Flash, NEW b \in Blocks, ItemCount(bs, b) < C,
         NEW item \in Items \cup {Deleted}
  PROVE  /\ Put(bs, b, item) \in Flash
         /\ \A c \in Blocks :
               /\ Put(bs, b, item)[c].state = bs[c].state
               /\ ItemCount(Put(bs, b, item), c) =
                     IF c = b THEN ItemCount(bs, b) + 1 ELSE ItemCount(bs, c)
         /\ Next1(bs, b) \in Positions /\ Next1(bs, b) \notin Live(bs)
         /\ Live(Put(bs, b, item)) =
               IF item = Deleted THEN Live(bs) ELSE Live(bs) \cup {Next1(bs, b)}
         /\ At(Put(bs, b, item), Next1(bs, b)) = item
         /\ \A q \in Positions : q[2] <= ItemCount(bs, q[1]) =>
               At(Put(bs, b, item), q) = At(bs, q)
<1> DEFINE cs == Put(bs, b, item)
           n == ItemCount(bs, b)
           its == Append(bs[b].items, item)
<1>1. /\ n \in Nat /\ n = Len(bs[b].items)
      /\ bs[b].items \in Seq(Items \cup {Deleted})
  BY BlockType DEF ItemCount
<1>2. /\ its \in Seq(Items \cup {Deleted})
      /\ Len(its) = n + 1
      /\ \A i \in 1 .. n : its[i] = bs[b].items[i]
      /\ its[n + 1] = item
  BY <1>1, AppendProperties
<1> HIDE DEF its
<1> DEFINE blk == [bs[b] EXCEPT !.items = its]
<1>3. /\ blk \in BlockContents /\ blk.state = bs[b].state /\ blk.items = its
      /\ bs \in [Blocks -> BlockContents]
  <2>1. bs[b] \in BlockContents /\ bs \in [Blocks -> BlockContents]
    BY BlockType DEF Flash
  <2>2. bs[b].state \in States
    BY BlockType
  <2>3. its \in Seq(Items \cup {Deleted})
    BY <1>2
  <2> QED BY <2>1, <2>2, <2>3, BlockExcept
<1>13. cs = [bs EXCEPT ![b] = blk]
  BY DEF Put, its
<1> HIDE DEF blk, cs
<1>4. cs \in [Blocks -> BlockContents]
  BY <1>3, <1>13
<1>5. \A c \in Blocks : /\ cs[c].state = bs[c].state
                        /\ cs[c].items = IF c = b THEN its ELSE bs[c].items
  BY <1>3, <1>13
<1>6. \A c \in Blocks : ItemCount(cs, c) = IF c = b THEN n + 1 ELSE ItemCount(bs, c)
  BY <1>2, <1>5 DEF ItemCount
<1>7. Next1(bs, b) \in Positions /\ Next1(bs, b)[1] = b /\ Next1(bs, b)[2] = n + 1
  BY <1>1, Sizes DEF Next1, Positions
<1>8. Next1(bs, b) \notin Live(bs)
  BY <1>1, <1>7 DEF Live
<1>9. At(cs, Next1(bs, b)) = item
  BY <1>2, <1>5, <1>7 DEF At
<1>10. ASSUME NEW q \in Positions, q[2] <= ItemCount(bs, q[1])
       PROVE  At(cs, q) = At(bs, q)
  <2>1. q[1] \in Blocks /\ q[2] \in 1 .. C
    BY DEF Positions
  <2>2. CASE q[1] = b
    <3>1. q[2] \in 1 .. n
      BY <1>1, <1>10, <2>1, <2>2, Sizes
    <3> QED BY <1>2, <1>5, <2>1, <2>2, <3>1 DEF At
  <2>3. CASE q[1] # b
    BY <1>5, <2>1, <2>3 DEF At
  <2> QED BY <2>2, <2>3
<1>11. Live(cs) = IF item = Deleted THEN Live(bs) ELSE Live(bs) \cup {Next1(bs, b)}
  <2>1. ASSUME NEW q \in Positions, q[2] <= ItemCount(cs, q[1])
        PROVE  q[2] <= ItemCount(bs, q[1]) \/ q = Next1(bs, b)
    <3>1. q[1] \in Blocks /\ q[2] \in 1 .. C /\ q = <<q[1], q[2]>>
      BY DEF Positions
    <3> QED BY <1>1, <1>6, <2>1, <3>1, Sizes DEF Next1
  <2>2. \A q \in Positions : q[2] <= ItemCount(bs, q[1]) => q[2] <= ItemCount(cs, q[1])
    <3> SUFFICES ASSUME NEW q \in Positions, q[2] <= ItemCount(bs, q[1])
                 PROVE  q[2] <= ItemCount(cs, q[1])
      OBVIOUS
    <3>1. q[1] \in Blocks /\ q[2] \in Int
      BY Sizes DEF Positions
    <3>2. ItemCount(bs, q[1]) \in Nat
      BY <3>1, BlockType
    <3>3. ItemCount(cs, q[1]) \in {ItemCount(bs, q[1]), ItemCount(bs, q[1]) + 1}
      BY <1>6, <3>1
    <3> QED BY <3>1, <3>2, <3>3
  <2>3. Next1(bs, b)[2] <= ItemCount(cs, Next1(bs, b)[1])
    BY <1>1, <1>6, <1>7
  <2>4. \A q \in Live(cs) : q \in Live(bs) \/ (q = Next1(bs, b) /\ item # Deleted)
    BY <1>9, <1>10, <2>1 DEF Live
  <2>5. \A q \in Live(bs) : q \in Live(cs)
    BY <1>10, <2>2 DEF Live
  <2>6. item # Deleted => Next1(bs, b) \in Live(cs)
    BY <1>7, <1>9, <2>3 DEF Live
  <2> QED BY <1>8, <2>4, <2>5, <2>6
<1>12. cs \in Flash
  <2>1. \A c \in Blocks : ItemCount(bs, c) \in Nat /\ ItemCount(bs, c) <= C
    BY BlockType
  <2>2. \A c \in Blocks : ItemCount(cs, c) <= C
    BY <1>1, <1>6, <2>1, Sizes
  <2> QED BY <1>4, <2>2 DEF Flash
<1> QED BY <1>5, <1>6, <1>7, <1>8, <1>9, <1>10, <1>11, <1>12 DEF cs

\* A block is erased, and perhaps given its header.
LEMMA FormatFacts ==
  ASSUME NEW bs \in Flash, NEW b \in Blocks, NEW blk \in {Clean, Erased}
  PROVE  /\ Format(bs, b, blk) \in Flash
         /\ \A c \in Blocks :
               /\ Format(bs, b, blk)[c].state = IF c = b THEN blk.state ELSE bs[c].state
               /\ ItemCount(Format(bs, b, blk), c) = IF c = b THEN 0 ELSE ItemCount(bs, c)
         /\ Live(Format(bs, b, blk)) = {p \in Live(bs) : p[1] # b}
         /\ \A p \in Positions : p[1] # b => At(Format(bs, b, blk), p) = At(bs, p)
<1> DEFINE cs == Format(bs, b, blk)
<1>1. blk \in BlockContents /\ blk.items = << >>
  <2>1. << >> \in Seq(Items \cup {Deleted})
    BY EmptySeq
  <2>2. CASE blk = Clean
    BY <2>1, <2>2 DEF Clean, BlockContents, States
  <2>3. CASE blk = Erased
    BY <2>1, <2>3 DEF Erased, BlockContents, States
  <2> QED BY <2>2, <2>3
<1>2. /\ cs \in [Blocks -> BlockContents]
      /\ \A c \in Blocks : cs[c] = IF c = b THEN blk ELSE bs[c]
  BY <1>1 DEF Flash, Format
<1> HIDE DEF cs
<1>3. \A c \in Blocks :
               /\ cs[c].state = IF c = b THEN blk.state ELSE bs[c].state
               /\ ItemCount(cs, c) = IF c = b THEN 0 ELSE ItemCount(bs, c)
  BY <1>1, <1>2, EmptySeq DEF ItemCount
<1>4. \A p \in Positions : p[1] # b => At(cs, p) = At(bs, p)
  BY <1>2 DEF At, Positions
<1>5. Live(cs) = {p \in Live(bs) : p[1] # b}
  <2>1. \A p \in Positions : p[1] \in Blocks /\ ~(p[2] <= 0)
    BY Sizes DEF Positions
  <2>2. \A p \in Live(cs) : p \in Positions /\ p[1] # b /\ p \in Live(bs)
    BY <1>3, <1>4, <2>1 DEF Live
  <2>3. \A p \in Live(bs) : p[1] # b => p \in Live(cs)
    BY <1>3, <1>4, <2>1 DEF Live
  <2> QED BY <2>2, <2>3
<1>6. cs \in Flash
  <2>1. \A c \in Blocks : ItemCount(bs, c) \in Nat /\ ItemCount(bs, c) <= C
    BY BlockType
  <2>2. ASSUME NEW c \in Blocks
        PROVE  ItemCount(cs, c) <= C
    <3>1. ItemCount(cs, c) = 0 \/ ItemCount(cs, c) = ItemCount(bs, c)
      BY <1>3
    <3>2. 0 <= C
      BY Sizes
    <3> QED BY <2>1, <3>1, <3>2
  <2> QED BY <1>2, <2>2 DEF Flash
<1> QED BY <1>3, <1>4, <1>5, <1>6 DEF cs


LEMMA FormatClean ==
  ASSUME NEW bs \in Flash, NEW b \in Blocks
  PROVE  /\ Format(bs, b, Clean) \in Flash
         /\ \A c \in Blocks :
               /\ Format(bs, b, Clean)[c].state = IF c = b THEN "clean" ELSE bs[c].state
               /\ ItemCount(Format(bs, b, Clean), c) = IF c = b THEN 0 ELSE ItemCount(bs, c)
         /\ Live(Format(bs, b, Clean)) = {p \in Live(bs) : p[1] # b}
         /\ \A p \in Positions : p[1] # b => At(Format(bs, b, Clean), p) = At(bs, p)
<1>1. PICK blk \in {Clean, Erased} : blk = Clean /\ blk.state = "clean"
  BY DEF Clean
<1>2. /\ Format(bs, b, blk) \in Flash
      /\ \A c \in Blocks :
            /\ Format(bs, b, blk)[c].state = IF c = b THEN blk.state ELSE bs[c].state
            /\ ItemCount(Format(bs, b, blk), c) = IF c = b THEN 0 ELSE ItemCount(bs, c)
      /\ Live(Format(bs, b, blk)) = {p \in Live(bs) : p[1] # b}
      /\ \A p \in Positions : p[1] # b => At(Format(bs, b, blk), p) = At(bs, p)
  BY FormatFacts
<1> QED BY <1>1, <1>2

LEMMA FormatErased ==
  ASSUME NEW bs \in Flash, NEW b \in Blocks
  PROVE  /\ Format(bs, b, Erased) \in Flash
         /\ \A c \in Blocks :
               /\ Format(bs, b, Erased)[c].state = IF c = b THEN "none" ELSE bs[c].state
               /\ ItemCount(Format(bs, b, Erased), c) = IF c = b THEN 0 ELSE ItemCount(bs, c)
         /\ Live(Format(bs, b, Erased)) = {p \in Live(bs) : p[1] # b}
         /\ \A p \in Positions : p[1] # b => At(Format(bs, b, Erased), p) = At(bs, p)
<1>1. PICK blk \in {Clean, Erased} : blk = Erased /\ blk.state = "none"
  BY DEF Erased
<1>2. /\ Format(bs, b, blk) \in Flash
      /\ \A c \in Blocks :
            /\ Format(bs, b, blk)[c].state = IF c = b THEN blk.state ELSE bs[c].state
            /\ ItemCount(Format(bs, b, blk), c) = IF c = b THEN 0 ELSE ItemCount(bs, c)
      /\ Live(Format(bs, b, blk)) = {p \in Live(bs) : p[1] # b}
      /\ \A p \in Positions : p[1] # b => At(Format(bs, b, blk), p) = At(bs, p)
  BY FormatFacts
<1> QED BY <1>1, <1>2

-----------------------------------------------------------------------------
(* What holds at every step.                                               *)

Rivals(bs, p, q) == p # q /\ At(bs, p).key = At(bs, q).key

Sound(bs) == \A p \in Live(bs) : At(bs, p).ok

NoRivals(bs) == \A p, q \in Live(bs) : ~Rivals(bs, p, q)

\* An erased block is empty, and one block at most says it is clean and is not.
FlashOK(bs) ==
    /\ \A b \in Blocks : bs[b].state = "none" => ItemCount(bs, b) = 0
    /\ \A b, c \in Blocks :
          /\ bs[b].state = "clean" /\ ItemCount(bs, b) # 0
          /\ bs[c].state = "clean" /\ ItemCount(bs, c) # 0
          => b = c

\* A sound item has the value its key had, or the one it is about to get.
Truthful ==
    \A p \in Live(blocks) : At(blocks, p).ok =>
        /\ At(blocks, p).val \in Vals
        /\ At(blocks, p).val \in {store[At(blocks, p).key]} \cup Requested(At(blocks, p).key)

CallInv ==
    /\ store \in [Keys -> Vals \cup {None}]
    /\ req = None \/ req \in Promise!Requests
    /\ pc \in {"idle", "copy", "header", "used"} => req = None
    /\ pc \in {"write", "unlink", "mark", "spin"} => req # None
    /\ pc \in {"write", "spin"} => req.op = "set"
    /\ pc \notin {"write", "unlink", "mark"} => todo = {}

\* A block is left that can be collected into, whatever becomes of the one
\* that says it is clean and is not.
Spared(bs) == \E b \in Blocks : bs[b].state = "none" \/ bs[b] = Clean

\* kv_init has not come to p yet, and will not let q stand beside it.
Doomed(bs, a, p, q) ==
    ~Before(p, a) /\ (At(bs, p).origin = q \/ ~At(bs, p).ok)

\* What kv_init has before it when the scan has come to a: of two items of a
\* key, it removes one, or the block of one is formatted in the end.
Settling(bs, a) ==
    /\ \A p \in Live(bs) : Before(p, a) => At(bs, p).ok
    /\ \A p, q \in Live(bs) : Rivals(bs, p, q) =>
          \/ Doomed(bs, a, p, q)
          \/ Doomed(bs, a, q, p)
          \/ ~Spared(bs) /\ (bs[p[1]].state = "clean" \/ bs[q[1]].state = "clean")

StartInv ==
    pc \in {"scan", "settle"} =>
        /\ pc = "settle" => at[1] = B
        /\ \A b \in Blocks : b < at[1] => blocks[b].state # "none"
        /\ Settling(blocks, at)

\* Between kv_init and the collections: a key has two items only while the
\* old one is about to be deleted.
Steady == {"idle", "write", "unlink", "mark", "spin"}

InUse(bs) == \A b \in Blocks : /\ bs[b].state # "none"
                               /\ bs[b].state = "clean" => ItemCount(bs, b) = 0

OneCleanAtMost == \A b, c \in Blocks : blocks[b] = Clean /\ blocks[c] = Clean => b = c

Superseded(p, q) == p \in todo /\ At(blocks, q).origin = p

SteadyInv ==
    pc \in Steady =>
        /\ InUse(blocks)
        /\ blocks[wb].state # "clean"
        /\ Sound(blocks)
        /\ gc => OneCleanAtMost
        /\ pc # "unlink" => NoRivals(blocks)

TodoInv ==
    /\ pc = "write" =>
        /\ HasRoom(wb)
        /\ todo = {p \in Live(blocks) : At(blocks, p).key = req.key}
    /\ pc = "unlink" =>
        /\ todo \subseteq Live(blocks)
        /\ \A p, q \in Live(blocks) : Rivals(blocks, p, q) =>
              /\ req.op = "set"
              /\ Superseded(p, q) \/ Superseded(q, p)
    /\ pc = "mark" =>
        /\ First(todo) \notin Live(blocks)
        /\ todo \ {First(todo)} \subseteq Live(blocks)
    /\ pc \in {"unlink", "mark"} =>
        /\ todo # {}
        /\ req.op = "set" =>
              /\ todo = {First(todo)}
              /\ \E p \in Live(blocks) \ todo :
                    At(blocks, p).key = req.key /\ At(blocks, p).val = req.val
        /\ req.op = "delete" =>
              \A p \in Live(blocks) : At(blocks, p).key \in req.keys <=> p \in todo

\* The items of the dirty block that have been looked at are those of the
\* block they are copied to, which says it is clean until the last step.
Copied(p, c) ==
    /\ p[1] = at[1] /\ p[2] < at[2]
    /\ c[1] = wb
    /\ At(blocks, p) = At(blocks, c)

CollectInv ==
    pc \in {"copy", "header", "used"} =>
        /\ at[1] \in Blocks \ {wb}
        /\ blocks[wb].state = "clean"
        /\ \A b \in Blocks \ {wb, at[1]} : blocks[b].state \in {"used", "dirty"}
        /\ Sound(blocks)
        /\ pc = "copy" =>
              /\ blocks[at[1]].state = "dirty"
              /\ ItemCount(blocks, wb) < at[2]
              /\ \A p, q \in Live(blocks) : Rivals(blocks, p, q) =>
                    (p[1] = wb /\ q[1] = at[1]) \/ (q[1] = wb /\ p[1] = at[1])
              /\ \A c \in Live(blocks) : c[1] = wb => \E p \in Live(blocks) : Copied(p, c)
              /\ \A p \in Live(blocks) : p[1] = at[1] /\ p[2] < at[2] =>
                    \E c \in Live(blocks) : Copied(p, c)
        /\ pc = "header" => blocks[at[1]] = Erased
        /\ pc = "used" => blocks[at[1]] = Clean
        /\ pc # "copy" => NoRivals(blocks)

Inv == /\ TypeOK /\ FlashOK(blocks) /\ Truthful /\ CallInv
       /\ StartInv /\ SteadyInv /\ TodoInv /\ CollectInv

LEMMA RequestFacts ==
  ASSUME NEW r \in Promise!Requests
  PROVE  /\ r # None
         /\ \/ r.op = "set" /\ r.key \in Keys /\ r.val \in Vals
            \/ r.op = "delete" /\ r.keys \in SUBSET Keys
<1>1. r # None
  BY KvFlashAssumption
<1>2. CASE r \in [op : {"set"}, key : Keys, val : Vals]
  BY <1>1, <1>2
<1>3. CASE r \in [op : {"delete"}, keys : {{k} : k \in Keys} \cup PrefixSets]
  <2>1. r.op = "delete" /\ r.keys \in {{k} : k \in Keys} \cup PrefixSets
    BY <1>3
  <2>2. PrefixSets \subseteq SUBSET Keys
    BY KvFlashAssumption
  <2> QED BY <1>1, <2>1, <2>2
<1> QED BY <1>2, <1>3 DEF Promise!Requests

LEMMA SetRequest ==
  ASSUME NEW k \in Keys, NEW v \in Vals
  PROVE  /\ [op |-> "set", key |-> k, val |-> v] \in Promise!Requests
         /\ [op |-> "set", key |-> k, val |-> v] # None
<1>1. [op |-> "set", key |-> k, val |-> v] \in Promise!Requests
  BY DEF Promise!Requests
<1> QED BY <1>1, RequestFacts

\* A get finds the one item of a key.
LEMMA ContentsFacts ==
  ASSUME NEW bs \in Flash, InUse(bs), NoRivals(bs)
  PROVE  /\ \A p \in Live(bs) : Contents(bs)[At(bs, p).key] = At(bs, p).val
         /\ \A k \in Keys : (\A p \in Live(bs) : At(bs, p).key # k) => Contents(bs)[k] = None
         /\ Contents(bs) \in [Keys -> Vals \cup {None}]
<1>1. ASSUME NEW p \in Live(bs)
      PROVE  /\ ItemsOf(bs, At(bs, p).key) = {p}
             /\ At(bs, p).key \in Keys /\ At(bs, p).val \in Vals \cup {None}
  <2>1. /\ At(bs, p) \in Items /\ p[1] \in Blocks /\ ItemCount(bs, p[1]) # 0
    <3>1. p[2] \in 1 .. C /\ p[2] <= ItemCount(bs, p[1]) /\ p[1] \in Blocks /\ At(bs, p) \in Items
      BY LiveType
    <3> QED BY <3>1, Sizes
  <2>2. At(bs, p).key \in Keys /\ At(bs, p).val \in Vals \cup {None}
    BY <2>1 DEF Items
  <2>3. p \in ItemsOf(bs, At(bs, p).key)
    BY <2>1 DEF ItemsOf, InUse
  <2>4. \A q \in ItemsOf(bs, At(bs, p).key) : q = p
    BY DEF ItemsOf, NoRivals, Rivals
  <2> QED BY <2>2, <2>3, <2>4
<1>2. ASSUME NEW p \in Live(bs)
      PROVE  Contents(bs)[At(bs, p).key] = At(bs, p).val
  <2>1. p \in Positions
    BY LiveType
  <2>2. First({p}) = p
    BY <2>1, FirstOfOne
  <2> QED BY <1>1, <2>2 DEF Contents
<1>3. ASSUME NEW k \in Keys, \A p \in Live(bs) : At(bs, p).key # k
      PROVE  Contents(bs)[k] = None
  <2>1. ItemsOf(bs, k) = {}
    BY <1>3 DEF ItemsOf
  <2> QED BY <2>1 DEF Contents
<1>4. \A k \in Keys : Contents(bs)[k] \in Vals \cup {None}
  BY <1>1, <1>2, <1>3
<1>5. Contents(bs) \in [Keys -> Vals \cup {None}]
  BY <1>4 DEF Contents
<1> QED BY <1>2, <1>3, <1>5

LEMMA ReturnFacts ==
  ASSUME blocks' \in Flash, Return, InUse(blocks'), NoRivals(blocks'),
         \A p \in Live(blocks') : At(blocks', p).val \in Vals
  PROVE  Truthful' /\ store' \in [Keys -> Vals \cup {None}]
<1>1. store' = Contents(blocks')
  BY DEF Return
<1> QED BY <1>1, ContentsFacts DEF Truthful

\* Items are deleted, and blocks marked as dirty.
Worn(bs, cs) ==
    /\ cs \in Flash
    /\ \A b \in Blocks :
          /\ ItemCount(cs, b) = ItemCount(bs, b)
          /\ cs[b].state = bs[b].state \/ (bs[b].state = "used" /\ cs[b].state = "dirty")
    /\ Live(cs) \subseteq Live(bs)
    /\ \A p \in Live(cs) : At(cs, p) = At(bs, p)

LEMMA WornFacts ==
  ASSUME NEW bs \in Flash, NEW cs, Worn(bs, cs)
  PROVE  /\ cs \in Flash
         /\ \A b \in Blocks : /\ cs[b] = Clean <=> bs[b] = Clean
                              /\ cs[b].state = "clean" <=> bs[b].state = "clean"
                              /\ cs[b].state = "none" <=> bs[b].state = "none"
         /\ FlashOK(bs) => FlashOK(cs)
         /\ Spared(cs) <=> Spared(bs)
         /\ InUse(bs) => InUse(cs)
         /\ Sound(bs) => Sound(cs)
         /\ NoRivals(bs) => NoRivals(cs)
         /\ \A a : Settling(bs, a) => Settling(cs, a)
<1>1. \A b \in Blocks : /\ cs[b] = Clean <=> bs[b] = Clean
                        /\ cs[b].state = "clean" <=> bs[b].state = "clean"
                        /\ cs[b].state = "none" <=> bs[b].state = "none"
                        /\ ItemCount(cs, b) = ItemCount(bs, b)
  BY CleanBlock DEF Worn
<1>2. Spared(cs) <=> Spared(bs)
  BY <1>1 DEF Spared
<1>3. FlashOK(bs) => FlashOK(cs)
  BY <1>1 DEF FlashOK
<1>4. InUse(bs) => InUse(cs)
  BY <1>1 DEF InUse
<1>5. Sound(bs) => Sound(cs)
  BY DEF Sound, Worn
<1>6. \A p, q \in Live(cs) : Rivals(cs, p, q) <=> Rivals(bs, p, q)
  BY DEF Rivals, Worn
<1>7. NoRivals(bs) => NoRivals(cs)
  BY <1>6 DEF NoRivals, Worn
<1>8. ASSUME NEW a, Settling(bs, a)
      PROVE  Settling(cs, a)
  <2>1. \A p, q \in Live(cs) : Doomed(bs, a, p, q) => Doomed(cs, a, p, q)
    BY DEF Doomed, Worn
  <2>2. \A p \in Live(cs) : p[1] \in Blocks
    BY LiveType DEF Worn
  <2>3. \A p \in Live(cs) : Before(p, a) => At(cs, p).ok
    BY <1>8 DEF Settling, Worn
  <2>4. ASSUME NEW p \in Live(cs), NEW q \in Live(cs), Rivals(cs, p, q)
        PROVE  \/ Doomed(cs, a, p, q)
               \/ Doomed(cs, a, q, p)
               \/ ~Spared(cs) /\ (cs[p[1]].state = "clean" \/ cs[q[1]].state = "clean")
    <3>1. p \in Live(bs) /\ q \in Live(bs) /\ Rivals(bs, p, q)
      BY <1>6, <2>4 DEF Worn
    <3>2. \/ Doomed(bs, a, p, q)
          \/ Doomed(bs, a, q, p)
          \/ ~Spared(bs) /\ (bs[p[1]].state = "clean" \/ bs[q[1]].state = "clean")
      BY <1>8, <3>1 DEF Settling
    <3> QED BY <1>1, <1>2, <2>1, <2>2, <3>2
  <2> QED BY <2>3, <2>4 DEF Settling
<1> QED BY <1>1, <1>2, <1>3, <1>4, <1>5, <1>7, <1>8 DEF Worn

LEMMA MarkWorn ==
  ASSUME NEW bs \in Flash, NEW b \in Blocks
  PROVE  Worn(bs, Mark(bs, b))
<1>1. \A p \in Live(Mark(bs, b)) : At(Mark(bs, b), p) = At(bs, p)
  BY MarkFacts, LiveType
<1> QED BY <1>1, MarkFacts DEF Worn

LEMMA KillWorn ==
  ASSUME NEW bs \in Flash, NEW p \in Live(bs)
  PROVE  Worn(bs, Kill(bs, p)) /\ Live(Kill(bs, p)) = Live(bs) \ {p}
<1>1. /\ Kill(bs, p) \in Flash
      /\ \A c \in Blocks : /\ Kill(bs, p)[c].state = bs[c].state
                           /\ ItemCount(Kill(bs, p), c) = ItemCount(bs, c)
      /\ Live(Kill(bs, p)) = Live(bs) \ {p}
      /\ \A q \in Positions \ {p} : q[2] <= ItemCount(bs, q[1]) =>
            At(Kill(bs, p), q) = At(bs, q)
  BY KillFacts
<1>2. \A q \in Live(bs) : q \in Positions /\ q[2] <= ItemCount(bs, q[1])
  BY LiveType
<1>3. \A q \in Live(Kill(bs, p)) : At(Kill(bs, p), q) = At(bs, q)
  BY <1>1, <1>2
<1> QED BY <1>1, <1>3 DEF Worn

LEMMA KillMarkWorn ==
  ASSUME NEW bs \in Flash, NEW p \in Live(bs), NEW b \in Blocks
  PROVE  /\ Worn(bs, Mark(Kill(bs, p), b))
         /\ Live(Mark(Kill(bs, p), b)) = Live(bs) \ {p}
<1> DEFINE cs == Kill(bs, p)
           ds == Mark(cs, b)
<1>1. Worn(bs, cs) /\ Live(cs) = Live(bs) \ {p} /\ cs \in Flash
  BY KillWorn DEF Worn
<1>2. Worn(cs, ds) /\ Live(ds) = Live(cs)
  BY <1>1, MarkWorn, MarkFacts
<1> HIDE DEF cs, ds
<1>3. Worn(bs, ds)
  BY <1>1, <1>2 DEF Worn
<1> QED BY <1>1, <1>2, <1>3 DEF cs, ds

\* After the scan of an item no other is there to which it is the successor,
\* and it is sound if it is still there.
LEMMA RecoveredFacts ==
  ASSUME blocks \in Flash, NEW p \in Positions, p[2] <= ItemCount(blocks, p[1])
  PROVE  /\ Worn(blocks, Recovered(p))
         /\ p \in Live(Recovered(p)) =>
               /\ At(blocks, p).ok
               /\ \A q \in Live(Recovered(p)) :
                     Rivals(blocks, p, q) => At(blocks, p).origin # q
<1>1. p[1] \in Blocks
  BY DEF Positions
<1>2. CASE At(blocks, p) = Deleted
  <2>1. Recovered(p) = Mark(blocks, p[1])
    BY <1>2 DEF Recovered
  <2>2. p \notin Live(blocks)
    BY <1>2 DEF Live
  <2> QED BY <1>1, <2>1, <2>2, MarkWorn DEF Worn
<1>3. CASE At(blocks, p) # Deleted
  <2>0. p \in Live(blocks)
    BY <1>3 DEF Live
  <2>1. CASE ~At(blocks, p).ok
    <3>1. Recovered(p) = Mark(Kill(blocks, p), p[1])
      BY <1>3, <2>1 DEF Recovered
    <3> QED BY <1>1, <2>0, <3>1, KillMarkWorn
  <2>2. CASE At(blocks, p).ok /\ Replaces(p)
    <3> DEFINE o == At(blocks, p).origin
    <3>1. /\ o # p /\ o \in Live(blocks)
          /\ Recovered(p) = IF o[1] <= p[1] THEN Mark(Kill(blocks, o), o[1])
                            ELSE Kill(blocks, o)
      BY <1>3, <2>2 DEF Recovered, Replaces
    <3> HIDE DEF o
    <3>2. o[1] \in Blocks
      BY <3>1, LiveType
    <3>3. Worn(blocks, Recovered(p)) /\ Live(Recovered(p)) = Live(blocks) \ {o}
      BY <3>1, <3>2, KillWorn, KillMarkWorn
    <3> QED BY <2>2, <3>3 DEF o
  <2>3. CASE At(blocks, p).ok /\ ~Replaces(p)
    <3>1. Recovered(p) = blocks
      BY <1>3, <2>3 DEF Recovered
    <3>2. Worn(blocks, blocks)
      BY DEF Worn
    <3>3. ASSUME NEW q \in Live(blocks), Rivals(blocks, p, q), At(blocks, p).origin = q
          PROVE  FALSE
      <4>1. q # None
        BY LiveType, KvFlashAssumption
      <4> QED BY <2>3, <3>3, <4>1 DEF Replaces, Rivals
    <3> QED BY <2>3, <3>1, <3>2, <3>3
  <2> QED BY <2>1, <2>2, <2>3
<1> QED BY <1>2, <1>3

\* Truth does not depend on where the items are.
LEMMA TruthfulKept ==
  ASSUME Truthful, UNCHANGED <<store, req>>,
         \A p \in Live(blocks') : \E q \in Live(blocks) : At(blocks', p) = At(blocks, q)
  PROVE  Truthful'
BY DEF Truthful, Requested

LEMMA SameCall ==
  ASSUME CallInv, UNCHANGED <<store, req, todo>>, pc' \in {"scan", "settle"}, pc = "scan" \/ pc = "settle"
  PROVE  CallInv'
BY DEF CallInv

LEMMA AtType ==
  ASSUME TypeOK
  PROVE  /\ at[1] \in Nat /\ at[2] \in Nat /\ at[1] <= B /\ at[2] <= C + 1 /\ 0 < at[2]
         /\ at = <<at[1], at[2]>>
BY Sizes DEF TypeOK

LEMMA ScanFormatInv ==
  ASSUME Inv, ScanFormat
  PROVE  Inv'
<1>1. /\ blocks \in Flash /\ at[1] \in Blocks /\ blocks[at[1]].state = "none"
      /\ ItemCount(blocks, at[1]) = 0
      /\ pc' = "scan" /\ pc = "scan" /\ at' = <<at[1] + 1, 1>>
  BY DEF Inv, TypeOK, ScanFormat, FlashOK
<1>2. /\ blocks' \in Flash
      /\ \A c \in Blocks :
            /\ blocks'[c].state = IF c = at[1] THEN "clean" ELSE blocks[c].state
            /\ ItemCount(blocks', c) = IF c = at[1] THEN 0 ELSE ItemCount(blocks, c)
      /\ Live(blocks') = {p \in Live(blocks) : p[1] # at[1]}
      /\ \A p \in Positions : p[1] # at[1] => At(blocks', p) = At(blocks, p)
  <2>1. blocks' = Format(blocks, at[1], Clean)
    BY DEF ScanFormat
  <2> QED BY <1>1, <2>1, FormatClean
<1>3. \A p \in Live(blocks') : /\ p \in Live(blocks) /\ At(blocks', p) = At(blocks, p)
                               /\ p[1] # at[1]
  BY <1>2, LiveType
<1>4. TypeOK'
  <2>1. at' \in (0 .. B) \X (1 .. C + 1)
    BY <1>1, AtType, Sizes DEF Inv, Blocks
  <2> QED BY <1>2, <2>1 DEF Inv, TypeOK, ScanFormat
<1>5. FlashOK(blocks')
  BY <1>2 DEF Inv, FlashOK
<1>6. Truthful'
  BY <1>3, TruthfulKept DEF Inv, ScanFormat
<1>7. CallInv'
  BY <1>1, SameCall DEF Inv, ScanFormat
<1>8. Settling(blocks', at')
  <2>1. \A p \in Live(blocks') : Before(p, at') <=> Before(p, at)
    <3>1. \A p \in Live(blocks') : p[1] \in Nat /\ p[2] \in Nat /\ 0 < p[2]
      BY <1>2, LiveType, Sizes
    <3>2. at[1] \in Nat /\ at'[1] = at[1] + 1 /\ at'[2] = 1
      BY <1>1, AtType DEF Inv
    <3> QED BY <1>3, <3>1, <3>2 DEF Before
  <2>2. Settling(blocks, at)
    BY <1>1 DEF Inv, StartInv
  <2>3. Spared(blocks)
    BY <1>1 DEF Spared
  <2>4. \A p, q \in Live(blocks') : Doomed(blocks, at, p, q) => Doomed(blocks', at', p, q)
    BY <1>3, <2>1 DEF Doomed
  <2> QED BY <1>3, <2>1, <2>2, <2>3, <2>4 DEF Settling, Rivals
<1>9. StartInv'
  <2>1. \A b \in Blocks : b < at'[1] => blocks'[b].state # "none"
    <3>1. \A b \in Blocks : b < at[1] => blocks[b].state # "none"
      BY <1>1 DEF Inv, StartInv
    <3>2. \A b \in Blocks : b < at[1] + 1 => b < at[1] \/ b = at[1]
      BY AtType, Sizes DEF Inv
    <3> QED BY <1>1, <1>2, <3>1, <3>2
  <2> QED BY <1>1, <1>8, <2>1 DEF StartInv
<1> QED BY <1>1, <1>4, <1>5, <1>6, <1>7, <1>9
        DEF Inv, SteadyInv, TodoInv, CollectInv, Steady

LEMMA ScanItemInv ==
  ASSUME Inv, ScanItem
  PROVE  Inv'
<1>1. /\ blocks \in Flash /\ at \in Positions /\ at[2] <= ItemCount(blocks, at[1])
      /\ at[1] \in Blocks /\ at[1] < B
      /\ pc' = "scan" /\ pc = "scan" /\ at' = <<at[1], at[2] + 1>>
      /\ blocks' = Recovered(at)
  <2>1. at[1] \in Blocks /\ at[2] <= ItemCount(blocks, at[1]) /\ blocks \in Flash
    BY DEF Inv, TypeOK, ScanItem
  <2>2. ItemCount(blocks, at[1]) \in Nat /\ ItemCount(blocks, at[1]) <= C
    BY <2>1, BlockType
  <2>3. at \in Positions
    BY <2>1, <2>2, AtType, Sizes DEF Inv, Positions
  <2> QED BY <2>1, <2>3, Sizes DEF ScanItem, Blocks
<1>2. /\ Worn(blocks, blocks')
      /\ at \in Live(blocks') =>
            /\ At(blocks, at).ok
            /\ \A q \in Live(blocks') : Rivals(blocks, at, q) => At(blocks, at).origin # q
  BY <1>1, RecoveredFacts
<1>3. /\ blocks' \in Flash
      /\ FlashOK(blocks')
      /\ Settling(blocks', at)
      /\ \A b \in Blocks : blocks'[b].state = "none" <=> blocks[b].state = "none"
  BY <1>1, <1>2, WornFacts DEF Inv, StartInv
<1>4. \A p \in Live(blocks') : /\ p \in Live(blocks) /\ At(blocks', p) = At(blocks, p)
                               /\ p \in Positions
  BY <1>2, <1>3, LiveType DEF Worn
<1>5. TypeOK'
  <2>1. at' \in (0 .. B) \X (1 .. C + 1)
    BY <1>1, AtType, Sizes DEF Inv, Positions
  <2> QED BY <1>3, <2>1 DEF Inv, TypeOK, ScanItem
<1>6. Truthful'
  BY <1>4, TruthfulKept DEF Inv, ScanItem
<1>7. CallInv'
  BY <1>1, SameCall DEF Inv, ScanItem
<1>8. Settling(blocks', at')
  <2>1. \A p \in Positions : Before(p, at') <=> Before(p, at) \/ p = at
    <3>1. \A p \in Positions : p[1] \in Nat /\ p[2] \in Nat /\ p = <<p[1], p[2]>>
      BY Sizes DEF Positions, Blocks
    <3>2. /\ at[1] \in Nat /\ at[2] \in Nat /\ at = <<at[1], at[2]>>
          /\ at'[1] = at[1] /\ at'[2] = at[2] + 1
      BY <1>1, AtType DEF Inv
    <3> QED BY <3>1, <3>2 DEF Before
  <2>2. \A p \in Live(blocks') : Before(p, at') => At(blocks', p).ok
    BY <1>2, <1>3, <1>4, <2>1 DEF Settling
  <2>3. \A p, q \in Live(blocks') :
           Rivals(blocks', p, q) /\ Doomed(blocks', at, p, q) => Doomed(blocks', at', p, q)
    BY <1>2, <1>4, <2>1 DEF Doomed, Rivals
  <2>4. \A p, q \in Live(blocks') : Rivals(blocks', p, q) => Rivals(blocks', q, p)
    BY DEF Rivals
  <2> QED BY <1>3, <2>2, <2>3, <2>4 DEF Settling
<1>9. StartInv'
  <2>1. at'[1] = at[1]
    BY <1>1
  <2> QED BY <1>1, <1>3, <1>8, <2>1 DEF Inv, StartInv
<1> QED BY <1>1, <1>3, <1>5, <1>6, <1>7, <1>9
        DEF Inv, SteadyInv, TodoInv, CollectInv, Steady

LEMMA ScanNextInv ==
  ASSUME Inv, ScanNext
  PROVE  Inv'
<1>1. /\ blocks \in Flash /\ blocks' = blocks
      /\ pc = "scan" /\ pc' \in {"scan", "settle"}
      /\ UNCHANGED <<wb, gc, todo, store, req>>
  BY DEF Inv, TypeOK, ScanNext
<1>2. /\ \A b \in Blocks : b < at[1] => blocks[b].state # "none"
      /\ Settling(blocks, at)
  BY <1>1 DEF Inv, StartInv
<1>3. CASE at[1] = B
  <2>1. pc' = "settle" /\ at' = at
    BY <1>3 DEF ScanNext
  <2>2. StartInv'
    BY <1>1, <1>2, <1>3, <2>1 DEF StartInv
  <2>3. TypeOK' /\ Truthful' /\ CallInv'
    BY <1>1, <2>1, SameCall DEF Inv, TypeOK, Truthful, Requested, Steps
  <2> QED BY <1>1, <2>1, <2>2, <2>3
          DEF Inv, SteadyInv, TodoInv, CollectInv, Steady
<1>4. CASE at[1] # B
  <2>1. /\ pc' = "scan" /\ at' = <<at[1] + 1, 1>>
        /\ blocks[at[1]].state # "none"
        /\ at[2] > ItemCount(blocks, at[1])
        /\ at[1] \in Blocks
    <3>1. at[1] \in Blocks
      BY <1>4, AtType, Sizes DEF Inv, Blocks
    <3> QED BY <1>4, <3>1 DEF ScanNext
  <2>2. TypeOK'
    <3>1. at' \in (0 .. B) \X (1 .. C + 1)
      BY <2>1, AtType, Sizes DEF Inv, Blocks
    <3> QED BY <1>1, <2>1, <3>1 DEF Inv, TypeOK
  <2>3. Truthful' /\ CallInv'
    BY <1>1, <2>1, SameCall DEF Inv, Truthful, Requested
  <2>4. \A p \in Live(blocks) : Before(p, at') <=> Before(p, at)
    <3>1. ASSUME NEW p \in Live(blocks)
          PROVE  /\ p[1] \in Nat /\ p[2] \in Nat /\ 0 < p[2]
                 /\ p[1] = at[1] => p[2] < at[2]
      <4>1. /\ p[1] \in Nat /\ p[2] \in Nat /\ 0 < p[2] /\ p[1] \in Blocks
            /\ p[2] <= ItemCount(blocks, p[1])
        BY <1>1, LiveType, Sizes
      <4>2. ItemCount(blocks, p[1]) \in Nat
        BY <1>1, <4>1, BlockType
      <4> QED BY <2>1, <4>1, <4>2, AtType DEF Inv
    <3>2. at[1] \in Nat /\ at[2] \in Nat /\ at'[1] = at[1] + 1 /\ at'[2] = 1
      BY <2>1, AtType DEF Inv
    <3> QED BY <3>1, <3>2 DEF Before
  <2>5. Settling(blocks', at')
    BY <1>1, <1>2, <2>4 DEF Settling, Doomed
  <2>6. \A b \in Blocks : b < at'[1] => blocks'[b].state # "none"
    <3>1. \A b \in Blocks : b < at[1] + 1 => b < at[1] \/ b = at[1]
      BY AtType, Sizes DEF Inv
    <3> QED BY <1>1, <1>2, <2>1, <3>1
  <2>7. StartInv'
    BY <2>1, <2>5, <2>6 DEF StartInv
  <2> QED BY <1>1, <2>1, <2>2, <2>3, <2>7
          DEF Inv, SteadyInv, TodoInv, CollectInv, Steady
<1> QED BY <1>3, <1>4

\* There is one block at most that is not as clean as it says.
LEMMA UncleanOne ==
  ASSUME blocks \in Flash, FlashOK(blocks), Unclean # {}
  PROVE  /\ Max(Unclean) \in Blocks
         /\ blocks[Max(Unclean)].state = "clean" /\ ItemCount(blocks, Max(Unclean)) # 0
         /\ \A b \in Blocks \ {Max(Unclean)} : blocks[b].state = "clean" => ItemCount(blocks, b) = 0
<1>1. PICK u \in Blocks : blocks[u].state = "clean" /\ ItemCount(blocks, u) # 0
  BY CleanBlock DEF Unclean
<1>2. \A b \in Blocks \ {u} : blocks[b].state = "clean" => ItemCount(blocks, b) = 0
  BY <1>1 DEF FlashOK
<1>3. Unclean = {u}
  BY <1>1, <1>2, CleanBlock DEF Unclean
<1>4. u \in Nat
  BY Sizes
<1>5. Max(Unclean) = u
  BY <1>3, <1>4 DEF Max
<1> QED BY <1>1, <1>2, <1>5

\* At the end of the scan, all items are sound, and two items of a key are
\* there only if the block of one is formatted.
LEMMA SettledFacts ==
  ASSUME Inv, pc = "settle"
  PROVE  /\ blocks \in Flash
         /\ Sound(blocks)
         /\ \A b \in Blocks : blocks[b].state # "none"
         /\ \A p, q \in Live(blocks) : Rivals(blocks, p, q) =>
               ~Spared(blocks) /\ (blocks[p[1]].state = "clean" \/ blocks[q[1]].state = "clean")
<1>1. /\ blocks \in Flash /\ at[1] = B /\ Settling(blocks, at)
      /\ \A b \in Blocks : b < at[1] => blocks[b].state # "none"
  BY DEF Inv, TypeOK, StartInv
<1>2. \A b \in Blocks : b < B
  BY Sizes DEF Blocks
<1>3. \A p \in Live(blocks) : Before(p, at)
  BY <1>1, <1>2, LiveType DEF Before
<1> QED BY <1>1, <1>2, <1>3 DEF Settling, Sound, Doomed

LEMMA CleanCount ==
  ASSUME NEW bs \in Flash
  PROVE  /\ Cardinality(CleanBlocks(bs)) \in Nat
         /\ Cardinality(CleanBlocks(bs)) >= 1 <=> CleanBlocks(bs) # {}
         /\ Cardinality(CleanBlocks(bs)) <= 1 <=>
               \A b, c \in Blocks : bs[b] = Clean /\ bs[c] = Clean => b = c
<1> DEFINE S == CleanBlocks(bs)
<1>1. IsFiniteSet(Blocks)
  BY Sizes, FS_Interval DEF Blocks
<1>2. IsFiniteSet(S) /\ Cardinality(S) \in Nat
  BY <1>1, FS_Subset, FS_CardinalityType DEF CleanBlocks
<1> HIDE DEF S
<1>3. Cardinality(S) >= 1 <=> S # {}
  BY <1>2, FS_EmptySet
<1>4. ASSUME Cardinality(S) <= 1, NEW b \in S, NEW c \in S
      PROVE  b = c
  <2>1. Cardinality(S) = 1
    BY <1>2, <1>3, <1>4
  <2> QED BY <1>2, <1>4, <2>1, FS_Singleton
<1>5. ASSUME \A b, c \in S : b = c
      PROVE  Cardinality(S) <= 1
  <2>1. CASE S = {}
    BY <2>1, FS_EmptySet
  <2>2. CASE S # {}
    <3>1. PICK b : S = {b}
      BY <1>5, <2>2
    <3> QED BY <3>1, FS_Singleton
  <2> QED BY <2>1, <2>2
<1> QED BY <1>2, <1>3, <1>4, <1>5 DEF S, CleanBlocks

LEMMA SettleInv ==
  ASSUME Inv, Settle
  PROVE  Inv'
<1> DEFINE u == Max(Unclean)
<1>1. /\ blocks \in Flash /\ Sound(blocks) /\ FlashOK(blocks)
      /\ pc = "settle" /\ pc' = "settle" /\ at[1] = B
      /\ UNCHANGED <<wb, gc, at, todo, store, req>>
      /\ \A b \in Blocks : blocks[b].state # "none"
      /\ \A p, q \in Live(blocks) : Rivals(blocks, p, q) =>
            ~Spared(blocks) /\ (blocks[p[1]].state = "clean" \/ blocks[q[1]].state = "clean")
  BY SettledFacts DEF Inv, Settle, StartInv
<1>2. /\ u \in Blocks
      /\ blocks[u].state = "clean" /\ ItemCount(blocks, u) # 0
      /\ \A b \in Blocks \ {u} : blocks[b].state = "clean" => ItemCount(blocks, b) = 0
  BY <1>1, UncleanOne DEF Settle
<1>3. blocks' = IF Cardinality(CleanBlocks(blocks)) >= Reserved
                THEN SetState(blocks, u, "dirty") ELSE Format(blocks, u, Clean)
  BY DEF Settle
<1> HIDE DEF u
<1>4. \A p \in Live(blocks) : p[1] \in Blocks /\ p \in Positions /\ ItemCount(blocks, p[1]) # 0
  <2>1. \A p \in Live(blocks) : /\ p[1] \in Blocks /\ p \in Positions /\ p[2] \in 1 .. C
                                /\ p[2] <= ItemCount(blocks, p[1])
    BY <1>1, LiveType
  <2> QED BY <2>1, Sizes
\* What both ways of dealing with the block have in common.
<1>5. ASSUME blocks' \in Flash, NoRivals(blocks'), Sound(blocks'),
             \A b \in Blocks : /\ blocks'[b].state # "none"
                               /\ blocks'[b].state = "clean" => ItemCount(blocks', b) = 0,
             \A p \in Live(blocks') : \E q \in Live(blocks) : At(blocks', p) = At(blocks, q)
      PROVE  Inv'
  <2>1. TypeOK' /\ FlashOK(blocks') /\ Truthful' /\ CallInv'
    BY <1>1, <1>5, TruthfulKept, SameCall DEF Inv, TypeOK, FlashOK
  <2>2. Settling(blocks', at')
    BY <1>5 DEF Settling, NoRivals, Sound
  <2> QED BY <1>1, <1>5, <2>1, <2>2
          DEF Inv, StartInv, SteadyInv, TodoInv, CollectInv, Steady
<1>6. CASE Cardinality(CleanBlocks(blocks)) >= 1
  <2>1. Spared(blocks)
    BY <1>1, <1>6, CleanCount DEF Spared, CleanBlocks
  <2>2. NoRivals(blocks)
    BY <1>1, <2>1 DEF NoRivals
  <2>3. blocks' = SetState(blocks, u, "dirty")
    BY <1>3, <1>6 DEF Reserved
  <2>4. /\ blocks' \in Flash
        /\ \A c \in Blocks : /\ blocks'[c].state = IF c = u THEN "dirty" ELSE blocks[c].state
                             /\ ItemCount(blocks', c) = ItemCount(blocks, c)
        /\ Live(blocks') = Live(blocks)
        /\ \A p \in Positions : At(blocks', p) = At(blocks, p)
    BY <1>1, <1>2, <2>3, SetStateFacts, StateNames
  <2>5. NoRivals(blocks') /\ Sound(blocks')
    BY <1>1, <1>4, <2>2, <2>4 DEF NoRivals, Sound, Rivals
  <2> QED BY <1>1, <1>2, <1>4, <1>5, <2>4, <2>5
<1>7. CASE ~(Cardinality(CleanBlocks(blocks)) >= 1)
  <2>1. blocks' = Format(blocks, u, Clean)
    BY <1>3, <1>7 DEF Reserved
  <2>2. /\ blocks' \in Flash
        /\ \A c \in Blocks :
              /\ blocks'[c].state = IF c = u THEN "clean" ELSE blocks[c].state
              /\ ItemCount(blocks', c) = IF c = u THEN 0 ELSE ItemCount(blocks, c)
        /\ Live(blocks') = {p \in Live(blocks) : p[1] # u}
        /\ \A p \in Positions : p[1] # u => At(blocks', p) = At(blocks, p)
    BY <1>1, <1>2, <2>1, FormatClean
  <2>3. \A p \in Live(blocks') : /\ p \in Live(blocks) /\ At(blocks', p) = At(blocks, p)
                                 /\ blocks[p[1]].state # "clean"
    BY <1>2, <1>4, <2>2
  <2>4. NoRivals(blocks') /\ Sound(blocks')
    BY <1>1, <2>3 DEF NoRivals, Sound, Rivals
  <2> QED BY <1>1, <1>2, <1>5, <2>2, <2>3, <2>4
<1> QED BY <1>6, <1>7

LEMMA SettleCleanInv ==
  ASSUME Inv, SettleClean
  PROVE  Inv'
<1>1. /\ blocks \in Flash /\ Sound(blocks) /\ FlashOK(blocks)
      /\ pc = "settle" /\ pc' = "settle" /\ at[1] = B
      /\ UNCHANGED <<wb, gc, at, todo, store, req>>
      /\ \A b \in Blocks : blocks[b].state # "none"
      /\ Settling(blocks, at)
  BY SettledFacts DEF Inv, SettleClean, StartInv
<1>2. \A b \in Blocks : blocks[b].state # "clean"
  BY <1>1, CleanBlock DEF SettleClean, Unclean, CleanBlocks
<1>3. NoRivals(blocks)
  BY <1>1, <1>2, SettledFacts, LiveType DEF NoRivals
<1>4. /\ blocks' \in Flash
      /\ \A c \in Blocks :
            /\ blocks'[c].state = IF c = 0 THEN "clean" ELSE blocks[c].state
            /\ ItemCount(blocks', c) = IF c = 0 THEN 0 ELSE ItemCount(blocks, c)
      /\ Live(blocks') = {p \in Live(blocks) : p[1] # 0}
      /\ \A p \in Positions : p[1] # 0 => At(blocks', p) = At(blocks, p)
  BY <1>1, Sizes, FormatClean DEF SettleClean
<1>5. \A p \in Live(blocks') : p \in Live(blocks) /\ At(blocks', p) = At(blocks, p)
  BY <1>1, <1>4, LiveType
<1>6. TypeOK' /\ FlashOK(blocks') /\ Truthful' /\ CallInv'
  BY <1>1, <1>2, <1>4, <1>5, TruthfulKept, SameCall DEF Inv, TypeOK, FlashOK
<1>7. Settling(blocks', at')
  BY <1>1, <1>3, <1>5 DEF Settling, NoRivals, Sound, Rivals
<1> QED BY <1>1, <1>4, <1>6, <1>7
        DEF Inv, StartInv, SteadyInv, TodoInv, CollectInv, Steady

\* Of blocks in a circle that are not all clean and not all in use, one that
\* is in use comes before a clean one.
LEMMA LastInUseExists ==
  ASSUME NEW u \in Blocks, NEW c \in Blocks,
         blocks[u].state # "clean", blocks[c].state = "clean",
         \A b \in Blocks : blocks[b].state \in {"clean", "used", "dirty"}
  PROVE  LastInUse # {}
<1> DEFINE Used(b) == blocks[b].state # "clean"
<1>1. CASE \E a, b \in Blocks : a < b /\ Used(a) /\ ~Used(b)
  <2>1. PICK a \in Blocks : Used(a) /\ \E b \in Blocks : a < b /\ ~Used(b)
    BY <1>1
  <2> DEFINE after == {b \in Blocks : a < b /\ ~Used(b)}
  <2>2. after # {} /\ after \in SUBSET Nat
    BY <2>1, Sizes
  <2> HIDE DEF after
  <2>3. PICK b \in after : \A d \in after : b <= d
    BY <2>2, Least
  <2>4. b \in Blocks /\ a < b /\ ~Used(b) /\ a \in Nat /\ b \in Nat
    BY <2>3, Sizes DEF after
  <2>5. b - 1 \in Blocks /\ (b - 1 = a \/ a < b - 1) /\ ~(b <= b - 1)
    BY <2>4, Sizes DEF Blocks
  <2>6. Used(b - 1)
    BY <2>1, <2>3, <2>5 DEF after
  <2>7. (b - 1 + 1) % B = b
    BY <2>4, Sizes DEF Blocks
  <2>8. b - 1 \in LastInUse
    BY <2>4, <2>5, <2>6, <2>7 DEF LastInUse
  <2> QED BY <2>8
<1>2. CASE ~ \E a, b \in Blocks : a < b /\ Used(a) /\ ~Used(b)
  <2>1. B - 1 \in Blocks /\ 0 \in Blocks /\ (B - 1 + 1) % B = 0
        /\ \A b \in Blocks : (b = 0 \/ 0 < b) /\ (b = B - 1 \/ b < B - 1)
    BY Sizes DEF Blocks
  <2>2. Used(B - 1) /\ ~Used(0)
    BY <1>2, <2>1
  <2>3. B - 1 \in LastInUse
    BY <2>1, <2>2 DEF LastInUse
  <2> QED BY <2>3
<1> QED BY <1>1, <1>2

LEMMA InitInv == Init => Inv
<1> SUFFICES ASSUME Init PROVE Inv
  OBVIOUS
<1>1. /\ blocks = [b \in Blocks |-> Erased]
      /\ wb = 0 /\ gc = FALSE /\ pc = "scan" /\ at = <<0, 1>> /\ todo = {}
      /\ store = [k \in Keys |-> None] /\ req = None
  BY DEF Init
<1>2. << >> \in Seq(Items \cup {Deleted}) /\ Len(<< >>) = 0
  BY EmptySeq
<1>3. \A b \in Blocks : ItemCount(blocks, b) = 0 /\ blocks[b].state = "none"
  BY <1>1, <1>2 DEF ItemCount, Erased
<1>4. Erased \in BlockContents
  BY <1>2 DEF Erased, BlockContents, States
<1>5. blocks \in Flash
  <2>1. blocks \in [Blocks -> BlockContents]
    BY <1>1, <1>4
  <2> QED BY <1>3, <2>1, Sizes DEF Flash
<1>6. Live(blocks) = {}
  <2>1. \A p \in Live(blocks) : p[1] \in Blocks /\ p[2] \in 1 .. C /\ p[2] <= 0
    BY <1>3, <1>5, LiveType
  <2> QED BY <2>1, Sizes
<1>7. TypeOK
  <2>1. at \in (0 .. B) \X (1 .. C + 1)
    BY <1>1, Sizes
  <2> QED BY <1>1, <1>5, <2>1, Sizes DEF TypeOK, Steps
<1>8. FlashOK(blocks) /\ Truthful /\ CallInv
  BY <1>1, <1>3, <1>6 DEF FlashOK, Truthful, CallInv
<1>9. StartInv
  <2>1. \A b \in Blocks : ~(b < at[1])
    BY <1>1, Sizes DEF Blocks
  <2> QED BY <1>1, <1>6, <2>1 DEF StartInv, Settling
<1> QED BY <1>1, <1>7, <1>8, <1>9 DEF Inv, SteadyInv, TodoInv, CollectInv, Steady

\* A loop around the write position that ends because a call returns.
LEMMA ReturnInv ==
  ASSUME TypeOK', FlashOK(blocks'), Return, todo' = {},
         InUse(blocks'), blocks'[wb'].state # "clean", Sound(blocks'), NoRivals(blocks'),
         gc' => OneCleanAtMost',
         \A p \in Live(blocks') : At(blocks', p).val \in Vals
  PROVE  Inv'
<1>1. blocks' \in Flash /\ pc' = "idle" /\ req' = None
  BY DEF TypeOK, Return
<1>2. Truthful' /\ store' \in [Keys -> Vals \cup {None}]
  BY <1>1, ReturnFacts
<1>3. CallInv'
  BY <1>1, <1>2 DEF CallInv
<1>4. SteadyInv'
  BY <1>1 DEF SteadyInv
<1> QED BY <1>1, <1>2, <1>3, <1>4 DEF Inv, StartInv, TodoInv, CollectInv

LEMMA InitializedInv ==
  ASSUME Inv, Initialized
  PROVE  Inv'
<1>1. /\ blocks \in Flash /\ Sound(blocks) /\ FlashOK(blocks)
      /\ pc = "settle"
      /\ \A b \in Blocks : blocks[b].state # "none"
  BY SettledFacts DEF Inv, Initialized
<1>2. PICK c \in Blocks : blocks[c] = Clean
  BY DEF Initialized, CleanBlocks
<1>3. NoRivals(blocks)
  BY <1>1, <1>2, SettledFacts DEF NoRivals, Spared
<1>4. \A b \in Blocks : blocks[b].state = "clean" => blocks[b] = Clean /\ ItemCount(blocks, b) = 0
  BY <1>1, CleanBlock DEF Initialized, Unclean
<1>5. \A p \in Live(blocks) : At(blocks, p).val \in Vals
  BY <1>1 DEF Inv, Truthful, Sound
<1>6. todo' = {}
  BY <1>1 DEF Inv, CallInv, Initialized
<1>7. /\ blocks' \in Flash
      /\ \A b \in Blocks : /\ blocks'[b].state = blocks[b].state \/ blocks'[b].state = "used"
                           /\ ItemCount(blocks', b) = ItemCount(blocks, b)
      /\ Live(blocks') = Live(blocks)
      /\ \A p \in Live(blocks) : At(blocks', p) = At(blocks, p)
  <2>1. CASE CleanBlocks(blocks) = Blocks
    <3>1. blocks' = SetState(blocks, 0, "used")
      BY <2>1 DEF Initialized
    <3>2. \A p \in Live(blocks) : p \in Positions
      BY <1>1, LiveType
    <3> QED BY <1>1, <3>1, <3>2, SetStateFacts, StateNames, Sizes
  <2>2. CASE CleanBlocks(blocks) # Blocks
    <3>1. blocks' = blocks
      BY <2>2 DEF Initialized
    <3> QED BY <1>1, <3>1
  <2> QED BY <2>1, <2>2
<1>8. wb' \in Blocks /\ blocks'[wb'].state # "clean"
  <2>1. CASE CleanBlocks(blocks) = Blocks
    <3>1. \A b \in Blocks : blocks[b].state = "clean"
      BY <2>1, CleanBlock, <1>1 DEF CleanBlocks
    <3>2. LastInUse = {}
      BY <3>1 DEF LastInUse
    <3>3. wb' = 0 /\ blocks' = SetState(blocks, 0, "used")
      BY <2>1, <3>2 DEF Initialized
    <3>4. blocks'[0].state = "used"
      BY <1>1, <3>3, SetStateFacts, StateNames, Sizes
    <3> QED BY <3>3, <3>4, Sizes
  <2>2. CASE CleanBlocks(blocks) # Blocks
    <3>1. PICK u \in Blocks : blocks[u] # Clean
      BY <2>2 DEF CleanBlocks
    <3>2. blocks[u].state # "clean" /\ blocks[c].state = "clean"
      BY <1>2, <1>4, <3>1 DEF Clean
    <3>3. \A b \in Blocks : blocks[b].state \in {"clean", "used", "dirty"}
      BY <1>1, BlockType DEF States
    <3>4. LastInUse # {}
      BY <3>2, <3>3, LastInUseExists
    <3>5. LastInUse \in SUBSET Nat /\ LastInUse \subseteq Blocks
      BY Sizes DEF LastInUse
    <3>6. wb' = Min(LastInUse) /\ blocks' = blocks
      BY <2>2, <3>4 DEF Initialized
    <3>7. wb' \in LastInUse
      BY <3>4, <3>5, <3>6, MinExists
    <3> QED BY <3>5, <3>6, <3>7 DEF LastInUse
  <2> QED BY <2>1, <2>2
<1>9. gc' => OneCleanAtMost'
  <2>1. gc' => Cardinality(CleanBlocks(blocks')) <= 1
    <3>1. Cardinality(CleanBlocks(blocks')) \in Nat
      BY <1>7, CleanCount
    <3>2. gc' => Cardinality(CleanBlocks(blocks')) < Reserved + 1
      BY Zenon DEF Initialized
    <3> QED BY <3>1, <3>2 DEF Reserved
  <2> QED BY <1>7, <2>1, CleanCount DEF OneCleanAtMost
<1>10. TypeOK'
  <2>1. gc' \in BOOLEAN /\ pc' \in Steps
    BY DEF Initialized, Return, Steps
  <2> QED BY <1>6, <1>7, <1>8, <2>1 DEF Inv, TypeOK, Initialized
<1>11. FlashOK(blocks') /\ InUse(blocks')
  BY <1>1, <1>4, <1>7 DEF FlashOK, InUse
<1>12. Sound(blocks') /\ NoRivals(blocks')
  BY <1>1, <1>3, <1>7 DEF Sound, NoRivals, Rivals
<1>13. \A p \in Live(blocks') : At(blocks', p).val \in Vals
  BY <1>5, <1>7
<1> QED BY <1>6, <1>8, <1>9, <1>10, <1>11, <1>12, <1>13, ReturnInv DEF Initialized

-----------------------------------------------------------------------------
(* Calls.                                                                  *)

\* The block to write to has room and is in use; a collection is asked for
\* when there is one clean block or none.
LEMMA PositionFacts ==
  ASSUME Inv, pc = "idle", ~gc, Position
  PROVE  /\ blocks' \in Flash /\ wb' \in Blocks /\ gc' \in BOOLEAN
         /\ pc' \in {"write", "spin", "idle"}
         /\ \A b \in Blocks :
               /\ ItemCount(blocks', b) = ItemCount(blocks, b)
               /\ blocks'[b].state = blocks[b].state \/ blocks'[b].state = "used"
         /\ Live(blocks') = Live(blocks)
         /\ \A p \in Positions : At(blocks', p) = At(blocks, p)
         /\ pc' = "write" => ItemCount(blocks', wb') < C
         /\ blocks'[wb'].state # "clean"
         /\ gc' => OneCleanAtMost'
<1>1. /\ blocks \in Flash /\ wb \in Blocks /\ blocks[wb].state # "clean"
  BY DEF Inv, TypeOK, SteadyInv, Steady
<1> DEFINE room == {b \in Blocks : HasRoom(b)}
<1>2. CASE HasRoom(wb)
  <2>1. /\ pc' = "write" /\ blocks' = blocks /\ wb' = wb
        /\ gc' \in BOOLEAN
        /\ gc' => Cardinality(CleanBlocks(blocks)) <= Reserved
    BY <1>2, Zenon DEF Position
  <2>2. gc' => \A b, c \in Blocks : blocks[b] = Clean /\ blocks[c] = Clean => b = c
    BY <1>1, <2>1, CleanCount DEF Reserved
  <2> QED BY <1>1, <1>2, <2>1, <2>2 DEF HasRoom, OneCleanAtMost
<1>3. CASE ~HasRoom(wb) /\ room # {}
  <2>1. /\ wb' = NextIn(wb, room) /\ pc' = "write" /\ gc' = gc
        /\ blocks' = IF blocks[wb'].state = "clean"
                     THEN SetState(blocks, wb', "used") ELSE blocks
    BY <1>3 DEF Position
  <2>2. wb' \in Blocks /\ HasRoom(wb')
    <3> HIDE DEF room
    <3>1. room \subseteq Blocks
      BY DEF room
    <3>2. wb' \in room
      BY <1>1, <1>3, <2>1, <3>1, NextExists
    <3> QED BY <3>2 DEF room
  <2> HIDE DEF room
  <2>3. gc' \in BOOLEAN /\ ~gc'
    BY <2>1, Zenon DEF Inv, TypeOK
  <2>4. /\ blocks' \in Flash
        /\ \A b \in Blocks :
              /\ ItemCount(blocks', b) = ItemCount(blocks, b)
              /\ blocks'[b].state = blocks[b].state \/ blocks'[b].state = "used"
        /\ Live(blocks') = Live(blocks)
        /\ \A p \in Positions : At(blocks', p) = At(blocks, p)
        /\ blocks'[wb'].state # "clean"
    <3>1. CASE blocks[wb'].state = "clean"
      <4>1. PICK w \in Blocks : w = wb'
        BY <2>2
      <4>2. blocks' = SetState(blocks, w, "used")
        BY <2>1, <3>1, <4>1
      <4>3. \A b \in Blocks :
               /\ blocks'[b].state = IF b = w THEN "used" ELSE blocks[b].state
               /\ ItemCount(blocks', b) = ItemCount(blocks, b)
        BY <1>1, <4>2, SetUsed
      <4>4. /\ blocks' \in Flash /\ Live(blocks') = Live(blocks)
            /\ \A p \in Positions : At(blocks', p) = At(blocks, p)
        BY <1>1, <4>2, SetUsed
      <4>5. blocks'[w].state # "clean"
        BY <4>3
      <4>6. blocks'[wb'].state # "clean"
        BY <4>1, <4>5, Zenon
      <4> QED BY <4>3, <4>4, <4>6
    <3>2. CASE blocks[wb'].state # "clean"
      BY <1>1, <2>1, <3>2
    <3> QED BY <3>1, <3>2
  <2> QED BY <2>1, <2>2, <2>3, <2>4 DEF HasRoom
<1>4. CASE ~HasRoom(wb) /\ room = {}
  <2>1. /\ pc' \in {"spin", "idle"} /\ gc' \in BOOLEAN /\ blocks' = blocks /\ wb' = wb
    BY <1>4 DEF Position
  <2>2. ASSUME NEW b \in Blocks
        PROVE  blocks[b] # Clean
    <3>1. ~(ItemCount(blocks, b) < C)
      BY <1>4 DEF HasRoom
    <3> QED BY <1>1, <3>1, CleanBlock, Sizes
  <2> QED BY <1>1, <2>1, <2>2 DEF OneCleanAtMost
<1> QED BY <1>2, <1>3, <1>4

\* What a call finds: the items, one for a key, hold what the keys have.
LEMMA IdleFacts ==
  ASSUME Inv, pc = "idle"
  PROVE  /\ blocks \in Flash /\ InUse(blocks) /\ Sound(blocks) /\ NoRivals(blocks)
         /\ wb \in Blocks /\ blocks[wb].state # "clean"
         /\ req = None /\ todo = {}
         /\ \A p \in Live(blocks) : /\ p \in Positions
                                    /\ At(blocks, p).key \in Keys
                                    /\ At(blocks, p).val \in Vals
                                    /\ At(blocks, p).val = store[At(blocks, p).key]
         /\ \A k : ItemsOf(blocks, k) = {p \in Live(blocks) : At(blocks, p).key = k}
<1>1. /\ blocks \in Flash /\ InUse(blocks) /\ Sound(blocks) /\ NoRivals(blocks)
      /\ wb \in Blocks /\ blocks[wb].state # "clean"
      /\ req = None /\ todo = {}
  BY DEF Inv, TypeOK, SteadyInv, Steady, CallInv
<1>2. \A p \in Live(blocks) : /\ p \in Positions /\ p[1] \in Blocks
                              /\ ItemCount(blocks, p[1]) # 0
                              /\ At(blocks, p).key \in Keys
  <2>1. \A p \in Live(blocks) : /\ p \in Positions /\ p[1] \in Blocks /\ p[2] \in 1 .. C
                                /\ p[2] <= ItemCount(blocks, p[1])
                                /\ At(blocks, p) \in Items
    BY <1>1, LiveType
  <2> QED BY <2>1, Sizes DEF Items
<1>3. \A p \in Live(blocks) : At(blocks, p).val \in Vals /\ At(blocks, p).val = store[At(blocks, p).key]
  BY <1>1 DEF Inv, Truthful, Sound, Requested
<1>4. \A k : ItemsOf(blocks, k) = {p \in Live(blocks) : At(blocks, p).key = k}
  BY <1>1, <1>2 DEF ItemsOf, InUse
<1> QED BY <1>1, <1>2, <1>3, <1>4

LEMMA SetInv ==
  ASSUME Inv, NEW k \in Keys, NEW v \in Vals, Set(k, v)
  PROVE  Inv'
<1> DEFINE old == ItemsOf(blocks, k)
<1>1. /\ pc = "idle" /\ ~gc /\ Position /\ at' = at /\ store' = store
      /\ req' = IF pc' = "idle" THEN None ELSE [op |-> "set", key |-> k, val |-> v]
      /\ todo' = IF pc' = "write" /\ old # {} THEN {First(old)} ELSE {}
  BY DEF Set
<1>2. /\ InUse(blocks) /\ Sound(blocks) /\ NoRivals(blocks)
      /\ req = None
      /\ \A p \in Live(blocks) : /\ p \in Positions
                                 /\ At(blocks, p).key \in Keys
                                 /\ At(blocks, p).val \in Vals
                                 /\ At(blocks, p).val = store[At(blocks, p).key]
      /\ old = {p \in Live(blocks) : At(blocks, p).key = k}
  BY <1>1, IdleFacts
<1>3. old \subseteq Positions /\ (old # {} => old = {First(old)})
  <2>1. old \subseteq Positions
    BY <1>2
  <2>2. ASSUME old # {}
        PROVE  old = {First(old)}
    <3>1. First(old) \in old
      BY <2>1, <2>2, FirstExists
    <3>2. \A p \in old : p = First(old)
      BY <1>2, <3>1 DEF NoRivals, Rivals
    <3> QED BY <3>1, <3>2
  <2> QED BY <2>1, <2>2
<1> HIDE DEF old
<1>4. /\ blocks' \in Flash /\ wb' \in Blocks /\ gc' \in BOOLEAN
      /\ pc' \in {"write", "spin", "idle"}
      /\ \A b \in Blocks :
            /\ ItemCount(blocks', b) = ItemCount(blocks, b)
            /\ blocks'[b].state = blocks[b].state \/ blocks'[b].state = "used"
      /\ Live(blocks') = Live(blocks)
      /\ \A p \in Live(blocks) : At(blocks', p) = At(blocks, p)
      /\ pc' = "write" => ItemCount(blocks', wb') < C
      /\ blocks'[wb'].state # "clean"
      /\ gc' => OneCleanAtMost'
  BY <1>1, <1>2, PositionFacts
<1>5. todo' = IF pc' = "write" THEN old ELSE {}
  BY <1>1, <1>3
<1>6. TypeOK'
  <2>1. pc' \in Steps /\ at' \in (0 .. B) \X (1 .. C + 1)
    BY <1>1, <1>4 DEF Steps, Inv, TypeOK
  <2> QED BY <1>3, <1>4, <1>5, <2>1 DEF TypeOK
<1>7. FlashOK(blocks') /\ InUse(blocks')
  BY <1>2, <1>4 DEF FlashOK, InUse
<1>8. Sound(blocks') /\ NoRivals(blocks')
  BY <1>2, <1>4 DEF Sound, NoRivals, Rivals
<1>9. Truthful'
  BY <1>1, <1>2, <1>4 DEF Truthful
<1>10. CallInv' /\ (pc' # "idle" => req'.key = k)
  <2>1. /\ [op |-> "set", key |-> k, val |-> v] \in Promise!Requests
        /\ [op |-> "set", key |-> k, val |-> v] # None
    BY SetRequest
  <2> QED BY <1>1, <1>4, <1>5, <2>1 DEF CallInv, Inv
<1>11. SteadyInv'
  BY <1>4, <1>7, <1>8 DEF SteadyInv
<1>12. TodoInv'
  <2>1. pc' = "write" => todo' = {p \in Live(blocks') : At(blocks', p).key = req'.key}
    BY <1>2, <1>4, <1>5, <1>10
  <2> QED BY <1>4, <2>1 DEF TodoInv, HasRoom
<1> QED BY <1>4, <1>6, <1>7, <1>9, <1>10, <1>11, <1>12 DEF Inv, StartInv, CollectInv

LEMMA WriteInv ==
  ASSUME Inv, Write
  PROVE  Inv'
<1> DEFINE item == [key |-> req.key, val |-> req.val, ok |-> TRUE,
                    origin |-> IF todo = {} THEN None ELSE First(todo)]
           n == Next1(blocks, wb)
<1>1. /\ pc = "write" /\ blocks' = Put(blocks, wb, item)
      /\ UNCHANGED <<wb, gc, at, todo>>
      /\ IF todo = {} THEN Return ELSE pc' = "unlink" /\ UNCHANGED <<store, req>>
  BY DEF Write
<1>2. /\ blocks \in Flash /\ wb \in Blocks /\ ItemCount(blocks, wb) < C
      /\ InUse(blocks) /\ Sound(blocks) /\ NoRivals(blocks)
      /\ blocks[wb].state # "clean"
      /\ gc => OneCleanAtMost
      /\ todo = {p \in Live(blocks) : At(blocks, p).key = req.key}
      /\ req.op = "set" /\ req \in Promise!Requests
  BY <1>1 DEF Inv, TypeOK, SteadyInv, Steady, TodoInv, CallInv, HasRoom
<1>3. req.key \in Keys /\ req.val \in Vals
  BY <1>2, RequestFacts
<1>4. \A p \in Live(blocks) : p \in Positions /\ p[1] \in Blocks /\ p[2] <= ItemCount(blocks, p[1])
  BY <1>2, LiveType
<1>5. todo \subseteq Live(blocks) /\ (todo # {} => todo = {First(todo)})
  <2>1. todo \subseteq Live(blocks) /\ todo \subseteq Positions
    BY <1>2, <1>4
  <2>2. ASSUME todo # {}
        PROVE  todo = {First(todo)}
    <3>1. First(todo) \in todo
      BY <2>1, <2>2, FirstExists
    <3>2. \A p \in todo : p = First(todo)
      BY <1>2, <3>1 DEF NoRivals, Rivals
    <3> QED BY <3>1, <3>2
  <2> QED BY <2>1, <2>2
<1>6. item \in Items /\ item # Deleted
  <2>1. todo # {} => First(todo) \in Positions
    BY <1>4, <1>5
  <2>2. item \in Items
    BY <1>3, <2>1 DEF Items
  <2> QED BY <2>2, DeletedNoItem
<1>7. item.key = req.key /\ item.val = req.val /\ item.ok = TRUE
      /\ (todo # {} => item.origin = First(todo))
  OBVIOUS
<1> HIDE DEF item, n
<1>8. /\ blocks' \in Flash
      /\ \A c \in Blocks :
            /\ blocks'[c].state = blocks[c].state
            /\ ItemCount(blocks', c) = IF c = wb THEN ItemCount(blocks, wb) + 1
                                       ELSE ItemCount(blocks, c)
      /\ n \in Positions /\ n \notin Live(blocks)
      /\ Live(blocks') = Live(blocks) \cup {n}
      /\ At(blocks', n) = item
      /\ \A p \in Live(blocks) : At(blocks', p) = At(blocks, p)
  <2>1. item \in Items \cup {Deleted}
    BY <1>6
  <2> QED BY <1>1, <1>2, <1>4, <1>6, <2>1, PutFacts DEF n
<1>9. /\ InUse(blocks') /\ FlashOK(blocks') /\ Sound(blocks')
      /\ blocks'[wb'].state # "clean"
      /\ gc' => OneCleanAtMost'
  <2>1. \A b \in Blocks : blocks'[b].state = "clean" =>
           ItemCount(blocks', b) = ItemCount(blocks, b) /\ blocks[b].state = "clean"
    BY <1>2, <1>8
  <2>2. InUse(blocks') /\ FlashOK(blocks')
    BY <1>2, <1>8, <2>1 DEF InUse, FlashOK
  <2>3. \A b \in Blocks : blocks'[b] = Clean => blocks[b] = Clean
    BY <1>2, <1>8, <2>1, CleanBlock
  <2> QED BY <1>1, <1>2, <1>7, <1>8, <2>2, <2>3 DEF Sound, OneCleanAtMost
<1>10. \A p, q \in Live(blocks') : Rivals(blocks', p, q) =>
          (p = n /\ q \in todo) \/ (q = n /\ p \in todo)
  BY <1>2, <1>7, <1>8 DEF NoRivals, Rivals
<1>11. \A p \in Live(blocks') : At(blocks', p).val \in Vals
  BY <1>2, <1>3, <1>7, <1>8 DEF Inv, Truthful, Sound
<1>12. TypeOK'
  <2>1. pc' \in Steps
    BY <1>1 DEF Return, Steps
  <2> QED BY <1>1, <1>8, <2>1 DEF Inv, TypeOK
<1>13. CASE todo = {}
  <2>1. NoRivals(blocks')
    BY <1>10, <1>13 DEF NoRivals
  <2> QED BY <1>1, <1>9, <1>11, <1>12, <1>13, <2>1, ReturnInv
<1>14. CASE todo # {}
  <2>1. pc' = "unlink" /\ UNCHANGED <<store, req>>
    BY <1>1, <1>14
  <2>2. Truthful'
    <3>1. \A p \in Live(blocks) :
             /\ At(blocks, p).val \in {store[At(blocks, p).key]} \cup Requested(At(blocks, p).key)
      BY <1>2 DEF Inv, Truthful, Sound
    <3>2. req.val \in Requested(req.key)
      BY <1>2, RequestFacts DEF Requested
    <3> QED BY <1>7, <1>8, <1>11, <2>1, <3>1, <3>2 DEF Truthful, Requested
  <2>3. CallInv'
    BY <1>1, <2>1 DEF Inv, CallInv
  <2>4. SteadyInv'
    BY <1>9, <2>1 DEF SteadyInv
  <2>5. TodoInv'
    <3>1. ASSUME NEW p \in Live(blocks'), NEW q \in Live(blocks'), Rivals(blocks', p, q)
          PROVE  Superseded(p, q)' \/ Superseded(q, p)'
      BY <1>1, <1>5, <1>7, <1>8, <1>10, <3>1 DEF Superseded
    <3>2. n \in Live(blocks') \ todo'
      BY <1>1, <1>5, <1>8
    <3>3. todo' = {First(todo')} /\ todo' \subseteq Live(blocks')
      BY <1>1, <1>5, <1>8, <1>14
    <3> QED BY <1>1, <1>2, <1>7, <1>8, <1>14, <2>1, <3>1, <3>2, <3>3 DEF TodoInv
  <2> QED BY <1>9, <1>12, <2>1, <2>2, <2>3, <2>4, <2>5 DEF Inv, StartInv, CollectInv
<1> QED BY <1>13, <1>14

\* A deletion of all the items with the keys ks.
LEMMA DeleteInv ==
  ASSUME Inv, NEW ks, NEW ps, Delete(ks, ps),
         [op |-> "delete", keys |-> ks] \in Promise!Requests,
         ps = {p \in Live(blocks) : At(blocks, p).key \in ks}
  PROVE  Inv'
<1>1. /\ pc = "idle" /\ pc' = "unlink" /\ ps # {} /\ todo' = ps
      /\ req' = [op |-> "delete", keys |-> ks]
      /\ UNCHANGED <<blocks, wb, gc, at, store>>
  BY DEF Delete
<1>2. /\ InUse(blocks) /\ Sound(blocks) /\ NoRivals(blocks) /\ req = None
      /\ \A p \in Live(blocks) : /\ p \in Positions
                                 /\ At(blocks, p).val \in Vals
                                 /\ At(blocks, p).val = store[At(blocks, p).key]
  BY <1>1, IdleFacts
<1>3. req' # None /\ req'.op = "delete" /\ req'.keys = ks /\ req' \in Promise!Requests
  BY <1>1, RequestFacts
<1>4. TypeOK' /\ Truthful'
  BY <1>1, <1>2 DEF Inv, TypeOK, Truthful, Steps
<1>5. CallInv'
  BY <1>1, <1>3 DEF Inv, CallInv
<1>6. SteadyInv'
  BY <1>1 DEF Inv, SteadyInv, Steady, OneCleanAtMost
<1>7. TodoInv'
  <2>1. todo' \subseteq Live(blocks') /\ todo' # {}
    BY <1>1
  <2>2. \A p \in Live(blocks') : At(blocks', p).key \in req'.keys <=> p \in todo'
    BY <1>1, <1>3
  <2> QED BY <1>1, <1>2, <1>3, <2>1, <2>2 DEF TodoInv, NoRivals
<1> QED BY <1>1, <1>4, <1>5, <1>6, <1>7 DEF Inv, StartInv, CollectInv

LEMMA DeleteKeyInv ==
  ASSUME Inv, NEW k \in Keys, DeleteKey(k)
  PROVE  Inv'
<1> DEFINE old == ItemsOf(blocks, k)
           ps == IF old = {} THEN {} ELSE {First(old)}
<1>1. Delete({k}, ps) /\ ps # {} /\ pc = "idle"
  BY DEF DeleteKey, Delete
<1>2. /\ NoRivals(blocks)
      /\ old = {p \in Live(blocks) : At(blocks, p).key = k}
      /\ old \in SUBSET Positions
  BY <1>1, IdleFacts
<1>3. old # {} /\ ps = {First(old)}
  BY <1>1
<1> HIDE DEF old, ps
<1>4. First(old) \in old
  BY <1>2, <1>3, FirstExists
<1>5. \A p \in old : p = First(old)
  BY <1>2, <1>4 DEF NoRivals, Rivals
<1>6. ps = {p \in Live(blocks) : At(blocks, p).key \in {k}}
  BY <1>2, <1>3, <1>4, <1>5
<1>7. [op |-> "delete", keys |-> {k}] \in Promise!Requests
  BY DEF Promise!Requests
<1> QED BY <1>1, <1>6, <1>7, DeleteInv

LEMMA DeletePrefixInv ==
  ASSUME Inv, NEW ks \in PrefixSets, DeletePrefix(ks)
  PROVE  Inv'
<1>1. [op |-> "delete", keys |-> ks] \in Promise!Requests
  BY DEF Promise!Requests
<1> QED BY <1>1, DeleteInv DEF DeletePrefix

LEMMA UnlinkInv ==
  ASSUME Inv, Unlink
  PROVE  Inv'
<1> DEFINE f == First(todo)
<1>1. /\ pc = "unlink" /\ pc' = "mark" /\ blocks' = Kill(blocks, f)
      /\ UNCHANGED <<wb, gc, at, todo, store, req>>
  BY DEF Unlink
<1>2. /\ blocks \in Flash /\ todo \in SUBSET Positions /\ todo # {} /\ todo \subseteq Live(blocks)
      /\ InUse(blocks) /\ Sound(blocks) /\ FlashOK(blocks)
      /\ wb \in Blocks /\ blocks[wb].state # "clean"
      /\ gc => OneCleanAtMost
      /\ \A p, q \in Live(blocks) : Rivals(blocks, p, q) =>
            /\ req.op = "set"
            /\ Superseded(p, q) \/ Superseded(q, p)
      /\ req.op = "set" =>
            /\ todo = {f}
            /\ \E p \in Live(blocks) \ todo :
                  At(blocks, p).key = req.key /\ At(blocks, p).val = req.val
      /\ req.op = "delete" =>
            \A p \in Live(blocks) : At(blocks, p).key \in req.keys <=> p \in todo
  BY <1>1 DEF Inv, TypeOK, SteadyInv, Steady, TodoInv
<1>3. f \in todo /\ f \in Live(blocks)
  BY <1>2, FirstExists
<1> HIDE DEF f
<1>4. Worn(blocks, blocks') /\ Live(blocks') = Live(blocks) \ {f}
  BY <1>1, <1>2, <1>3, KillWorn
<1>5. /\ blocks' \in Flash /\ FlashOK(blocks') /\ InUse(blocks') /\ Sound(blocks')
      /\ \A b \in Blocks : blocks'[b] = Clean <=> blocks[b] = Clean
      /\ blocks'[wb].state # "clean"
      /\ \A p \in Live(blocks') : At(blocks', p) = At(blocks, p)
  BY <1>2, <1>4, WornFacts DEF Worn
<1>6. NoRivals(blocks')
  <2>1. ASSUME NEW p \in Live(blocks'), NEW q \in Live(blocks'), Rivals(blocks', p, q)
        PROVE  FALSE
    <3>1. p \in Live(blocks) \ {f} /\ q \in Live(blocks) \ {f} /\ Rivals(blocks, p, q)
      BY <1>4, <1>5, <2>1 DEF Rivals
    <3>2. todo = {f} /\ (Superseded(p, q) \/ Superseded(q, p))
      BY <1>2, <3>1
    <3> QED BY <3>1, <3>2 DEF Superseded
  <2> QED BY <2>1 DEF NoRivals
<1>7. TypeOK' /\ Truthful' /\ CallInv'
  BY <1>1, <1>4, <1>5, TruthfulKept DEF Inv, TypeOK, Steps, CallInv
<1>8. SteadyInv'
  BY <1>1, <1>2, <1>5, <1>6 DEF SteadyInv, OneCleanAtMost
<1>9. TodoInv'
  <2>1. f = First(todo')
    BY <1>1 DEF f
  <2>2. todo' = todo /\ req' = req /\ pc' = "mark"
    BY <1>1
  <2>3. req.op = "set" =>
            /\ todo = {f}
            /\ \E p \in Live(blocks') \ todo :
                  At(blocks', p).key = req.key /\ At(blocks', p).val = req.val
    BY <1>2, <1>4, <1>5
  <2>4. req.op = "delete" =>
            \A p \in Live(blocks') : At(blocks', p).key \in req.keys <=> p \in todo
    BY <1>2, <1>4, <1>5
  <2>5. f \notin Live(blocks') /\ todo \ {f} \subseteq Live(blocks')
    BY <1>2, <1>4
  <2> QED BY <1>2, <2>1, <2>2, <2>3, <2>4, <2>5 DEF TodoInv
<1> QED BY <1>1, <1>5, <1>7, <1>8, <1>9 DEF Inv, StartInv, CollectInv

LEMMA MarkDirtyInv ==
  ASSUME Inv, MarkDirty
  PROVE  Inv'
<1> DEFINE f == First(todo)
<1>1. /\ pc = "mark" /\ blocks' = Mark(blocks, f[1]) /\ todo' = todo \ {f}
      /\ IF todo' = {} THEN Return ELSE pc' = "unlink" /\ UNCHANGED <<store, req>>
      /\ UNCHANGED <<wb, gc, at>>
  BY DEF MarkDirty
<1>2. /\ blocks \in Flash /\ todo \in SUBSET Positions /\ todo # {}
      /\ InUse(blocks) /\ Sound(blocks) /\ FlashOK(blocks) /\ NoRivals(blocks)
      /\ wb \in Blocks /\ blocks[wb].state # "clean"
      /\ gc => OneCleanAtMost
      /\ f \notin Live(blocks)
      /\ todo \ {f} \subseteq Live(blocks)
      /\ req.op = "set" => todo = {f}
      /\ req.op = "delete" =>
            \A p \in Live(blocks) : At(blocks, p).key \in req.keys <=> p \in todo
      /\ req \in Promise!Requests
  BY <1>1 DEF Inv, TypeOK, SteadyInv, Steady, TodoInv, CallInv
<1>3. f \in Positions /\ f[1] \in Blocks
  <2>1. f \in Positions
    BY <1>2, FirstExists
  <2> HIDE DEF f
  <2> QED BY <2>1 DEF Positions
<1> HIDE DEF f
<1>4. Worn(blocks, blocks') /\ Live(blocks') = Live(blocks)
  BY <1>1, <1>2, <1>3, MarkWorn, MarkFacts
<1>5. /\ blocks' \in Flash /\ FlashOK(blocks') /\ InUse(blocks') /\ Sound(blocks')
      /\ NoRivals(blocks')
      /\ \A b \in Blocks : blocks'[b] = Clean <=> blocks[b] = Clean
      /\ blocks'[wb].state # "clean"
      /\ \A p \in Live(blocks') : At(blocks', p) = At(blocks, p)
  BY <1>2, <1>4, WornFacts DEF Worn
<1>6. TypeOK'
  <2>1. pc' \in Steps
    BY <1>1 DEF Return, Steps
  <2> QED BY <1>1, <1>2, <1>5, <2>1 DEF Inv, TypeOK
<1>7. CASE todo' = {}
  <2>1. \A p \in Live(blocks') : At(blocks', p).val \in Vals
    BY <1>2, <1>4, <1>5 DEF Inv, Truthful, Sound
  <2>2. gc' => OneCleanAtMost'
    BY <1>1, <1>2, <1>5 DEF OneCleanAtMost
  <2> QED BY <1>1, <1>5, <1>6, <1>7, <2>1, <2>2, ReturnInv
<1>8. CASE todo' # {}
  <2>1. pc' = "unlink" /\ store' = store /\ req' = req
    BY <1>1, <1>8
  <2>2. req.op # "set" /\ req # None
    BY <1>1, <1>2, <1>8, RequestFacts
  <2>3. Truthful' /\ CallInv'
    BY <1>1, <1>4, <1>5, <1>8, <2>1, <2>2, TruthfulKept DEF Inv, CallInv
  <2>4. SteadyInv'
    BY <1>1, <1>2, <1>5, <2>1 DEF SteadyInv, OneCleanAtMost
  <2>5. TodoInv'
    <3>1. req.op = "delete" =>
            \A p \in Live(blocks') : At(blocks', p).key \in req.keys <=> p \in todo'
      BY <1>1, <1>2, <1>4, <1>5
    <3>2. todo' \subseteq Live(blocks')
      BY <1>1, <1>2, <1>4
    <3> QED BY <1>5, <1>8, <2>1, <2>2, <3>1, <3>2 DEF TodoInv, NoRivals
  <2> QED BY <1>5, <1>6, <2>1, <2>3, <2>4, <2>5 DEF Inv, StartInv, CollectInv
<1> QED BY <1>7, <1>8

-----------------------------------------------------------------------------
(* Collections.                                                            *)

LEMMA CollectStartInv ==
  ASSUME Inv, Collect
  PROVE  Inv'
<1> DEFINE dirty == {b \in Blocks : blocks[b].state = "dirty"}
<1>1. /\ pc = "idle" /\ gc /\ UNCHANGED <<blocks, todo, store, req>>
      /\ OneCleanAtMost /\ req = None /\ todo = {}
      /\ InUse(blocks) /\ Sound(blocks) /\ NoRivals(blocks)
      /\ blocks \in Flash /\ wb \in Blocks
  BY IdleFacts DEF Collect, Inv, SteadyInv, Steady
<1>2. CASE CleanBlocks(blocks) # {} /\ dirty # {}
  <2>1. /\ wb' = Min(CleanBlocks(blocks)) /\ at' = <<NextIn(wb, dirty), 1>>
        /\ pc' = "copy" /\ gc' = gc
    BY <1>2 DEF Collect
  <2>2. wb' \in Blocks /\ blocks[wb'] = Clean
    <3>1. CleanBlocks(blocks) \in SUBSET Nat
      BY Sizes DEF CleanBlocks
    <3>2. wb' \in CleanBlocks(blocks)
      BY <1>2, <2>1, <3>1, MinExists
    <3> QED BY <3>2 DEF CleanBlocks
  <2>3. at'[1] \in Blocks /\ blocks[at'[1]].state = "dirty" /\ at'[2] = 1
        /\ at' = <<at'[1], 1>>
    <3> HIDE DEF dirty
    <3>1. dirty \subseteq Blocks
      BY DEF dirty
    <3>2. NextIn(wb, dirty) \in dirty
      BY <1>1, <1>2, <3>1, NextExists
    <3> QED BY <2>1, <3>2 DEF dirty
  <2> HIDE DEF dirty
  <2>4. PICK w \in Blocks : w = wb' /\ blocks[w] = Clean
    BY <2>2
  <2>5. blocks[w].state = "clean" /\ ItemCount(blocks, w) = 0
    BY <1>1, <2>4, CleanBlock
  <2>6. \A b \in Blocks \ {w} : blocks[b].state \in {"used", "dirty"}
    <3>1. ASSUME NEW b \in Blocks \ {w}, blocks[b].state = "clean"
          PROVE  FALSE
      <4>1. blocks[b] = Clean
        BY <1>1, <3>1, CleanBlock DEF InUse
      <4> QED BY <1>1, <2>4, <4>1 DEF OneCleanAtMost
    <3>2. \A b \in Blocks : blocks[b].state \in {"clean", "used", "dirty"}
      BY <1>1, BlockType DEF States, InUse
    <3> QED BY <3>1, <3>2
  <2>7. \A p \in Live(blocks) : p[1] # w /\ ~(p[2] < 1)
    <3>1. \A p \in Live(blocks) : p[2] \in 1 .. C /\ p[2] <= ItemCount(blocks, p[1])
      BY <1>1, LiveType
    <3> QED BY <2>5, <3>1, Sizes
  <2>8. TypeOK'
    <3>1. at' \in (0 .. B) \X (1 .. C + 1)
      BY <2>3, Sizes DEF Blocks
    <3>2. gc' \in BOOLEAN
      BY <2>1, Zenon DEF Inv, TypeOK
    <3> QED BY <1>1, <2>1, <2>2, <3>1, <3>2 DEF Inv, TypeOK, Steps
  <2>9. Truthful' /\ CallInv'
    BY <1>1, <2>1 DEF Inv, Truthful, Requested, CallInv
  <2>10. CollectInv'
    <3>1. at'[1] \in Blocks \ {wb'} /\ 0 < at'[2]
      BY <2>3, <2>4, <2>5
    <3>2. ItemCount(blocks', wb') < at'[2] /\ blocks'[wb'].state = "clean"
      BY <1>1, <2>3, <2>4, <2>5
    <3>3. \A p \in Live(blocks') : p[1] # wb' /\ ~(p[2] < at'[2])
      BY <1>1, <2>3, <2>4, <2>7
    <3>4. \A b \in Blocks \ {wb', at'[1]} : blocks'[b].state \in {"used", "dirty"}
      BY <1>1, <2>4, <2>6
    <3>5. \A p, q \in Live(blocks') : ~Rivals(blocks', p, q)
      BY <1>1 DEF NoRivals
    <3> QED BY <1>1, <2>1, <2>3, <3>1, <3>2, <3>3, <3>4, <3>5 DEF CollectInv
  <2> QED BY <1>1, <2>1, <2>8, <2>9, <2>10 DEF Inv, StartInv, SteadyInv, TodoInv, Steady
<1>3. CASE ~(CleanBlocks(blocks) # {} /\ dirty # {})
  <2>1. gc' = FALSE /\ UNCHANGED <<wb, at, pc>>
    BY <1>3 DEF Collect
  <2>2. TypeOK' /\ Truthful' /\ CallInv'
    BY <1>1, <2>1 DEF Inv, TypeOK, Truthful, Requested, CallInv
  <2> QED BY <1>1, <2>1, <2>2 DEF Inv, StartInv, SteadyInv, TodoInv, CollectInv, Steady
<1> QED BY <1>2, <1>3

\* The item that is copied next.
LEMMA LeftFacts ==
  ASSUME Inv, pc = "copy", Left # {}
  PROVE  /\ First(Left) \in Live(blocks)
         /\ First(Left)[1] = at[1] /\ at[2] <= First(Left)[2]
         /\ First(Left)[2] \in 1 .. C
         /\ At(blocks, First(Left)) \in Items
         /\ \A p \in Live(blocks) :
               p[1] = at[1] /\ p[2] <= First(Left)[2] => p[2] < at[2] \/ p = First(Left)
         /\ ItemCount(blocks, wb) < C
<1>1. blocks \in Flash /\ wb \in Blocks /\ ItemCount(blocks, wb) < at[2] /\ at[2] \in Nat
  BY AtType DEF Inv, TypeOK, CollectInv
<1>2. Left \in SUBSET Positions
  BY DEF Left, Live
<1> DEFINE f == First(Left)
<1>3. f \in Left /\ \A q \in Left \ {f} : Before(f, q)
  BY <1>2, FirstExists
<1> HIDE DEF f
<1>4. f \in Live(blocks) /\ f[1] = at[1] /\ at[2] <= f[2]
  BY <1>3 DEF Left
<1>5. f[2] \in 1 .. C /\ At(blocks, f) \in Items /\ f[1] \in Blocks
  BY <1>1, <1>4, LiveType
<1>6. ASSUME NEW p \in Live(blocks), p[1] = at[1], p[2] <= f[2], ~(p[2] < at[2])
      PROVE  p = f
  <2>1. p[2] \in 1 .. C /\ p[1] \in Blocks
    BY <1>1, LiveType
  <2>2. p \in Left
    BY <1>1, <1>6, <2>1, Sizes DEF Left
  <2>3. ~Before(f, p)
    <3>1. f[1] \in Nat /\ p[1] = f[1]
      BY <1>4, <1>5, <1>6, Sizes
    <3> QED BY <1>5, <1>6, <2>1, <3>1, Sizes DEF Before
  <2> QED BY <1>3, <2>2, <2>3
<1>7. ItemCount(blocks, wb) < C
  <2>1. ItemCount(blocks, wb) \in Nat
    BY <1>1, BlockType
  <2> QED BY <1>1, <1>4, <1>5, <2>1, Sizes
<1> QED BY <1>4, <1>5, <1>6, <1>7 DEF f

LEMMA CopyInv ==
  ASSUME Inv, Copy
  PROVE  Inv'
<1>0. PICK f, n : f = First(Left) /\ n = Next1(blocks, wb)
  OBVIOUS
<1> DEFINE item == At(blocks, f)
<1>1. /\ pc = "copy" /\ pc' = "copy" /\ Left # {}
      /\ blocks' = Put(blocks, wb, item)
      /\ at' = <<at[1], f[2] + 1>>
      /\ UNCHANGED <<wb, gc, todo, store, req>>
  BY <1>0 DEF Copy
<1>2. /\ f \in Live(blocks)
      /\ f[1] = at[1] /\ at[2] <= f[2] /\ f[2] \in 1 .. C
      /\ item \in Items
      /\ \A p \in Live(blocks) :
            p[1] = at[1] /\ p[2] <= f[2] => p[2] < at[2] \/ p = f
      /\ ItemCount(blocks, wb) < C
  BY <1>0, <1>1, LeftFacts
<1>3. /\ blocks \in Flash /\ wb \in Blocks /\ at[1] \in Blocks \ {wb} /\ FlashOK(blocks)
      /\ blocks[wb].state = "clean"
      /\ \A b \in Blocks \ {wb, at[1]} : blocks[b].state \in {"used", "dirty"}
      /\ Sound(blocks)
      /\ blocks[at[1]].state = "dirty"
      /\ ItemCount(blocks, wb) < at[2]
      /\ \A p, q \in Live(blocks) : Rivals(blocks, p, q) =>
            (p[1] = wb /\ q[1] = at[1]) \/ (q[1] = wb /\ p[1] = at[1])
      /\ \A c \in Live(blocks) : c[1] = wb => \E p \in Live(blocks) : Copied(p, c)
      /\ \A p \in Live(blocks) : p[1] = at[1] /\ p[2] < at[2] =>
            \E c \in Live(blocks) : Copied(p, c)
  BY <1>1 DEF Inv, TypeOK, CollectInv
<1> HIDE DEF item
<1>4. item # Deleted /\ item \in Items \cup {Deleted}
  BY <1>2, DeletedNoItem
<1>5. \A p \in Live(blocks) : /\ p \in Positions /\ p[1] \in Blocks /\ p[2] \in 1 .. C
                              /\ p[2] <= ItemCount(blocks, p[1])
  BY <1>3, LiveType
<1>6. /\ blocks' \in Flash
      /\ \A c \in Blocks :
            /\ blocks'[c].state = blocks[c].state
            /\ ItemCount(blocks', c) = IF c = wb THEN ItemCount(blocks, wb) + 1
                                       ELSE ItemCount(blocks, c)
      /\ n \in Positions /\ n \notin Live(blocks) /\ n[1] = wb
      /\ Live(blocks') = Live(blocks) \cup {n}
      /\ At(blocks', n) = item
      /\ \A p \in Live(blocks) : At(blocks', p) = At(blocks, p)
  BY <1>1, <1>2, <1>3, <1>4, <1>5, <1>0, PutFacts DEF Next1
<1>7. /\ at'[1] = at[1] /\ at'[2] = f[2] + 1
      /\ at[1] \in Nat /\ at[2] \in Nat /\ at' = <<at'[1], at'[2]>>
  BY <1>1, AtType DEF Inv
<1>8. TypeOK'
  <2>1. at' \in (0 .. B) \X (1 .. C + 1)
    BY <1>2, <1>3, <1>7, Sizes DEF Blocks
  <2> QED BY <1>1, <1>6, <2>1 DEF Inv, TypeOK
<1>9. FlashOK(blocks')
  BY <1>3, <1>6 DEF FlashOK
<1>10. Truthful' /\ CallInv'
  <2>1. \A p \in Live(blocks') : \E q \in Live(blocks) : At(blocks', p) = At(blocks, q)
    BY <1>2, <1>6 DEF item
  <2> QED BY <1>1, <2>1, TruthfulKept DEF Inv, CallInv
<1>11. Sound(blocks')
  BY <1>2, <1>3, <1>6 DEF Sound, item
<1>12. \A q \in Live(blocks) : At(blocks, q).key = item.key /\ q # f => q[1] = wb /\ q[2] # 0
  <2>1. ASSUME NEW q \in Live(blocks), At(blocks, q).key = item.key, q # f
        PROVE  q[1] = wb
    BY <1>2, <1>3, <2>1 DEF Rivals, item
  <2> QED BY <1>5, <2>1
<1>13. \A q \in Live(blocks) : At(blocks, q).key = item.key => q = f
  <2>1. ASSUME NEW q \in Live(blocks), At(blocks, q).key = item.key, q # f
        PROVE  FALSE
    <3>1. q[1] = wb
      BY <1>12, <2>1
    <3>2. PICK p \in Live(blocks) : Copied(p, q)
      BY <1>3, <3>1
    <3>3. p[1] = at[1] /\ p[2] < at[2] /\ At(blocks, p).key = item.key
      BY <2>1, <3>2 DEF Copied
    <3>4. p # f
      BY <1>2, <1>5, <1>7, <3>3
    <3> QED BY <1>3, <1>12, <3>3, <3>4
  <2> QED BY <2>1
<1>14. \A p, q \in Live(blocks') : Rivals(blocks', p, q) =>
          (p[1] = wb /\ q[1] = at[1]) \/ (q[1] = wb /\ p[1] = at[1])
  BY <1>2, <1>3, <1>6, <1>13 DEF Rivals
<1>15. \A p, c \in Live(blocks) : Copied(p, c) => Copied(p, c)'
  <2>1. \A p \in Live(blocks) : p[2] < at[2] => p[2] < at'[2]
    BY <1>2, <1>5, <1>7
  <2> QED BY <1>1, <1>6, <1>7, <2>1 DEF Copied
<1>16. Copied(f, n)'
  <2>1. f[2] < at'[2]
    BY <1>2, <1>7
  <2> QED BY <1>1, <1>2, <1>6, <1>7, <2>1 DEF Copied, item
<1>17. \A c \in Live(blocks') : c[1] = wb' => \E p \in Live(blocks') : Copied(p, c)'
  BY <1>1, <1>2, <1>3, <1>6, <1>15, <1>16
<1>18. ASSUME NEW p \in Live(blocks'), p[1] = at'[1], p[2] < at'[2]
       PROVE  \E c \in Live(blocks') : Copied(p, c)'
  <2>1. p \in Live(blocks) /\ p[2] <= f[2]
    BY <1>2, <1>3, <1>5, <1>6, <1>7, <1>18
  <2>2. p = f \/ \E c \in Live(blocks) : Copied(p, c)
    BY <1>2, <1>3, <1>7, <1>18, <2>1
  <2> QED BY <1>6, <1>15, <1>16, <2>1, <2>2
<1>19. ItemCount(blocks', wb') < at'[2]
  <2>1. ItemCount(blocks, wb) \in Nat
    BY <1>3, BlockType
  <2> QED BY <1>1, <1>2, <1>3, <1>6, <1>7, <2>1
<1>20. CollectInv'
  <2>1. /\ at'[1] \in Blocks \ {wb'}
        /\ blocks'[wb'].state = "clean"
        /\ blocks'[at'[1]].state = "dirty"
        /\ \A b \in Blocks \ {wb', at'[1]} : blocks'[b].state \in {"used", "dirty"}
    BY <1>1, <1>3, <1>6, <1>7
  <2>2. \A p, q \in Live(blocks') : Rivals(blocks', p, q) =>
          (p[1] = wb' /\ q[1] = at'[1]) \/ (q[1] = wb' /\ p[1] = at'[1])
    BY <1>1, <1>7, <1>14
  <2> QED BY <1>1, <1>11, <1>17, <1>18, <1>19, <2>1, <2>2 DEF CollectInv
<1> QED BY <1>1, <1>8, <1>9, <1>10, <1>20 DEF Inv, StartInv, SteadyInv, TodoInv, Steady

LEMMA EraseInv ==
  ASSUME Inv, Erase
  PROVE  Inv'
<1>1. /\ pc = "copy" /\ pc' = "header" /\ Left = {}
      /\ blocks' = Format(blocks, at[1], Erased)
      /\ UNCHANGED <<wb, gc, at, todo, store, req>>
  BY DEF Erase
<1>2. /\ blocks \in Flash /\ wb \in Blocks /\ at[1] \in Blocks \ {wb}
      /\ blocks[wb].state = "clean"
      /\ \A b \in Blocks \ {wb, at[1]} : blocks[b].state \in {"used", "dirty"}
      /\ Sound(blocks)
      /\ \A p, q \in Live(blocks) : Rivals(blocks, p, q) =>
            (p[1] = wb /\ q[1] = at[1]) \/ (q[1] = wb /\ p[1] = at[1])
  BY <1>1 DEF Inv, TypeOK, CollectInv
<1>3. /\ blocks' \in Flash
      /\ \A c \in Blocks :
            /\ blocks'[c].state = IF c = at[1] THEN "none" ELSE blocks[c].state
            /\ ItemCount(blocks', c) = IF c = at[1] THEN 0 ELSE ItemCount(blocks, c)
      /\ Live(blocks') = {p \in Live(blocks) : p[1] # at[1]}
      /\ \A p \in Positions : p[1] # at[1] => At(blocks', p) = At(blocks, p)
  <2>1. PICK d \in Blocks : d = at[1]
    BY <1>2
  <2>2. blocks' = Format(blocks, d, Erased)
    BY <1>1, <2>1
  <2>3. blocks \in Flash
    BY <1>2
  <2>4. /\ blocks' \in Flash
        /\ \A c \in Blocks :
              /\ blocks'[c].state = IF c = d THEN "none" ELSE blocks[c].state
              /\ ItemCount(blocks', c) = IF c = d THEN 0 ELSE ItemCount(blocks, c)
        /\ Live(blocks') = {p \in Live(blocks) : p[1] # d}
        /\ \A p \in Positions : p[1] # d => At(blocks', p) = At(blocks, p)
    BY <2>2, <2>3, FormatErased
  <2> QED BY <2>1, <2>4
<1>4. blocks'[at[1]] = Erased
  BY <1>1, <1>2 DEF Format, Flash
<1>5. \A p \in Live(blocks') : p \in Live(blocks) /\ p[1] # at[1] /\ At(blocks', p) = At(blocks, p)
  BY <1>2, <1>3, LiveType
<1>6. TypeOK' /\ FlashOK(blocks') /\ Truthful' /\ CallInv'
  <2>1. FlashOK(blocks')
    BY <1>2, <1>3 DEF FlashOK
  <2> QED BY <1>1, <1>3, <1>5, <2>1, TruthfulKept DEF Inv, TypeOK, CallInv, Steps
<1>7. NoRivals(blocks') /\ Sound(blocks')
  BY <1>2, <1>5 DEF NoRivals, Rivals, Sound
<1>8. CollectInv'
  <2>1. /\ at'[1] \in Blocks \ {wb'} /\ blocks'[wb'].state = "clean"
        /\ \A b \in Blocks \ {wb', at'[1]} : blocks'[b].state \in {"used", "dirty"}
    BY <1>1, <1>2, <1>3
  <2> QED BY <1>1, <1>4, <1>7, <2>1 DEF CollectInv
<1> QED BY <1>1, <1>6, <1>8 DEF Inv, StartInv, SteadyInv, TodoInv, Steady

LEMMA HeaderInv ==
  ASSUME Inv, Header
  PROVE  Inv'
<1>1. /\ pc = "header" /\ pc' = "used"
      /\ blocks' = Format(blocks, at[1], Clean)
      /\ UNCHANGED <<wb, gc, at, todo, store, req>>
  BY DEF Header
<1>2. /\ blocks \in Flash /\ wb \in Blocks /\ at[1] \in Blocks \ {wb}
      /\ blocks[wb].state = "clean"
      /\ \A b \in Blocks \ {wb, at[1]} : blocks[b].state \in {"used", "dirty"}
      /\ Sound(blocks) /\ NoRivals(blocks)
  BY <1>1 DEF Inv, TypeOK, CollectInv
<1>3. /\ blocks' \in Flash
      /\ \A c \in Blocks :
            /\ blocks'[c].state = IF c = at[1] THEN "clean" ELSE blocks[c].state
            /\ ItemCount(blocks', c) = IF c = at[1] THEN 0 ELSE ItemCount(blocks, c)
      /\ Live(blocks') = {p \in Live(blocks) : p[1] # at[1]}
      /\ \A p \in Positions : p[1] # at[1] => At(blocks', p) = At(blocks, p)
  <2>1. PICK d \in Blocks : d = at[1]
    BY <1>2
  <2>2. blocks' = Format(blocks, d, Clean)
    BY <1>1, <2>1
  <2>3. blocks \in Flash
    BY <1>2
  <2>4. /\ blocks' \in Flash
        /\ \A c \in Blocks :
              /\ blocks'[c].state = IF c = d THEN "clean" ELSE blocks[c].state
              /\ ItemCount(blocks', c) = IF c = d THEN 0 ELSE ItemCount(blocks, c)
        /\ Live(blocks') = {p \in Live(blocks) : p[1] # d}
        /\ \A p \in Positions : p[1] # d => At(blocks', p) = At(blocks, p)
    BY <2>2, <2>3, FormatClean
  <2> QED BY <2>1, <2>4
<1>4. blocks'[at[1]] = Clean
  BY <1>1, <1>2 DEF Format, Flash
<1>5. \A p \in Live(blocks') : p \in Live(blocks) /\ At(blocks', p) = At(blocks, p)
  BY <1>2, <1>3, LiveType
<1>6. TypeOK' /\ FlashOK(blocks') /\ Truthful' /\ CallInv'
  <2>1. FlashOK(blocks')
    BY <1>2, <1>3 DEF FlashOK
  <2> QED BY <1>1, <1>3, <1>5, <2>1, TruthfulKept DEF Inv, TypeOK, CallInv, Steps
<1>7. NoRivals(blocks') /\ Sound(blocks')
  BY <1>2, <1>5 DEF NoRivals, Rivals, Sound
<1>8. CollectInv'
  <2>1. /\ at'[1] \in Blocks \ {wb'} /\ blocks'[wb'].state = "clean"
        /\ \A b \in Blocks \ {wb', at'[1]} : blocks'[b].state \in {"used", "dirty"}
    BY <1>1, <1>2, <1>3
  <2> QED BY <1>1, <1>4, <1>7, <2>1 DEF CollectInv
<1> QED BY <1>1, <1>6, <1>8 DEF Inv, StartInv, SteadyInv, TodoInv, Steady

LEMMA CollectedInv ==
  ASSUME Inv, Collected
  PROVE  Inv'
<1>1. /\ pc = "used" /\ gc' = FALSE /\ Return
      /\ blocks' = SetState(blocks, wb, "used")
      /\ UNCHANGED <<wb, at, todo>>
  BY DEF Collected
<1>2. /\ blocks \in Flash /\ wb \in Blocks /\ at[1] \in Blocks \ {wb}
      /\ \A b \in Blocks \ {wb, at[1]} : blocks[b].state \in {"used", "dirty"}
      /\ Sound(blocks) /\ NoRivals(blocks)
      /\ blocks[at[1]] = Clean
      /\ todo = {}
  BY <1>1 DEF Inv, TypeOK, CollectInv, CallInv
<1>3. blocks[at[1]].state = "clean" /\ ItemCount(blocks, at[1]) = 0
  BY <1>2, CleanBlock
<1>4. /\ blocks' \in Flash
      /\ \A c \in Blocks :
            /\ blocks'[c].state = IF c = wb THEN "used" ELSE blocks[c].state
            /\ ItemCount(blocks', c) = ItemCount(blocks, c)
      /\ Live(blocks') = Live(blocks)
      /\ \A p \in Positions : At(blocks', p) = At(blocks, p)
  BY <1>1, <1>2, SetUsed
<1>5. \A p \in Live(blocks') : p \in Live(blocks) /\ At(blocks', p) = At(blocks, p)
  BY <1>2, <1>4, LiveType
<1>6. TypeOK' /\ FlashOK(blocks')
  <2>1. FlashOK(blocks')
    BY <1>2, <1>3, <1>4 DEF FlashOK
  <2>2. pc' \in Steps
    BY <1>1 DEF Return, Steps
  <2> QED BY <1>1, <1>4, <2>1, <2>2 DEF Inv, TypeOK
<1>7. NoRivals(blocks') /\ Sound(blocks')
  BY <1>2, <1>5 DEF NoRivals, Rivals, Sound
<1>8. InUse(blocks') /\ blocks'[wb'].state # "clean"
  BY <1>1, <1>2, <1>3, <1>4 DEF InUse
<1>9. \A p \in Live(blocks') : At(blocks', p).val \in Vals
  BY <1>2, <1>5 DEF Inv, Truthful, Sound
<1> QED BY <1>1, <1>2, <1>6, <1>7, <1>8, <1>9, ReturnInv

-----------------------------------------------------------------------------
(* Loss of power.                                                          *)

\* An item that is cut short is no item, or a sound one's rival that the scan
\* removes.
LEMMA TornFacts ==
  ASSUME blocks \in Flash, wb \in Blocks, ItemCount(blocks, wb) < C, NEW key \in Keys,
         blocks' \in Torn(blocks, key)
  PROVE  /\ blocks' \in Flash
         /\ \A c \in Blocks :
               /\ blocks'[c].state = blocks[c].state
               /\ ItemCount(blocks', c) = ItemCount(blocks, c)
                     \/ (c = wb /\ ItemCount(blocks', c) = ItemCount(blocks, c) + 1)
         /\ \A p \in Live(blocks') :
               ~At(blocks', p).ok \/ (p \in Live(blocks) /\ At(blocks', p) = At(blocks, p))
         /\ \A p \in Live(blocks) : p \in Live(blocks') /\ At(blocks', p) = At(blocks, p)
<1> DEFINE bad == [key |-> key, val |-> None, origin |-> None, ok |-> FALSE]
<1>1. bad \in Items /\ ~bad.ok /\ bad # Deleted
  <2>1. bad \in Items
    BY DEF Items
  <2> QED BY <2>1, DeletedNoItem
<1>2. blocks' = blocks \/ \E item \in {Deleted, bad} : blocks' = Put(blocks, wb, item)
  BY DEF Torn
<1> HIDE DEF bad
<1>3. CASE blocks' = blocks
  <2>1. \A p \in Live(blocks) : p \in Live(blocks') /\ At(blocks', p) = At(blocks, p)
    BY <1>3
  <2>2. \A c \in Blocks : /\ blocks'[c].state = blocks[c].state
                          /\ ItemCount(blocks', c) = ItemCount(blocks, c)
    BY <1>3
  <2>3. blocks' \in Flash
    BY <1>3
  <2>4. Live(blocks') = Live(blocks)
    BY <1>3
  <2> QED BY <2>1, <2>2, <2>3, <2>4
<1>4. ASSUME NEW item \in {Deleted, bad}, blocks' = Put(blocks, wb, item)
      PROVE  /\ blocks' \in Flash
             /\ \A c \in Blocks :
                   /\ blocks'[c].state = blocks[c].state
                   /\ ItemCount(blocks', c) = ItemCount(blocks, c)
                         \/ (c = wb /\ ItemCount(blocks', c) = ItemCount(blocks, c) + 1)
             /\ \A p \in Live(blocks') :
                   ~At(blocks', p).ok \/ (p \in Live(blocks) /\ At(blocks', p) = At(blocks, p))
             /\ \A p \in Live(blocks) : p \in Live(blocks') /\ At(blocks', p) = At(blocks, p)
  <2>1. item \in Items \cup {Deleted} /\ (item # Deleted => ~item.ok)
    BY <1>1, <1>4
  <2>2. \A p \in Live(blocks) : p \in Positions /\ p[2] <= ItemCount(blocks, p[1])
    BY LiveType
  <2> DEFINE n == Next1(blocks, wb)
  <2>3. /\ blocks' \in Flash
        /\ \A c \in Blocks :
              /\ blocks'[c].state = blocks[c].state
              /\ ItemCount(blocks', c) =
                    IF c = wb THEN ItemCount(blocks, wb) + 1 ELSE ItemCount(blocks, c)
        /\ Live(blocks') = IF item = Deleted THEN Live(blocks) ELSE Live(blocks) \cup {n}
        /\ At(blocks', n) = item
        /\ \A p \in Live(blocks) : At(blocks', p) = At(blocks, p)
    BY <1>4, <2>1, <2>2, PutFacts
  <2> HIDE DEF n
  <2> QED BY <2>1, <2>3
<1> QED BY <1>2, <1>3, <1>4

\* What a loss of power leaves in the flash.
LEMMA PowerFailureFacts ==
  ASSUME Inv, PowerFailure
  PROVE  /\ blocks' \in Flash
         /\ \A c \in Blocks :
               /\ blocks'[c].state = blocks[c].state
               /\ ItemCount(blocks', c) = ItemCount(blocks, c)
                     \/ /\ c = wb /\ ItemCount(blocks', c) = ItemCount(blocks, c) + 1
                        /\ pc \in {"write", "copy"}
         /\ \A p \in Live(blocks') :
               ~At(blocks', p).ok \/ (p \in Live(blocks) /\ At(blocks', p) = At(blocks, p))
         /\ \A p \in Live(blocks) : p \in Live(blocks') /\ At(blocks', p) = At(blocks, p)
<1>0. blocks \in Flash /\ wb \in Blocks
  BY DEF Inv, TypeOK
<1>1. CASE pc = "write"
  <2>1. blocks' \in Torn(blocks, req.key)
    BY <1>1 DEF PowerFailure
  <2>2. req.key \in Keys /\ ItemCount(blocks, wb) < C
    BY <1>1, RequestFacts DEF Inv, CallInv, TodoInv, HasRoom
  <2> QED BY <1>0, <1>1, <2>1, <2>2, TornFacts
<1>2. CASE pc = "copy" /\ Left # {}
  <2>1. blocks' \in Torn(blocks, At(blocks, First(Left)).key)
    BY <1>2 DEF PowerFailure
  <2>2. At(blocks, First(Left)).key \in Keys /\ ItemCount(blocks, wb) < C
    BY <1>2, LeftFacts DEF Items
  <2> QED BY <1>0, <1>2, <2>1, <2>2, TornFacts
<1>3. CASE pc # "write" /\ ~(pc = "copy" /\ Left # {})
  <2>1. blocks' = blocks
    BY <1>3 DEF PowerFailure
  <2> QED BY <1>0, <2>1
<1> QED BY <1>1, <1>2, <1>3

\* What is left of the two copies of an item is told apart by the block that
\* says it is clean; what a call leaves, by the origin or the checksum.
LEMMA PowerFailureInv ==
  ASSUME Inv, PowerFailure
  PROVE  Inv'
<1>1. /\ pc' = "scan" /\ at' = <<0, 1>> /\ wb' = 0 /\ gc' = FALSE /\ todo' = {}
      /\ UNCHANGED <<store, req>>
  BY DEF PowerFailure
<1>2. blocks \in Flash /\ wb \in Blocks /\ FlashOK(blocks)
  BY DEF Inv, TypeOK
<1>3. /\ blocks' \in Flash
      /\ \A c \in Blocks :
            /\ blocks'[c].state = blocks[c].state
            /\ ItemCount(blocks', c) = ItemCount(blocks, c)
                  \/ /\ c = wb /\ ItemCount(blocks', c) = ItemCount(blocks, c) + 1
                     /\ pc \in {"write", "copy"}
      /\ \A p \in Live(blocks') :
            ~At(blocks', p).ok \/ (p \in Live(blocks) /\ At(blocks', p) = At(blocks, p))
      /\ \A p \in Live(blocks) : p \in Live(blocks') /\ At(blocks', p) = At(blocks, p)
  BY PowerFailureFacts
<1>4. TypeOK'
  <2>1. at' \in (0 .. B) \X (1 .. C + 1)
    BY <1>1, Sizes
  <2> QED BY <1>1, <1>3, <2>1, Sizes DEF TypeOK, Steps
<1>5. Truthful' /\ CallInv'
  <2>1. Truthful'
    BY <1>1, <1>3 DEF Inv, Truthful, Requested
  <2> QED BY <1>1, <2>1 DEF Inv, CallInv
<1>6. FlashOK(blocks')
  <2>1. CASE pc \in {"write", "copy"}
    <3>1. /\ blocks[wb].state # "none"
          /\ \A b \in Blocks \ {wb} : blocks[b].state = "clean" => ItemCount(blocks, b) = 0
          /\ \A b \in Blocks : blocks[b].state = "none" => ItemCount(blocks, b) = 0
      BY <1>2, <2>1 DEF Inv, SteadyInv, Steady, InUse, CollectInv, FlashOK
    <3> QED BY <1>3, <3>1 DEF FlashOK
  <2>2. CASE pc \notin {"write", "copy"}
    BY <1>2, <1>3, <2>2 DEF FlashOK
  <2> QED BY <2>1, <2>2
<1>7. \A p \in Live(blocks') : ~Before(p, at')
  <2>1. \A p \in Live(blocks') : p[1] \in Nat /\ p[2] \in Nat /\ 0 < p[2]
    BY <1>3, LiveType, Sizes
  <2>2. at'[1] = 0 /\ at'[2] = 1
    BY <1>1
  <2> QED BY <2>1, <2>2 DEF Before
<1>8. ASSUME NEW p \in Live(blocks'), NEW q \in Live(blocks'), Rivals(blocks', p, q)
      PROVE  \/ Doomed(blocks', at', p, q)
             \/ Doomed(blocks', at', q, p)
             \/ /\ ~Spared(blocks')
                /\ blocks'[p[1]].state = "clean" \/ blocks'[q[1]].state = "clean"
  <2>1. CASE ~At(blocks', p).ok \/ ~At(blocks', q).ok
    BY <1>7, <2>1 DEF Doomed
  <2>2. CASE At(blocks', p).ok /\ At(blocks', q).ok
    <3>1. /\ p \in Live(blocks) /\ At(blocks', p) = At(blocks, p)
          /\ q \in Live(blocks) /\ At(blocks', q) = At(blocks, q)
          /\ Rivals(blocks, p, q)
      BY <1>3, <1>8, <2>2 DEF Rivals
    <3>2. CASE pc \in {"scan", "settle"}
      <4>1. \/ Doomed(blocks, at, p, q)
            \/ Doomed(blocks, at, q, p)
            \/ /\ ~Spared(blocks)
               /\ blocks[p[1]].state = "clean" \/ blocks[q[1]].state = "clean"
        BY <3>1, <3>2 DEF Inv, StartInv, Settling
      <4>2. Spared(blocks') => Spared(blocks)
        BY <1>2, <1>3, <3>2, CleanBlock DEF Spared
      <4>3. p[1] \in Blocks /\ q[1] \in Blocks
        BY <1>2, <3>1, LiveType
      <4> QED BY <1>3, <1>7, <3>1, <4>1, <4>2, <4>3 DEF Doomed
    <3>3. CASE pc \in Steady
      <4>1. pc = "unlink" /\ (Superseded(p, q) \/ Superseded(q, p))
        BY <3>1, <3>3 DEF Inv, SteadyInv, TodoInv, NoRivals
      <4> QED BY <1>7, <3>1, <4>1 DEF Doomed, Superseded
    <3>4. CASE pc \in {"copy", "header", "used"}
      <4>1. /\ pc = "copy"
            /\ (p[1] = wb /\ q[1] = at[1]) \/ (q[1] = wb /\ p[1] = at[1])
            /\ at[1] \in Blocks \ {wb}
            /\ blocks[wb].state = "clean" /\ blocks[at[1]].state = "dirty"
            /\ \A b \in Blocks \ {wb, at[1]} : blocks[b].state \in {"used", "dirty"}
        BY <3>1, <3>4 DEF Inv, CollectInv, NoRivals
      <4>2. ItemCount(blocks', wb) # 0
        <5>1. \A r \in Live(blocks') : r[2] \in 1 .. C /\ r[2] <= ItemCount(blocks', r[1])
          BY <1>3, LiveType
        <5> QED BY <4>1, <5>1, Sizes
      <4>3. ~Spared(blocks')
        BY <1>3, <4>1, <4>2, CleanBlock DEF Spared
      <4> QED BY <1>2, <1>3, <4>1, <4>3
    <3>5. pc \in Steps
      BY DEF Inv, TypeOK
    <3> QED BY <3>2, <3>3, <3>4, <3>5 DEF Steps, Steady
  <2> QED BY <2>1, <2>2
<1>9. StartInv'
  <2>1. Settling(blocks', at')
    BY <1>7, <1>8 DEF Settling
  <2>2. \A b \in Blocks : ~(b < at'[1])
    BY <1>1, Sizes DEF Blocks
  <2> QED BY <1>1, <2>1, <2>2 DEF StartInv
<1> QED BY <1>1, <1>4, <1>5, <1>6, <1>9 DEF Inv, SteadyInv, TodoInv, CollectInv, Steady

-----------------------------------------------------------------------------
(* Theorems.                                                               *)

LEMMA NextInv == Inv /\ [Next]_vars => Inv'
<1> SUFFICES ASSUME Inv, [Next]_vars PROVE Inv'
  OBVIOUS
<1>1. CASE Boot
  BY <1>1, ScanFormatInv, ScanItemInv, ScanNextInv, SettleInv, SettleCleanInv, InitializedInv
     DEF Boot
<1>2. CASE Calls
  BY <1>2, DeleteKeyInv, SetInv, DeletePrefixInv DEF Calls
<1>3. CASE Work
  BY <1>3, WriteInv, UnlinkInv, MarkDirtyInv DEF Work
<1>4. CASE Collection
  BY <1>4, CollectStartInv, CopyInv, EraseInv, HeaderInv, CollectedInv DEF Collection
<1>5. CASE PowerFailure
  BY <1>5, PowerFailureInv
<1>6. CASE UNCHANGED vars
  BY <1>6 DEF vars, Inv, TypeOK, Truthful, Requested, CallInv, StartInv, SteadyInv, TodoInv,
              CollectInv, OneCleanAtMost, Superseded, Copied, HasRoom
<1> QED BY <1>1, <1>2, <1>3, <1>4, <1>5, <1>6 DEF Next

LEMMA Invariance == Spec => []Inv
BY InitInv, NextInv, PTL DEF Spec

\* Type correctness: no block holds more items than it has room for, and the
\* positions the code remembers are positions in the flash.
THEOREM TypeCorrect == Spec => []TypeOK
BY Invariance, PTL DEF Inv

LEMMA OneItemInv == Inv => OneItemPerKey
<1> SUFFICES ASSUME Inv, pc = "idle"
             PROVE  /\ Unclean = {}
                    /\ \A p \in Live(blocks) : At(blocks, p).ok
                    /\ \A p, q \in Live(blocks) : At(blocks, p).key = At(blocks, q).key => p = q
  BY DEF OneItemPerKey
<1>1. blocks \in Flash /\ InUse(blocks) /\ Sound(blocks) /\ NoRivals(blocks)
  BY IdleFacts
<1>2. Unclean = {}
  BY <1>1, CleanBlock DEF InUse, Unclean
<1> QED BY <1>1, <1>2 DEF Sound, NoRivals, Rivals

\* At whatever steps the power fails, when no call is under way a key has one
\* item at most, every item is sound, and what says it is clean is empty.
THEOREM OneItem == Spec => []OneItemPerKey
BY Invariance, OneItemInv, PTL

-----------------------------------------------------------------------------
(* What a key gets when a call returns.                                    *)

\* The steps at which the store changes leave all the items where they are,
\* but for the one that is written.
LEMMA ReturnSteps ==
  ASSUME Inv, Next
  PROVE  \/ store' = store
         \/ Return /\ Live(blocks') = Live(blocks)
                   /\ \A p \in Live(blocks) : At(blocks', p) = At(blocks, p)
         \/ Return /\ Write
<1>1. blocks \in Flash /\ wb \in Blocks /\ \A p \in Live(blocks) : p \in Positions
  BY LiveType DEF Inv, TypeOK
<1>2. CASE Boot
  <2>1. CASE Initialized
    <3>1. Return /\ (blocks' = blocks \/ blocks' = SetState(blocks, 0, "used"))
      BY <2>1 DEF Initialized
    <3> QED BY <1>1, <3>1, SetUsed, Sizes
  <2>2. CASE ScanFormat \/ ScanItem \/ ScanNext \/ Settle \/ SettleClean
    BY <2>2 DEF ScanFormat, ScanItem, ScanNext, Settle, SettleClean
  <2> QED BY <1>2, <2>1, <2>2 DEF Boot
<1>3. CASE Calls
  BY <1>3 DEF Calls, DeleteKey, DeletePrefix, Delete, Set
<1>4. CASE Work
  <2>1. CASE Write
    BY <2>1 DEF Write
  <2>2. CASE Unlink
    BY <2>2 DEF Unlink
  <2>3. CASE MarkDirty
    <3>1. First(todo) \in Positions
      BY <2>3, FirstExists DEF MarkDirty, Inv, TypeOK, TodoInv
    <3>2. PICK d \in Blocks : d = First(todo)[1]
      BY <3>1 DEF Positions
    <3>3. blocks' = Mark(blocks, d) /\ (Return \/ store' = store)
      BY <2>3, <3>2 DEF MarkDirty
    <3> QED BY <1>1, <3>3, MarkFacts
  <2> QED BY <1>4, <2>1, <2>2, <2>3 DEF Work
<1>5. CASE Collection
  <2>1. CASE Collected
    <3>1. Return /\ blocks' = SetState(blocks, wb, "used")
      BY <2>1 DEF Collected
    <3> QED BY <1>1, <3>1, SetUsed
  <2>2. CASE Collect \/ Copy \/ Erase \/ Header
    BY <2>2 DEF Collect, Copy, Erase, Header
  <2> QED BY <1>5, <2>1, <2>2 DEF Collection
<1>6. CASE PowerFailure
  BY <1>6 DEF PowerFailure
<1> QED BY <1>2, <1>3, <1>4, <1>5, <1>6 DEF Next

\* The items of a call that returns have the value of before or of the call.
LEMMA ReturnTruthful ==
  ASSUME Inv, Next, store' # store
  PROVE  /\ Return
         /\ \A p \in Live(blocks') : At(blocks', p).val \in
               {store[At(blocks', p).key]} \cup Requested(At(blocks', p).key)
<1>1. CASE Return /\ Live(blocks') = Live(blocks)
                  /\ \A p \in Live(blocks) : At(blocks', p) = At(blocks, p)
  <2>1. pc' = "idle" /\ Inv'
    BY <1>1, NextInv DEF Return
  <2>2. Sound(blocks')
    BY <2>1 DEF Inv, SteadyInv, Steady
  <2> QED BY <1>1, <2>2 DEF Inv, Truthful, Sound
<1>2. CASE Return /\ Write
  <2> DEFINE item == [key |-> req.key, val |-> req.val, ok |-> TRUE,
                      origin |-> IF todo = {} THEN None ELSE First(todo)]
             n == Next1(blocks, wb)
  <2>1. /\ blocks' = Put(blocks, wb, item) /\ pc = "write" /\ todo = {}
    BY <1>2 DEF Write, Return
  <2>2. /\ blocks \in Flash /\ wb \in Blocks /\ ItemCount(blocks, wb) < C
        /\ Sound(blocks) /\ req.op = "set" /\ req \in Promise!Requests
    BY <2>1 DEF Inv, TypeOK, SteadyInv, Steady, TodoInv, CallInv, HasRoom
  <2>3. item \in Items /\ item.key = req.key /\ item.val = req.val
    BY <2>1, <2>2, RequestFacts DEF Items
  <2> HIDE DEF item, n
  <2>4. Live(blocks') \subseteq Live(blocks) \cup {n} /\ At(blocks', n) = item
    BY <2>1, <2>2, <2>3, PutFacts DEF n
  <2>5. \A p \in Live(blocks) : At(blocks', p) = At(blocks, p)
    BY <2>1, <2>2, <2>3, PutFacts, LiveType
  <2>6. req.val \in Requested(req.key)
    BY <2>2, RequestFacts DEF Requested
  <2> QED BY <1>2, <2>2, <2>3, <2>4, <2>5, <2>6 DEF Inv, Truthful, Sound
<1> QED BY <1>1, <1>2, ReturnSteps

LEMMA NothingComesBackStep ==
  ASSUME Inv, [Next]_vars, NEW k \in Keys
  PROVE  store'[k] \in {store[k], None} \cup Requested(k)
<1>1. CASE store' = store
  BY <1>1
<1>2. CASE store' # store
  <2>1. Next
    BY <1>2 DEF vars
  <2>2. /\ Return
        /\ \A p \in Live(blocks') : At(blocks', p).val \in
              {store[At(blocks', p).key]} \cup Requested(At(blocks', p).key)
    BY <1>2, <2>1, ReturnTruthful
  <2>3. pc' = "idle" /\ store' = Contents(blocks') /\ Inv'
    BY <2>2, NextInv DEF Return
  <2>4. blocks' \in Flash /\ InUse(blocks') /\ NoRivals(blocks')
    BY <2>3 DEF Inv, TypeOK, SteadyInv, Steady
  <2>5. \/ \A p \in Live(blocks') : At(blocks', p).key # k
        \/ \E p \in Live(blocks') : At(blocks', p).key = k
    OBVIOUS
  <2> QED BY <2>2, <2>3, <2>4, <2>5, ContentsFacts
<1> QED BY <1>1, <1>2

\* A call may lose values in a store without room, and a loss of power may
\* come at any step: no key gets back a value that was replaced or deleted,
\* nor that of another key.
THEOREM NothingReturns == Spec => NothingComesBack
<1>1. Inv /\ [Next]_vars => [\A k \in Keys : store'[k] \in {store[k], None} \cup Requested(k)]_vars
  BY NothingComesBackStep
<1> QED BY <1>1, Invariance, PTL DEF Spec, NothingComesBack

-----------------------------------------------------------------------------
(* The block kept for collections.                                         *)

\* There are fewer keys than items that fit into a block.
FewKeys == IsFiniteSet(Keys) /\ Cardinality(Keys) < C

Tombs(bs) == {p \in Positions : p[2] <= ItemCount(bs, p[1]) /\ At(bs, p) = Deleted}

\* A block with a deleted item is dirty, or will be once the scan has come to
\* the item or the call to its end, or is one to be formatted.
Marked(p) ==
    \/ blocks[p[1]].state = "dirty"
    \/ pc \in {"scan", "settle"} /\ (blocks[p[1]].state = "clean" \/ ~Before(p, at))
    \/ pc = "mark" /\ p = First(todo)

\* How full the write block is, or is about to be.
Filled == ItemCount(blocks, wb) + (IF pc = "write" THEN 1 ELSE 0)

\* While the write block has room, a second clean block need not be there: the
\* collection that the last item asks for finds a dirty block, since a full
\* block without one would hold more keys than there are.
ReserveInv ==
    /\ \E b \in Blocks : blocks[b].state \in {"clean", "none"}
    /\ pc # "spin"
    /\ pc \in {"idle", "write", "unlink", "mark"} =>
          /\ CleanBlocks(blocks) # {}
          /\ Filled = C => gc \/ ~OneCleanAtMost
          /\ gc => Filled = C
    /\ \A p \in Tombs(blocks) : Marked(p)

\* A full block of items that are not deleted has as many keys.
LEMMA FullBlock ==
  ASSUME FewKeys, NEW bs \in Flash, NoRivals(bs), NEW b \in Blocks, ItemCount(bs, b) = C
  PROVE  \E p \in Tombs(bs) : p[1] = b
<1>1. SUFFICES ASSUME \A p \in Tombs(bs) : p[1] # b
               PROVE  FALSE
  OBVIOUS
<1>2. \A i \in 1 .. C : <<b, i>> \in Live(bs)
  <2>1. ASSUME NEW i \in 1 .. C
        PROVE  <<b, i>> \in Live(bs)
    <3>1. <<b, i>> \in Positions /\ i <= ItemCount(bs, b)
      BY Sizes DEF Positions
    <3>2. <<b, i>> \notin Tombs(bs)
      BY <1>1
    <3> QED BY <3>1, <3>2 DEF Tombs, Live
  <2> QED BY <2>1
<1> DEFINE f == [i \in 1 .. C |-> At(bs, <<b, i>>).key]
<1>3. f \in [1 .. C -> Keys]
  BY <1>2, LiveType DEF Items
<1>4. IsFiniteSet(1 .. C) /\ Cardinality(1 .. C) = C
  BY Sizes, FS_Interval
<1> HIDE DEF f
<1>5. PICK i, j \in 1 .. C : i # j /\ f[i] = f[j]
  <2>0. PICK S : S = 1 .. C
    OBVIOUS
  <2>1. IsFiniteSet(Keys) /\ Cardinality(Keys) < Cardinality(S) /\ IsFiniteSet(S)
    BY <1>4, <2>0 DEF FewKeys
  <2>2. f \in [S -> Keys]
    BY <1>3, <2>0
  <2>3. \E x, y \in S : x # y /\ f[x] = f[y]
    BY <2>1, <2>2, FS_PigeonHole
  <2> QED BY <2>0, <2>3
<1>6. Rivals(bs, <<b, i>>, <<b, j>>)
  BY <1>5 DEF f, Rivals
<1> QED BY <1>2, <1>6 DEF NoRivals

LEMMA SameTombs ==
  ASSUME NEW bs, NEW cs,
         \A c \in Blocks : ItemCount(cs, c) = ItemCount(bs, c),
         \A p \in Positions : At(cs, p) = At(bs, p)
  PROVE  Tombs(cs) = Tombs(bs)
<1>1. \A p \in Positions : p[1] \in Blocks
  BY DEF Positions
<1> QED BY <1>1 DEF Tombs

LEMMA KillTombs ==
  ASSUME NEW bs \in Flash, NEW p \in Live(bs)
  PROVE  Tombs(Kill(bs, p)) = Tombs(bs) \cup {p}
<1> DEFINE cs == Kill(bs, p)
<1>1. /\ \A c \in Blocks : ItemCount(cs, c) = ItemCount(bs, c)
      /\ At(cs, p) = Deleted
      /\ \A q \in Positions \ {p} : q[2] <= ItemCount(bs, q[1]) => At(cs, q) = At(bs, q)
  BY KillFacts
<1>2. p \in Positions /\ p[2] <= ItemCount(bs, p[1])
  BY LiveType
<1>3. \A q \in Positions : q[1] \in Blocks
  BY DEF Positions
<1> HIDE DEF cs
<1> QED BY <1>1, <1>2, <1>3 DEF Tombs, cs

LEMMA MarkTombs ==
  ASSUME NEW bs \in Flash, NEW b \in Blocks
  PROVE  Tombs(Mark(bs, b)) = Tombs(bs)
BY MarkFacts, SameTombs

LEMMA PutTombs ==
  ASSUME NEW bs \in Flash, NEW b \in Blocks, ItemCount(bs, b) < C, NEW item \in Items
  PROVE  Tombs(Put(bs, b, item)) = Tombs(bs)
<1> DEFINE cs == Put(bs, b, item)
           n == Next1(bs, b)
<1>1. item \in Items \cup {Deleted} /\ item # Deleted
  BY DeletedNoItem
<1>2. /\ \A c \in Blocks :
            ItemCount(cs, c) = IF c = b THEN ItemCount(bs, b) + 1 ELSE ItemCount(bs, c)
      /\ At(cs, n) = item
      /\ \A q \in Positions : q[2] <= ItemCount(bs, q[1]) => At(cs, q) = At(bs, q)
  BY <1>1, PutFacts
<1>3. \A q \in Positions : q[1] \in Blocks /\ q[2] \in 1 .. C /\ q = <<q[1], q[2]>>
  BY DEF Positions
<1>4. ItemCount(bs, b) \in Nat /\ \A c \in Blocks : ItemCount(bs, c) \in Nat
  BY BlockType
<1>5. n = <<b, ItemCount(bs, b) + 1>>
  BY DEF Next1
<1> HIDE DEF cs, n
<1>6. ASSUME NEW q \in Positions, q[2] <= ItemCount(cs, q[1]), q # n
      PROVE  q[2] <= ItemCount(bs, q[1])
  <2>1. CASE q[1] = b
    BY <1>2, <1>3, <1>4, <1>5, <1>6, <2>1, Sizes
  <2>2. CASE q[1] # b
    BY <1>2, <1>3, <1>6, <2>2
  <2> QED BY <2>1, <2>2
<1>7. ASSUME NEW q \in Positions, q[2] <= ItemCount(bs, q[1])
      PROVE  q[2] <= ItemCount(cs, q[1])
  <2>1. ItemCount(cs, q[1]) \in {ItemCount(bs, q[1]), ItemCount(bs, q[1]) + 1}
    BY <1>2, <1>3
  <2> QED BY <1>3, <1>4, <1>7, <2>1, Sizes
<1>8. \A q \in Tombs(cs) : q \in Tombs(bs)
  BY <1>1, <1>2, <1>6 DEF Tombs
<1>9. \A q \in Tombs(bs) : q \in Tombs(cs)
  BY <1>2, <1>7 DEF Tombs
<1> QED BY <1>8, <1>9 DEF cs

LEMMA FormatTombs ==
  ASSUME NEW bs, NEW b, NEW cs,
         \A c \in Blocks : ItemCount(cs, c) = IF c = b THEN 0 ELSE ItemCount(bs, c),
         \A p \in Positions : p[1] # b => At(cs, p) = At(bs, p)
  PROVE  \A p \in Tombs(cs) : p \in Tombs(bs) /\ p[1] # b
<1>1. \A p \in Positions : p[1] \in Blocks /\ ~(p[2] <= 0)
  BY Sizes DEF Positions
<1> QED BY <1>1 DEF Tombs

\* A block with a deleted item is not empty.
LEMMA TombBlock ==
  ASSUME NEW bs \in Flash, NEW p \in Tombs(bs)
  PROVE  /\ p \in Positions /\ p[1] \in Blocks /\ p[2] \in Nat /\ 0 < p[2]
         /\ p[2] <= ItemCount(bs, p[1]) /\ ItemCount(bs, p[1]) # 0
<1>1. p \in Positions /\ p[1] \in Blocks /\ p[2] \in 1 .. C /\ p[2] <= ItemCount(bs, p[1])
  BY DEF Tombs, Positions
<1> QED BY <1>1, Sizes

\* The scan of an item leaves no deleted item in a used block behind it.
LEMMA RecoveredTombs ==
  ASSUME blocks \in Flash, NEW p \in Positions, p[2] <= ItemCount(blocks, p[1])
  PROVE  \A q \in Tombs(Recovered(p)) :
            \/ q \in Tombs(blocks) /\ q # p
            \/ Recovered(p)[q[1]].state # "used"
            \/ p[1] < q[1]
<1>1. p[1] \in Blocks /\ p[1] \in Nat
  BY Sizes DEF Positions
<1>2. CASE At(blocks, p) = Deleted
  <2>1. Recovered(p) = Mark(blocks, p[1])
    BY <1>2 DEF Recovered
  <2>2. Recovered(p)[p[1]].state # "used"
    BY <1>1, <2>1, MarkFacts
  <2> QED BY <1>1, <2>1, <2>2, MarkTombs
<1>3. CASE At(blocks, p) # Deleted
  <2>0. p \in Live(blocks) /\ p \notin Tombs(blocks)
    BY <1>3 DEF Live, Tombs
  <2>1. CASE ~At(blocks, p).ok
    <3>1. Recovered(p) = Mark(Kill(blocks, p), p[1])
      BY <1>3, <2>1 DEF Recovered
    <3>2. Kill(blocks, p) \in Flash
      BY <2>0, KillFacts
    <3>3. Recovered(p)[p[1]].state # "used" /\ Tombs(Recovered(p)) = Tombs(blocks) \cup {p}
      BY <1>1, <2>0, <3>1, <3>2, MarkFacts, MarkTombs, KillTombs
    <3> QED BY <2>0, <3>3
  <2>2. CASE At(blocks, p).ok /\ Replaces(p)
    <3> DEFINE o == At(blocks, p).origin
    <3>1. /\ o # p /\ o \in Live(blocks)
          /\ Recovered(p) = IF o[1] <= p[1] THEN Mark(Kill(blocks, o), o[1])
                            ELSE Kill(blocks, o)
      BY <1>3, <2>2 DEF Recovered, Replaces
    <3> HIDE DEF o
    <3>2. o[1] \in Blocks /\ o[1] \in Nat /\ Kill(blocks, o) \in Flash
      BY <3>1, LiveType, KillFacts, Sizes
    <3>3. Tombs(Recovered(p)) = Tombs(blocks) \cup {o}
      BY <3>1, <3>2, MarkTombs, KillTombs
    <3>4. CASE o[1] <= p[1]
      <4>1. Recovered(p)[o[1]].state # "used"
        BY <3>1, <3>2, <3>4, MarkFacts
      <4> QED BY <2>0, <3>3, <4>1
    <3>5. CASE ~(o[1] <= p[1])
      <4>1. p[1] < o[1]
        BY <1>1, <3>2, <3>5
      <4> QED BY <2>0, <3>3, <4>1
    <3> QED BY <3>4, <3>5
  <2>3. CASE At(blocks, p).ok /\ ~Replaces(p)
    <3>1. Recovered(p) = blocks
      BY <1>3, <2>3 DEF Recovered
    <3> QED BY <2>0, <3>1
  <2> QED BY <2>1, <2>2, <2>3
<1> QED BY <1>2, <1>3

LEMMA ReserveInit == Init => ReserveInv
<1> SUFFICES ASSUME Init PROVE ReserveInv
  OBVIOUS
<1>1. /\ pc = "scan" /\ at = <<0, 1>> /\ blocks = [b \in Blocks |-> Erased]
      /\ blocks \in Flash
  BY InitInv DEF Init, Inv, TypeOK
<1>2. blocks[0].state = "none" /\ 0 \in Blocks
  BY <1>1, Sizes DEF Erased
<1>3. \A b \in Blocks : ItemCount(blocks, b) = 0
  BY <1>1, EmptySeq DEF ItemCount, Erased
<1>4. Tombs(blocks) = {}
  BY <1>1, <1>3, TombBlock
<1> QED BY <1>1, <1>2, <1>4 DEF ReserveInv

LEMMA ReserveScanFormat ==
  ASSUME Inv, ReserveInv, ScanFormat
  PROVE  ReserveInv'
<1>1. /\ blocks \in Flash /\ at[1] \in Blocks
      /\ pc = "scan" /\ pc' = "scan" /\ at' = <<at[1] + 1, 1>>
  BY DEF Inv, TypeOK, ScanFormat
<1>2. PICK d \in Blocks : d = at[1] /\ d \in Nat
  BY <1>1, Sizes
<1>3. blocks' = Format(blocks, d, Clean)
  BY <1>2 DEF ScanFormat
<1>4. \A c \in Blocks :
         /\ blocks'[c].state = IF c = d THEN "clean" ELSE blocks[c].state
         /\ ItemCount(blocks', c) = IF c = d THEN 0 ELSE ItemCount(blocks, c)
  BY <1>1, <1>3, FormatClean
<1>5. \A p \in Tombs(blocks') : p \in Tombs(blocks) /\ p[1] # d
  <2>1. \A p \in Positions : p[1] # d => At(blocks', p) = At(blocks, p)
    BY <1>1, <1>3, FormatClean
  <2> QED BY <1>4, <2>1, FormatTombs
<1>6. ASSUME NEW p \in Tombs(blocks')
      PROVE  Marked(p)'
  <2>1. p \in Tombs(blocks) /\ p[1] # d /\ Marked(p)
    BY <1>5 DEF ReserveInv
  <2>2. p[1] \in Blocks /\ p[1] \in Nat /\ p[2] \in Nat /\ 0 < p[2] /\ ItemCount(blocks, p[1]) # 0
    BY <1>1, <2>1, TombBlock, Sizes
  <2>3. at'[1] = d + 1 /\ at'[2] = 1 /\ at[2] \in Nat
    BY <1>1, <1>2, AtType DEF Inv
  <2>4. Before(p, at') => Before(p, at)
    BY <1>2, <2>1, <2>2, <2>3 DEF Before
  <2> QED BY <1>1, <1>4, <2>1, <2>2, <2>4 DEF Marked
<1> QED BY <1>1, <1>4, <1>6 DEF ReserveInv

LEMMA ReserveScanItem ==
  ASSUME Inv, ReserveInv, ScanItem
  PROVE  ReserveInv'
<1>1. /\ blocks \in Flash /\ at[1] \in Blocks /\ at[2] <= ItemCount(blocks, at[1])
      /\ pc = "scan" /\ pc' = "scan" /\ at' = <<at[1], at[2] + 1>>
      /\ blocks' = Recovered(at)
  BY DEF Inv, TypeOK, ScanItem
<1>2. at \in Positions /\ at[1] \in Nat /\ at[2] \in Nat /\ at = <<at[1], at[2]>>
  <2>1. ItemCount(blocks, at[1]) \in Nat /\ ItemCount(blocks, at[1]) <= C
    BY <1>1, BlockType
  <2> QED BY <1>1, <2>1, AtType, Sizes DEF Inv, Positions
<1>3. PICK a \in Positions : a = at
  BY <1>2
<1>4. /\ Worn(blocks, blocks')
      /\ \A q \in Tombs(blocks') :
            \/ q \in Tombs(blocks) /\ q # a
            \/ blocks'[q[1]].state # "used"
            \/ a[1] < q[1]
  BY <1>1, <1>3, RecoveredFacts, RecoveredTombs
<1>5. /\ blocks' \in Flash
      /\ \A b \in Blocks : blocks'[b].state = blocks[b].state \/ blocks'[b].state = "dirty"
      /\ \A b \in Blocks : /\ blocks'[b].state = "clean" <=> blocks[b].state = "clean"
                           /\ blocks'[b].state = "none" <=> blocks[b].state = "none"
  BY <1>1, <1>4, WornFacts DEF Worn
<1>6. FlashOK(blocks')
  BY <1>1, <1>4, WornFacts DEF Inv
<1>7. ASSUME NEW q \in Tombs(blocks')
      PROVE  Marked(q)'
  <2>1. /\ q \in Positions /\ q[1] \in Blocks /\ q[1] \in Nat /\ q[2] \in Nat
        /\ q = <<q[1], q[2]>> /\ ItemCount(blocks', q[1]) # 0
    BY <1>5, TombBlock, Sizes DEF Positions
  <2>2. at'[1] = at[1] /\ at'[2] = at[2] + 1
    BY <1>1
  <2>3. CASE q \in Tombs(blocks) /\ q # a
    <3>1. Marked(q)
      BY <2>3 DEF ReserveInv
    <3>2. Before(q, at') => Before(q, at)
      BY <1>2, <1>3, <2>1, <2>2, <2>3 DEF Before
    <3> QED BY <1>1, <1>5, <2>1, <3>1, <3>2 DEF Marked
  <2>4. CASE blocks'[q[1]].state # "used"
    <3>0. blocks'[q[1]].state \in States /\ blocks'[q[1]].state # "none"
      BY <1>5, <1>6, <2>1, BlockType DEF FlashOK
    <3>1. blocks'[q[1]].state \in {"clean", "dirty"}
      BY <2>4, <3>0 DEF States
    <3> QED BY <1>1, <3>1 DEF Marked
  <2>5. CASE a[1] < q[1]
    <3>1. ~Before(q, at')
      BY <1>2, <1>3, <2>1, <2>2, <2>5 DEF Before
    <3> QED BY <1>1, <3>1 DEF Marked
  <2> QED BY <1>4, <2>3, <2>4, <2>5
<1> QED BY <1>1, <1>5, <1>7 DEF ReserveInv

LEMMA ReserveScanNext ==
  ASSUME Inv, ReserveInv, ScanNext
  PROVE  ReserveInv'
<1>1. /\ blocks \in Flash /\ blocks' = blocks
      /\ pc = "scan" /\ pc' \in {"scan", "settle"}
  BY DEF Inv, TypeOK, ScanNext
<1>2. ASSUME NEW p \in Tombs(blocks)
      PROVE  Before(p, at') => Before(p, at)
  <2>1. CASE at[1] = B
    BY <2>1 DEF ScanNext
  <2>2. CASE at[1] # B
    <3>1. at' = <<at[1] + 1, 1>> /\ at[2] > ItemCount(blocks, at[1])
      BY <2>2 DEF ScanNext
    <3>2. at[1] \in Nat /\ at[2] \in Nat /\ at'[1] = at[1] + 1 /\ at'[2] = 1
      BY <3>1, AtType DEF Inv
    <3>3. /\ p[1] \in Blocks /\ p[1] \in Nat /\ p[2] \in Nat /\ 0 < p[2]
          /\ p[2] <= ItemCount(blocks, p[1])
      BY <1>1, TombBlock, Sizes
    <3>4. ItemCount(blocks, p[1]) \in Nat
      BY <1>1, <3>3, BlockType
    <3> QED BY <3>1, <3>2, <3>3, <3>4 DEF Before
  <2> QED BY <2>1, <2>2
<1>3. \A p \in Tombs(blocks') : Marked(p)'
  BY <1>1, <1>2 DEF ReserveInv, Marked
<1> QED BY <1>1, <1>3 DEF ReserveInv

\* When the scan is over, only dirty blocks and those that say they are clean
\* hold deleted items.
LEMMA SettledTombs ==
  ASSUME Inv, ReserveInv, pc = "settle"
  PROVE  /\ \A p \in Tombs(blocks) : blocks[p[1]].state \in {"dirty", "clean"}
         /\ \E b \in Blocks : blocks[b].state = "clean"
<1>1. blocks \in Flash /\ at[1] = B /\ \A b \in Blocks : blocks[b].state # "none"
  BY SettledFacts DEF Inv, StartInv
<1>2. ASSUME NEW p \in Tombs(blocks)
      PROVE  Before(p, at)
  <2>1. p[1] \in Blocks
    BY <1>1, TombBlock
  <2> QED BY <1>1, <2>1, Sizes DEF Before, Blocks
<1> QED BY <1>1, <1>2 DEF ReserveInv, Marked

LEMMA ReserveSettle ==
  ASSUME Inv, ReserveInv, Settle
  PROVE  ReserveInv'
<1> DEFINE u == Max(Unclean)
<1>1. /\ blocks \in Flash /\ FlashOK(blocks) /\ Unclean # {}
      /\ pc = "settle" /\ pc' = "settle"
      /\ blocks' = IF Cardinality(CleanBlocks(blocks)) >= Reserved
                   THEN SetState(blocks, u, "dirty") ELSE Format(blocks, u, Clean)
      /\ \A p \in Tombs(blocks) : blocks[p[1]].state \in {"dirty", "clean"}
  BY SettledTombs DEF Inv, TypeOK, Settle
<1>2. u \in Blocks /\ blocks[u].state = "clean" /\ ItemCount(blocks, u) # 0
  BY <1>1, UncleanOne
<1> HIDE DEF u
<1>3. CASE Cardinality(CleanBlocks(blocks)) >= 1
  <2>1. blocks' = SetState(blocks, u, "dirty")
    BY <1>1, <1>3 DEF Reserved
  <2>2. /\ \A c \in Blocks : /\ blocks'[c].state = IF c = u THEN "dirty" ELSE blocks[c].state
                             /\ ItemCount(blocks', c) = ItemCount(blocks, c)
        /\ \A p \in Positions : At(blocks', p) = At(blocks, p)
    BY <1>1, <1>2, <2>1, SetStateFacts, StateNames
  <2>3. Tombs(blocks') = Tombs(blocks)
    BY <2>2, SameTombs
  <2>4. PICK c \in Blocks : blocks[c] = Clean
    BY <1>1, <1>3, CleanCount DEF CleanBlocks
  <2>5. blocks'[c].state = "clean"
    BY <1>1, <1>2, <2>2, <2>4, CleanBlock
  <2>6. \A p \in Tombs(blocks') : Marked(p)'
    BY <1>1, <2>2, <2>3, TombBlock DEF Marked
  <2> QED BY <1>1, <2>5, <2>6 DEF ReserveInv
<1>4. CASE ~(Cardinality(CleanBlocks(blocks)) >= 1)
  <2>1. blocks' = Format(blocks, u, Clean)
    BY <1>1, <1>4 DEF Reserved
  <2>2. \A c \in Blocks :
           /\ blocks'[c].state = IF c = u THEN "clean" ELSE blocks[c].state
           /\ ItemCount(blocks', c) = IF c = u THEN 0 ELSE ItemCount(blocks, c)
    BY <1>1, <1>2, <2>1, FormatClean
  <2>3. \A p \in Positions : p[1] # u => At(blocks', p) = At(blocks, p)
    BY <1>1, <1>2, <2>1, FormatClean
  <2>4. \A p \in Tombs(blocks') : p \in Tombs(blocks) /\ p[1] # u
    BY <2>2, <2>3, FormatTombs
  <2>5. \A p \in Tombs(blocks') : Marked(p)'
    BY <1>1, <2>2, <2>4, TombBlock DEF Marked
  <2> QED BY <1>1, <1>2, <2>2, <2>5 DEF ReserveInv
<1> QED BY <1>3, <1>4

\* The block that is kept is never missing: kv_init does not have to format
\* block 0 whatever it holds.
LEMMA NoSettleClean ==
  ASSUME Inv, ReserveInv
  PROVE  ~SettleClean
<1>1. SUFFICES ASSUME SettleClean PROVE FALSE
  OBVIOUS
<1>2. pc = "settle" /\ Unclean = {} /\ CleanBlocks(blocks) = {}
  BY <1>1 DEF SettleClean
<1> QED BY <1>2, SettledTombs DEF Unclean, CleanBlocks

LEMMA ReserveInitialized ==
  ASSUME Inv, ReserveInv, Initialized
  PROVE  ReserveInv'
<1>1. /\ blocks \in Flash /\ pc = "settle" /\ pc' = "idle"
      /\ Unclean = {}
      /\ blocks' = IF CleanBlocks(blocks) = Blocks THEN SetState(blocks, 0, "used") ELSE blocks
      /\ CleanBlocks(blocks) # {}
      /\ \A p \in Tombs(blocks) : blocks[p[1]].state \in {"dirty", "clean"}
  BY SettledTombs DEF Inv, TypeOK, Initialized, Return
<1>2. \A b \in Blocks : blocks[b].state = "clean" => ItemCount(blocks, b) = 0
  BY <1>1, CleanBlock DEF Unclean
<1>3. blocks' \in Flash /\ CleanBlocks(blocks') # {}
      /\ \A p \in Tombs(blocks') : blocks'[p[1]].state = "dirty"
  <2>1. CASE CleanBlocks(blocks) = Blocks
    <3>1. blocks' = SetState(blocks, 0, "used")
      BY <1>1, <2>1
    <3>2. /\ blocks' \in Flash
          /\ \A c \in Blocks :
                /\ blocks'[c].state = IF c = 0 THEN "used" ELSE blocks[c].state
                /\ ItemCount(blocks', c) = ItemCount(blocks, c)
      BY <1>1, <3>1, SetUsed, Sizes
    <3>3. \A b \in Blocks : blocks[b].state = "clean" /\ ItemCount(blocks, b) = 0
      BY <1>1, <2>1, CleanBlock DEF CleanBlocks
    <3>4. 1 \in Blocks /\ 1 # 0
      BY Sizes DEF Blocks
    <3>5. blocks'[1] = Clean
      BY <3>2, <3>3, <3>4, CleanBlock
    <3>6. Tombs(blocks') = {}
      BY <3>2, <3>3, TombBlock
    <3> QED BY <3>2, <3>4, <3>5, <3>6 DEF CleanBlocks
  <2>2. CASE CleanBlocks(blocks) # Blocks
    BY <1>1, <1>2, <2>2, TombBlock
  <2> QED BY <2>1, <2>2
<1>4. /\ gc' => ItemCount(blocks', wb') = C
      /\ ItemCount(blocks', wb') = C => gc' \/ ~(Cardinality(CleanBlocks(blocks')) < Reserved + 1)
  BY Zenon DEF Initialized
<1>5. Filled' = ItemCount(blocks', wb')
  <2>1. wb' \in Blocks
    BY InitializedInv DEF Inv, TypeOK
  <2>2. ItemCount(blocks', wb') \in Nat
    BY <1>3, <2>1, BlockType
  <2> QED BY <1>1, <2>2 DEF Filled
<1>6. ~(Cardinality(CleanBlocks(blocks')) < Reserved + 1) => ~OneCleanAtMost'
  <2>1. /\ Cardinality(CleanBlocks(blocks')) \in Nat
        /\ Cardinality(CleanBlocks(blocks')) <= 1 <=> OneCleanAtMost'
    BY <1>3, CleanCount DEF OneCleanAtMost
  <2> QED BY <2>1 DEF Reserved
<1>7. \E b \in Blocks : blocks'[b].state \in {"clean", "none"}
  BY <1>3, CleanBlock DEF CleanBlocks
<1>8. \A p \in Tombs(blocks') : Marked(p)'
  BY <1>3 DEF Marked
<1> QED BY <1>1, <1>3, <1>4, <1>5, <1>6, <1>7, <1>8 DEF ReserveInv

\* Between kv_init and the collections, but for the item that is being deleted.
LEMMA SteadyTombs ==
  ASSUME Inv, ReserveInv, pc \in Steady \cup {"copy", "header", "used"}, NEW p \in Tombs(blocks)
  PROVE  blocks[p[1]].state = "dirty" \/ (pc = "mark" /\ p = First(todo))
BY DEF ReserveInv, Marked, Steady

LEMMA CleanHasRoom ==
  ASSUME NEW b \in Blocks, blocks[b] = Clean, blocks \in Flash
  PROVE  HasRoom(b) /\ ItemCount(blocks, b) = 0 /\ blocks[b].state = "clean"
BY CleanBlock, Sizes DEF HasRoom

LEMMA ReserveSet ==
  ASSUME FewKeys, Inv, ReserveInv, NEW k \in Keys, NEW v \in Vals, Set(k, v)
  PROVE  ReserveInv'
<1> DEFINE room == {b \in Blocks : HasRoom(b)}
<1>1. /\ pc = "idle" /\ ~gc /\ Position
      /\ blocks \in Flash /\ wb \in Blocks /\ InUse(blocks) /\ blocks[wb].state # "clean"
  BY IdleFacts DEF Set
<1>2. /\ CleanBlocks(blocks) # {}
      /\ ItemCount(blocks, wb) \in Nat /\ ItemCount(blocks, wb) <= C
      /\ ItemCount(blocks, wb) = C => ~OneCleanAtMost
  <2>1. ItemCount(blocks, wb) \in Nat /\ ItemCount(blocks, wb) <= C
    BY <1>1, BlockType
  <2>2. Filled = ItemCount(blocks, wb)
    BY <1>1, <2>1 DEF Filled
  <2> QED BY <1>1, <2>1, <2>2 DEF ReserveInv
<1>3. 1 < C
  <2>1. Cardinality(Keys) \in Nat /\ Cardinality(Keys) # 0 /\ Cardinality(Keys) < C
    BY FS_CardinalityType, FS_EmptySet DEF FewKeys
  <2> QED BY <2>1, Sizes
<1>4. /\ blocks' \in Flash /\ wb' \in Blocks
      /\ \A b \in Blocks :
            /\ ItemCount(blocks', b) = ItemCount(blocks, b)
            /\ blocks'[b].state = blocks[b].state \/ blocks'[b].state = "used"
      /\ \A p \in Positions : At(blocks', p) = At(blocks, p)
  BY <1>1, PositionFacts
\* The clean blocks that are left, and what the next item makes of the block.
<1>5. /\ pc' = "write"
      /\ CleanBlocks(blocks') # {}
      /\ ItemCount(blocks', wb') + 1 = C => gc' \/ ~OneCleanAtMost'
      /\ gc' => ItemCount(blocks', wb') + 1 = C
      /\ \A b \in Blocks : blocks'[b].state = blocks[b].state \/ ItemCount(blocks, b) = 0
  <2>1. CASE HasRoom(wb)
    <3>1. /\ pc' = "write" /\ blocks' = blocks /\ wb' = wb
          /\ gc' => ItemCount(blocks, wb) + 1 = C
          /\ ItemCount(blocks, wb) + 1 = C =>
                gc' \/ ~(Cardinality(CleanBlocks(blocks)) <= Reserved)
      BY <1>1, <2>1, Zenon DEF Position
    <3>2. ~(Cardinality(CleanBlocks(blocks)) <= Reserved) => ~OneCleanAtMost
      BY <1>1, CleanCount DEF Reserved, OneCleanAtMost
    <3>3. OneCleanAtMost' <=> OneCleanAtMost
      BY <3>1 DEF OneCleanAtMost
    <3> QED BY <1>2, <3>1, <3>2, <3>3
  <2>2. CASE ~HasRoom(wb)
    <3>1. ~OneCleanAtMost
      BY <1>2, <2>2, Sizes DEF HasRoom
    <3>2. PICK b, c \in Blocks : b # c /\ blocks[b] = Clean /\ blocks[c] = Clean
      BY <3>1 DEF OneCleanAtMost
    <3>3. room # {} /\ room \subseteq Blocks
      BY <1>1, <3>2, CleanHasRoom
    <3>4. /\ wb' = NextIn(wb, room) /\ pc' = "write" /\ gc' = gc
          /\ blocks' = IF blocks[wb'].state = "clean"
                       THEN SetState(blocks, wb', "used") ELSE blocks
      BY <1>1, <2>2, <3>3 DEF Position
    <3> HIDE DEF room
    <3>5. ~gc'
      BY <1>1, <3>4, Zenon
    <3>6. PICK w \in Blocks : w = wb'
      BY <1>4
    <3>7. CASE blocks[w].state = "clean"
      <4>1. blocks' = SetState(blocks, w, "used") /\ ItemCount(blocks, w) = 0
        BY <1>1, <3>4, <3>6, <3>7 DEF InUse
      <4>2. \A d \in Blocks : blocks'[d].state = IF d = w THEN "used" ELSE blocks[d].state
        BY <1>1, <4>1, SetUsed
      <4>3. PICK d \in {b, c} : d # w
        BY <3>2
      <4>4. d \in Blocks /\ blocks[d].state = "clean" /\ ItemCount(blocks, d) = 0
        BY <1>1, <3>2, <4>3, CleanHasRoom
      <4>5. blocks'[d] = Clean
        BY <1>4, <4>2, <4>3, <4>4, CleanBlock
      <4>6. ItemCount(blocks', wb') + 1 # C
        BY <1>3, <1>4, <3>6, <4>1
      <4> QED BY <3>4, <3>5, <4>1, <4>2, <4>4, <4>5, <4>6 DEF CleanBlocks
    <3>8. CASE blocks[w].state # "clean"
      <4>1. blocks' = blocks
        BY <3>4, <3>6, <3>8
      <4>2. ~OneCleanAtMost'
        BY <3>1, <4>1 DEF OneCleanAtMost
      <4> QED BY <1>2, <3>4, <3>5, <4>1, <4>2
    <3> QED BY <3>7, <3>8
  <2> QED BY <2>1, <2>2
<1>6. Filled' = ItemCount(blocks', wb') + 1
  BY <1>5 DEF Filled
<1>7. \E b \in Blocks : blocks'[b].state \in {"clean", "none"}
  BY <1>4, <1>5, CleanBlock DEF CleanBlocks
<1>8. \A p \in Tombs(blocks') : Marked(p)'
  <2>1. Tombs(blocks') = Tombs(blocks)
    BY <1>4, SameTombs
  <2>2. ASSUME NEW p \in Tombs(blocks)
        PROVE  blocks'[p[1]].state = "dirty"
    <3>1. blocks[p[1]].state = "dirty"
      BY <1>1, SteadyTombs DEF Steady
    <3>2. p[1] \in Blocks /\ ItemCount(blocks, p[1]) # 0
      BY <1>1, TombBlock
    <3> QED BY <1>5, <3>1, <3>2
  <2> QED BY <2>1, <2>2 DEF Marked
<1> QED BY <1>5, <1>6, <1>7, <1>8 DEF ReserveInv

LEMMA ReserveWrite ==
  ASSUME Inv, ReserveInv, Write
  PROVE  ReserveInv'
<1> DEFINE item == [key |-> req.key, val |-> req.val, ok |-> TRUE,
                    origin |-> IF todo = {} THEN None ELSE First(todo)]
<1>1. /\ pc = "write" /\ blocks' = Put(blocks, wb, item)
      /\ pc' \in {"idle", "unlink"}
      /\ wb' = wb /\ gc' = gc
  BY DEF Write, Return
<1>2. /\ blocks \in Flash /\ wb \in Blocks /\ ItemCount(blocks, wb) < C
      /\ blocks[wb].state # "clean"
      /\ todo \in SUBSET Positions
      /\ req.op = "set" /\ req \in Promise!Requests
  BY <1>1 DEF Inv, TypeOK, SteadyInv, Steady, TodoInv, CallInv, HasRoom
<1>3. item \in Items
  <2>1. todo # {} => First(todo) \in Positions
    BY <1>2, FirstExists
  <2> QED BY <1>2, <2>1, RequestFacts DEF Items
<1> HIDE DEF item
<1>4. \A c \in Blocks :
         /\ blocks'[c].state = blocks[c].state
         /\ ItemCount(blocks', c) = IF c = wb THEN ItemCount(blocks, wb) + 1
                                    ELSE ItemCount(blocks, c)
  BY <1>1, <1>2, <1>3, PutFacts
<1>5. blocks' \in Flash
  BY <1>1, <1>2, <1>3, PutFacts
<1>6. \A b \in Blocks : blocks'[b] = Clean <=> blocks[b] = Clean
  BY <1>2, <1>4, <1>5, CleanBlock
<1>7. OneCleanAtMost' <=> OneCleanAtMost
  BY <1>6 DEF OneCleanAtMost
<1>8. CleanBlocks(blocks') = CleanBlocks(blocks)
  BY <1>6 DEF CleanBlocks
<1>9. Filled' = Filled
  <2>1. ItemCount(blocks, wb) \in Nat
    BY <1>2, BlockType
  <2> QED BY <1>1, <1>2, <1>4, <2>1 DEF Filled
<1>10. ASSUME NEW p \in Tombs(blocks')
       PROVE  Marked(p)'
  <2>1. p \in Tombs(blocks)
    BY <1>1, <1>2, <1>3, PutTombs
  <2>2. blocks[p[1]].state = "dirty" /\ p[1] \in Blocks
    BY <1>1, <1>2, <2>1, SteadyTombs, TombBlock DEF Steady
  <2> QED BY <1>4, <2>2 DEF Marked
<1> QED BY <1>1, <1>4, <1>7, <1>8, <1>9, <1>10 DEF ReserveInv

LEMMA ReserveDelete ==
  ASSUME Inv, ReserveInv, NEW ks, NEW ps, Delete(ks, ps)
  PROVE  ReserveInv'
<1>1. /\ pc = "idle" /\ pc' = "unlink"
      /\ UNCHANGED <<blocks, wb, gc, at>>
  BY DEF Delete
<1>2. Filled' = Filled /\ (OneCleanAtMost' <=> OneCleanAtMost)
  BY <1>1 DEF Filled, OneCleanAtMost
<1>3. \A p \in Tombs(blocks') : Marked(p)'
  BY <1>1, SteadyTombs DEF Steady, Marked
<1> QED BY <1>1, <1>2, <1>3 DEF ReserveInv

LEMMA ReserveUnlink ==
  ASSUME Inv, ReserveInv, Unlink
  PROVE  ReserveInv'
<1>1. PICK f : f = First(todo)
  OBVIOUS
<1>2. /\ pc = "unlink" /\ pc' = "mark" /\ blocks' = Kill(blocks, f)
      /\ UNCHANGED <<wb, gc, todo>>
      /\ blocks \in Flash /\ wb \in Blocks
  BY <1>1 DEF Unlink, Inv, TypeOK
<1>3. f \in Live(blocks)
  BY <1>1, <1>2, FirstExists DEF Inv, TypeOK, TodoInv
<1>4. /\ Worn(blocks, blocks')
      /\ \A c \in Blocks : /\ blocks'[c].state = blocks[c].state
                           /\ ItemCount(blocks', c) = ItemCount(blocks, c)
      /\ Tombs(blocks') = Tombs(blocks) \cup {f}
  BY <1>2, <1>3, KillWorn, KillFacts, KillTombs
<1>5. \A b \in Blocks : blocks'[b] = Clean <=> blocks[b] = Clean
  BY <1>2, <1>4, WornFacts
<1>6. /\ OneCleanAtMost' <=> OneCleanAtMost
      /\ CleanBlocks(blocks') = CleanBlocks(blocks)
  BY <1>5 DEF OneCleanAtMost, CleanBlocks
<1>7. Filled' = Filled
  BY <1>2, <1>4 DEF Filled
<1>8. ASSUME NEW p \in Tombs(blocks')
      PROVE  Marked(p)'
  <2>1. CASE p = f
    BY <1>1, <1>2, <2>1 DEF Marked
  <2>2. CASE p \in Tombs(blocks)
    <3>1. blocks[p[1]].state = "dirty" /\ p[1] \in Blocks
      BY <1>2, <2>2, SteadyTombs, TombBlock DEF Steady
    <3> QED BY <1>4, <3>1 DEF Marked
  <2> QED BY <1>4, <2>1, <2>2
<1> QED BY <1>2, <1>4, <1>6, <1>7, <1>8 DEF ReserveInv

LEMMA ReserveMarkDirty ==
  ASSUME Inv, ReserveInv, MarkDirty
  PROVE  ReserveInv'
<1>1. PICK f : f = First(todo)
  OBVIOUS
<1>2. /\ pc = "mark" /\ pc' \in {"idle", "unlink"} /\ blocks' = Mark(blocks, f[1])
      /\ UNCHANGED <<wb, gc>>
      /\ blocks \in Flash /\ wb \in Blocks /\ InUse(blocks)
  BY <1>1 DEF MarkDirty, Return, Inv, TypeOK, SteadyInv, Steady
<1>3. f \in Positions
  BY <1>1, <1>2, FirstExists DEF Inv, TypeOK, TodoInv
<1>4. PICK d \in Blocks : d = f[1]
  BY <1>3 DEF Positions
<1>5. blocks' = Mark(blocks, d)
  BY <1>2, <1>4
<1>6. /\ Worn(blocks, blocks')
      /\ \A c \in Blocks :
            /\ blocks'[c].state = IF c = d /\ blocks[d].state = "used" THEN "dirty"
                                  ELSE blocks[c].state
            /\ ItemCount(blocks', c) = ItemCount(blocks, c)
      /\ Tombs(blocks') = Tombs(blocks)
  BY <1>2, <1>5, MarkWorn, MarkFacts, MarkTombs
<1>7. \A b \in Blocks : blocks'[b] = Clean <=> blocks[b] = Clean
  BY <1>2, <1>6, WornFacts
<1>8. /\ OneCleanAtMost' <=> OneCleanAtMost
      /\ CleanBlocks(blocks') = CleanBlocks(blocks)
  BY <1>7 DEF OneCleanAtMost, CleanBlocks
<1>9. Filled' = Filled
  BY <1>2, <1>6 DEF Filled
<1>10. ASSUME NEW p \in Tombs(blocks')
       PROVE  blocks'[p[1]].state = "dirty"
  <2>1. /\ p[1] \in Blocks /\ ItemCount(blocks, p[1]) # 0
        /\ blocks[p[1]].state = "dirty" \/ p[1] = d
    BY <1>1, <1>2, <1>4, <1>6, SteadyTombs, TombBlock DEF Steady
  <2>2. blocks[p[1]].state \in {"used", "dirty"}
    BY <1>2, <2>1, BlockType DEF InUse, States
  <2> QED BY <1>6, <2>1, <2>2
<1>11. \E b \in Blocks : blocks'[b].state \in {"clean", "none"}
  BY <1>6 DEF ReserveInv
<1> QED BY <1>2, <1>8, <1>9, <1>10, <1>11 DEF ReserveInv, Marked

\* The write block is full when a collection starts, and a full block holds a
\* deleted item: a dirty block is there.
LEMMA DirtyThere ==
  ASSUME FewKeys, Inv, ReserveInv, pc = "idle", gc
  PROVE  /\ CleanBlocks(blocks) # {}
         /\ \E b \in Blocks : blocks[b].state = "dirty"
<1>1. /\ blocks \in Flash /\ NoRivals(blocks) /\ wb \in Blocks
  BY IdleFacts
<1>2. CleanBlocks(blocks) # {} /\ Filled = C
  BY DEF ReserveInv
<1>3. ItemCount(blocks, wb) = C
  <2>1. ItemCount(blocks, wb) \in Nat
    BY <1>1, BlockType
  <2> QED BY <1>2, <2>1 DEF Filled
<1>4. PICK p \in Tombs(blocks) : p[1] = wb
  BY <1>1, <1>3, FullBlock
<1>5. blocks[p[1]].state = "dirty"
  BY SteadyTombs DEF Steady
<1> QED BY <1>1, <1>2, <1>4, <1>5

LEMMA ReserveCollect ==
  ASSUME FewKeys, Inv, ReserveInv, Collect
  PROVE  ReserveInv'
<1>1. /\ pc = "idle" /\ gc /\ blocks' = blocks
  BY DEF Collect
<1>2. CleanBlocks(blocks) # {} /\ \E b \in Blocks : blocks[b].state = "dirty"
  BY <1>1, DirtyThere
<1>3. pc' = "copy"
  BY <1>2 DEF Collect
<1>4. \A p \in Tombs(blocks') : Marked(p)'
  BY <1>1, SteadyTombs DEF Steady, Marked
<1> QED BY <1>1, <1>3, <1>4 DEF ReserveInv

LEMMA ReserveCopy ==
  ASSUME Inv, ReserveInv, Copy
  PROVE  ReserveInv'
<1>1. PICK item : item = At(blocks, First(Left))
  OBVIOUS
<1>2. /\ pc = "copy" /\ pc' = "copy" /\ Left # {} /\ blocks' = Put(blocks, wb, item)
      /\ blocks \in Flash /\ wb \in Blocks
  BY <1>1 DEF Copy, Inv, TypeOK
<1>3. item \in Items /\ ItemCount(blocks, wb) < C
  BY <1>1, <1>2, LeftFacts
<1>4. \A c \in Blocks : blocks'[c].state = blocks[c].state
  BY <1>2, <1>3, PutFacts
<1>5. Tombs(blocks') = Tombs(blocks)
  BY <1>2, <1>3, PutTombs
<1>6. ASSUME NEW p \in Tombs(blocks')
      PROVE  Marked(p)'
  <2>1. blocks[p[1]].state = "dirty" /\ p[1] \in Blocks
    BY <1>2, <1>5, SteadyTombs, TombBlock
  <2> QED BY <1>4, <2>1 DEF Marked
<1> QED BY <1>2, <1>4, <1>6 DEF ReserveInv

LEMMA ReserveFormat ==
  ASSUME Inv, ReserveInv, Erase \/ Header
  PROVE  ReserveInv'
<1>1. PICK blk \in {Clean, Erased} :
         /\ pc \in {"copy", "header"} /\ pc' \in {"header", "used"}
         /\ blocks' = Format(blocks, at[1], blk)
  BY DEF Erase, Header
<1>2. blocks \in Flash /\ at[1] \in Blocks
  BY <1>1 DEF Inv, TypeOK, CollectInv
<1>3. PICK d \in Blocks : d = at[1]
  BY <1>2
<1>4. blocks' = Format(blocks, d, blk)
  BY <1>1, <1>3
<1>5. /\ \A c \in Blocks :
            /\ blocks'[c].state = IF c = d THEN blk.state ELSE blocks[c].state
            /\ ItemCount(blocks', c) = IF c = d THEN 0 ELSE ItemCount(blocks, c)
      /\ \A p \in Positions : p[1] # d => At(blocks', p) = At(blocks, p)
  <2>1. CASE blk = Clean
    <3>1. blocks' = Format(blocks, d, Clean) /\ blk.state = "clean"
      BY <1>4, <2>1 DEF Clean
    <3> QED BY <1>2, <3>1, FormatClean
  <2>2. CASE blk = Erased
    <3>1. blocks' = Format(blocks, d, Erased) /\ blk.state = "none"
      BY <1>4, <2>2 DEF Erased
    <3> QED BY <1>2, <3>1, FormatErased
  <2> QED BY <2>1, <2>2
<1>6. \A p \in Tombs(blocks') : p \in Tombs(blocks) /\ p[1] # d
  BY <1>5, FormatTombs
<1>7. ASSUME NEW p \in Tombs(blocks')
      PROVE  Marked(p)'
  <2>1. blocks[p[1]].state = "dirty" /\ p[1] \in Blocks /\ p[1] # d
    BY <1>1, <1>2, <1>6, SteadyTombs, TombBlock
  <2> QED BY <1>5, <2>1 DEF Marked
<1>8. blk.state \in {"clean", "none"}
  BY DEF Clean, Erased
<1> QED BY <1>1, <1>5, <1>7, <1>8 DEF ReserveInv

LEMMA ReserveCollected ==
  ASSUME FewKeys, Inv, ReserveInv, Collected
  PROVE  ReserveInv'
<1>1. /\ pc = "used" /\ pc' = "idle" /\ ~gc' /\ wb' = wb
      /\ blocks' = SetState(blocks, wb, "used")
      /\ blocks \in Flash /\ wb \in Blocks
  BY DEF Collected, Return, Inv, TypeOK
<1>2. /\ at[1] \in Blocks \ {wb} /\ blocks[at[1]] = Clean
      /\ blocks[wb].state = "clean" /\ NoRivals(blocks)
  BY <1>1 DEF Inv, CollectInv
<1>3. PICK d \in Blocks \ {wb} : blocks[d] = Clean
  BY <1>2
<1>4. /\ blocks' \in Flash
      /\ \A c \in Blocks :
            /\ blocks'[c].state = IF c = wb THEN "used" ELSE blocks[c].state
            /\ ItemCount(blocks', c) = ItemCount(blocks, c)
  BY <1>1, SetUsed
<1>5. Tombs(blocks') = Tombs(blocks)
  BY <1>1, <1>4, SetUsed, SameTombs
<1>6. \A p \in Tombs(blocks) : /\ blocks[p[1]].state = "dirty" /\ p[1] \in Blocks
                               /\ p[1] # wb
  BY <1>1, <1>2, SteadyTombs, TombBlock
<1>7. Filled' # C
  <2>1. ItemCount(blocks, wb) # C
    BY <1>1, <1>2, <1>6, FullBlock
  <2>2. ItemCount(blocks, wb) \in Nat
    BY <1>1, BlockType
  <2> QED BY <1>1, <1>4, <2>1, <2>2 DEF Filled
<1>8. blocks'[d] = Clean /\ blocks'[d].state = "clean"
  BY <1>1, <1>3, <1>4, CleanBlock
<1>9. \A p \in Tombs(blocks') : Marked(p)'
  BY <1>4, <1>5, <1>6 DEF Marked
<1> QED BY <1>1, <1>7, <1>8, <1>9 DEF ReserveInv, CleanBlocks

LEMMA ReservePowerFailure ==
  ASSUME Inv, ReserveInv, PowerFailure
  PROVE  ReserveInv'
<1>1. pc' = "scan" /\ at' = <<0, 1>>
  BY DEF PowerFailure
<1>2. /\ blocks' \in Flash
      /\ \A c \in Blocks : blocks'[c].state = blocks[c].state
  BY PowerFailureFacts
<1>3. ASSUME NEW p \in Tombs(blocks')
      PROVE  Marked(p)'
  <2>1. p[1] \in Blocks /\ p[1] \in Nat /\ p[2] \in Nat /\ 0 < p[2]
    BY <1>2, TombBlock, Sizes
  <2>2. at'[1] = 0 /\ at'[2] = 1
    BY <1>1
  <2>3. ~Before(p, at')
    BY <2>1, <2>2 DEF Before
  <2> QED BY <1>1, <2>3 DEF Marked
<1> QED BY <1>1, <1>2, <1>3 DEF ReserveInv

LEMMA ReserveNext ==
  ASSUME FewKeys, Inv, ReserveInv, [Next]_vars
  PROVE  ReserveInv'
<1>1. CASE Boot
  BY <1>1, ReserveScanFormat, ReserveScanItem, ReserveScanNext, ReserveSettle,
     NoSettleClean, ReserveInitialized DEF Boot
<1>2. CASE Calls
  <2>1. ASSUME NEW k \in Keys, DeleteKey(k)
        PROVE  ReserveInv'
    <3>1. PICK ps : Delete({k}, ps)
      BY <2>1 DEF DeleteKey
    <3> QED BY <3>1, ReserveDelete
  <2>2. ASSUME NEW ks \in PrefixSets, DeletePrefix(ks)
        PROVE  ReserveInv'
    <3>1. PICK ps : Delete(ks, ps)
      BY <2>2 DEF DeletePrefix
    <3> QED BY <3>1, ReserveDelete
  <2> QED BY <1>2, <2>1, <2>2, ReserveSet DEF Calls
<1>3. CASE Work
  BY <1>3, ReserveWrite, ReserveUnlink, ReserveMarkDirty DEF Work
<1>4. CASE Collection
  BY <1>4, ReserveCollect, ReserveCopy, ReserveFormat, ReserveCollected DEF Collection
<1>5. CASE PowerFailure
  BY <1>5, ReservePowerFailure
<1>6. CASE UNCHANGED vars
  BY <1>6 DEF vars, ReserveInv, Marked, Filled, OneCleanAtMost
<1> QED BY <1>1, <1>2, <1>3, <1>4, <1>5, <1>6 DEF Next

\* With fewer keys than items that fit into a block, and at whatever steps the
\* power fails, a call leaves a clean block to collect into.
THEOREM Reserve ==
  ASSUME FewKeys
  PROVE  Spec => []ReserveKept
<1>1. Init => Inv /\ ReserveInv
  BY InitInv, ReserveInit
<1>2. Inv /\ ReserveInv /\ [Next]_vars => Inv' /\ ReserveInv'
  BY NextInv, ReserveNext
<1>3. ReserveInv => ReserveKept
  BY DEF ReserveInv, ReserveKept
<1> QED BY <1>1, <1>2, <1>3, PTL DEF Spec

-----------------------------------------------------------------------------
(* What becomes of the items that keys need.                               *)

\* The block of the item at p is not one to be formatted by kv_init.
Lasting(bs, p) == bs[p[1]].state # "clean" \/ Spared(bs)

Holds(bs, k) ==
    \E p \in Live(bs) : At(bs, p).key = k /\ At(bs, p).ok /\ Lasting(bs, p)

Deleting(k) == req # None /\ req.op = "delete" /\ k \in req.keys

Present == \A k \in Keys : store[k] # None /\ ~Deleting(k) => Holds(blocks, k)

\* kv_init deletes no item for the sake of a copy that is itself to be lost.
CopiesLost ==
    pc \in {"scan", "settle"} /\ ~Spared(blocks) =>
        \A c \in Live(blocks) :
            blocks[c[1]].state = "clean" /\ At(blocks, c).ok => ~Replaces(c)

KeepInv ==
    /\ Present
    /\ CopiesLost
    /\ pc = "unlink" /\ req.op = "set" => \A p \in todo : At(blocks, p).key = req.key

LEMMA HoldsKept ==
  ASSUME NEW bs, NEW cs, NEW k, Holds(bs, k),
         \A p \in Live(bs) : At(bs, p).key = k /\ At(bs, p).ok /\ Lasting(bs, p) =>
            p \in Live(cs) /\ At(cs, p) = At(bs, p) /\ Lasting(cs, p)
  PROVE  Holds(cs, k)
BY DEF Holds

LEMMA PresentKept ==
  ASSUME Present, UNCHANGED <<store, req>>,
         \A k \in Keys : Holds(blocks, k) => Holds(blocks', k)
  PROVE  Present'
BY DEF Present, Deleting

\* No item is in a block that says it is clean.
LEMMA UsedLasts ==
  ASSUME NEW bs \in Flash, InUse(bs)
  PROVE  \A p \in Live(bs) : bs[p[1]].state # "clean" /\ Lasting(bs, p)
<1>1. \A p \in Live(bs) : p[1] \in Blocks /\ p[2] \in 1 .. C /\ p[2] <= ItemCount(bs, p[1])
  BY LiveType
<1>2. ASSUME NEW p \in Live(bs), bs[p[1]].state = "clean"
      PROVE  FALSE
  <2>1. p[1] \in Blocks /\ p[2] \in Nat /\ 1 <= p[2] /\ p[2] <= ItemCount(bs, p[1])
    BY <1>1, Sizes
  <2>2. ItemCount(bs, p[1]) = 0
    BY <1>2, <2>1 DEF InUse
  <2> QED BY <2>1, <2>2
<1> QED BY <1>2 DEF Lasting

\* A value that a get returns is that of an item.
LEMMA PresentReturn ==
  ASSUME Inv', Return
  PROVE  Present'
<1>1. /\ pc' = "idle" /\ store' = Contents(blocks')
      /\ blocks' \in Flash /\ InUse(blocks') /\ Sound(blocks')
  BY DEF Return, Inv, TypeOK, SteadyInv, Steady
<1>2. \A p \in Live(blocks') : At(blocks', p).ok /\ Lasting(blocks', p)
  BY <1>1, UsedLasts DEF Sound
<1>3. ASSUME NEW k \in Keys, store'[k] # None
      PROVE  Holds(blocks', k)
  <2>1. ItemsOf(blocks', k) # {}
    BY <1>1, <1>3 DEF Contents
  <2> QED BY <1>2, <2>1 DEF ItemsOf, Holds
<1> QED BY <1>3 DEF Present

\* Keys keep their items at the steps that change no flash, too.
LEMMA HoldsWorn ==
  ASSUME NEW bs \in Flash, NEW cs, Worn(bs, cs), NEW k, Holds(bs, k),
         \A p \in Live(bs) : At(bs, p).key = k /\ At(bs, p).ok /\ Lasting(bs, p) =>
            p \in Live(cs)
  PROVE  Holds(cs, k)
<1>1. /\ Spared(cs) <=> Spared(bs)
      /\ \A b \in Blocks : cs[b].state = "clean" <=> bs[b].state = "clean"
  BY WornFacts
<1>2. \A p \in Live(bs) : p[1] \in Blocks
  BY LiveType
<1>3. \A p \in Live(bs) : Lasting(bs, p) => Lasting(cs, p)
  BY <1>1, <1>2 DEF Lasting
<1> QED BY <1>3, HoldsKept DEF Worn

LEMMA KeepInit ==
  ASSUME Init
  PROVE  KeepInv
<1>1. Present
  BY DEF Init, Present
<1>2. 0 \in Blocks /\ Spared(blocks)
  BY Sizes DEF Init, Erased, Spared
<1> QED BY <1>1, <1>2 DEF Init, KeepInv, CopiesLost

LEMMA KeepScanFormat ==
  ASSUME Inv, KeepInv, ScanFormat
  PROVE  KeepInv'
<1>1. /\ blocks \in Flash /\ at[1] \in Blocks /\ blocks[at[1]].state = "none"
      /\ pc' = "scan" /\ UNCHANGED <<store, req>>
      /\ blocks' = Format(blocks, at[1], Clean)
      /\ ItemCount(blocks, at[1]) = 0
  BY DEF Inv, TypeOK, ScanFormat, FlashOK
<1>2. /\ \A c \in Blocks :
            blocks'[c].state = IF c = at[1] THEN "clean" ELSE blocks[c].state
      /\ Live(blocks') = {p \in Live(blocks) : p[1] # at[1]}
      /\ \A p \in Positions : p[1] # at[1] => At(blocks', p) = At(blocks, p)
  BY <1>1, FormatClean
<1>3. \A p \in Live(blocks) : /\ p \in Positions /\ p[1] \in Blocks /\ p[2] \in 1 .. C
                              /\ p[2] <= ItemCount(blocks, p[1])
  BY <1>1, LiveType
<1>4. \A p \in Live(blocks) : p[1] # at[1]
  BY <1>1, <1>3, Sizes
<1>5. Spared(blocks')
  <2>1. blocks'[at[1]] = Clean
    BY <1>1 DEF Format, Flash
  <2> QED BY <1>1, <2>1 DEF Spared
<1>6. \A p \in Live(blocks) : p \in Live(blocks') /\ At(blocks', p) = At(blocks, p)
  BY <1>2, <1>3, <1>4
<1>7. Present'
  BY <1>1, <1>5, <1>6, PresentKept, HoldsKept DEF KeepInv, Lasting
<1> QED BY <1>1, <1>5, <1>7 DEF KeepInv, CopiesLost

LEMMA KeepScanItem ==
  ASSUME Inv, KeepInv, ScanItem
  PROVE  KeepInv'
<1>1. /\ blocks \in Flash /\ at \in Positions /\ at[2] <= ItemCount(blocks, at[1])
      /\ at[1] \in Blocks
      /\ pc = "scan" /\ pc' = "scan" /\ UNCHANGED <<store, req>>
      /\ blocks' = Recovered(at)
  <2>1. at[1] \in Blocks /\ at[2] <= ItemCount(blocks, at[1]) /\ blocks \in Flash
    BY DEF Inv, TypeOK, ScanItem
  <2>2. ItemCount(blocks, at[1]) \in Nat /\ ItemCount(blocks, at[1]) <= C
    BY <2>1, BlockType
  <2>3. at \in Positions
    BY <2>1, <2>2, AtType, Sizes DEF Inv, Positions
  <2> QED BY <2>1, <2>3 DEF ScanItem
<1>2. Worn(blocks, blocks')
  BY <1>1, RecoveredFacts
<1>3. /\ Spared(blocks') <=> Spared(blocks)
      /\ \A b \in Blocks : blocks'[b].state = "clean" <=> blocks[b].state = "clean"
      /\ blocks' \in Flash
  BY <1>1, <1>2, WornFacts
<1>4. \A p \in Live(blocks') : /\ p \in Live(blocks) /\ At(blocks', p) = At(blocks, p)
                               /\ p[1] \in Blocks
  BY <1>2, <1>3, LiveType DEF Worn
<1>5. CopiesLost'
  <2> SUFFICES ASSUME ~Spared(blocks'), NEW c \in Live(blocks'),
                      blocks'[c[1]].state = "clean", At(blocks', c).ok, Replaces(c)'
               PROVE  FALSE
    BY DEF CopiesLost
  <2>1. /\ ~Spared(blocks) /\ c \in Live(blocks) /\ blocks[c[1]].state = "clean"
        /\ At(blocks, c).ok
    BY <1>3, <1>4
  <2>2. Replaces(c)
    BY <1>4 DEF Replaces
  <2> QED BY <1>1, <2>1, <2>2 DEF KeepInv, CopiesLost
<1>6. ASSUME NEW k \in Keys, Holds(blocks, k)
      PROVE  Holds(blocks', k)
  <2>1. CASE \A p \in Live(blocks) :
                At(blocks, p).key = k /\ At(blocks, p).ok => p \in Live(blocks')
    BY <1>1, <1>2, <1>6, <2>1, HoldsWorn
  <2>2. ASSUME NEW p \in Live(blocks), At(blocks, p).key = k, At(blocks, p).ok,
               p \notin Live(blocks')
        PROVE  Holds(blocks', k)
    <3> DEFINE o == At(blocks, at).origin
    <3>1. /\ at \in Live(blocks) /\ At(blocks, at).ok /\ Replaces(at)
          /\ p = o /\ Live(blocks') = Live(blocks) \ {o}
      <4>1. at \in Live(blocks)
        <5>1. ASSUME At(blocks, at) = Deleted
              PROVE  FALSE
          <6>1. Recovered(at) = Mark(blocks, at[1])
            BY <5>1 DEF Recovered
          <6> QED BY <1>1, <2>2, <6>1, MarkFacts
        <5> QED BY <1>1, <5>1 DEF Live
      <4>2. At(blocks, at) # Deleted
        BY <4>1 DEF Live
      <4>3. At(blocks, at).ok
        <5>1. ASSUME ~At(blocks, at).ok
              PROVE  FALSE
          <6>1. Recovered(at) = Mark(Kill(blocks, at), at[1])
            BY <4>2, <5>1 DEF Recovered
          <6>2. Live(blocks') = Live(blocks) \ {at}
            BY <1>1, <4>1, <6>1, KillMarkWorn
          <6> QED BY <2>2, <5>1, <6>2
        <5> QED BY <5>1
      <4>4. Replaces(at)
        <5>1. ~Replaces(at) => Recovered(at) = blocks
          BY <4>2, <4>3 DEF Recovered
        <5> QED BY <1>1, <2>2, <5>1
      <4>5. /\ o \in Live(blocks)
            /\ Recovered(at) = IF o[1] <= at[1] THEN Mark(Kill(blocks, o), o[1])
                               ELSE Kill(blocks, o)
        BY <4>2, <4>3, <4>4 DEF Recovered, Replaces
      <4> HIDE DEF o
      <4>6. o[1] \in Blocks
        BY <1>1, <4>5, LiveType
      <4>7. Live(blocks') = Live(blocks) \ {o}
        BY <1>1, <4>5, <4>6, KillWorn, KillMarkWorn
      <4> QED BY <2>2, <4>1, <4>3, <4>4, <4>7
    <3>2. at # o /\ At(blocks, at).key = k
      BY <2>2, <3>1 DEF Replaces
    <3> HIDE DEF o
    <3>3. at \in Live(blocks')
      BY <3>1, <3>2
    <3>4. Lasting(blocks', at)
      <4>1. ~Spared(blocks) => blocks[at[1]].state # "clean"
        BY <1>1, <3>1 DEF KeepInv, CopiesLost
      <4> QED BY <1>1, <1>3, <4>1 DEF Lasting
    <3> QED BY <1>4, <3>1, <3>2, <3>3, <3>4 DEF Holds
  <2> QED BY <2>1, <2>2
<1>7. Present'
  BY <1>1, <1>6, PresentKept DEF KeepInv
<1> QED BY <1>1, <1>5, <1>7 DEF KeepInv

LEMMA KeepScanNext ==
  ASSUME Inv, KeepInv, ScanNext
  PROVE  KeepInv'
<1>1. /\ pc = "scan" /\ pc' \in {"scan", "settle"} /\ UNCHANGED <<blocks, store, req>>
  BY DEF ScanNext
<1>2. Present'
  BY <1>1, PresentKept DEF KeepInv
<1>3. CopiesLost'
  BY <1>1 DEF KeepInv, CopiesLost, Replaces
<1> QED BY <1>1, <1>2, <1>3 DEF KeepInv

LEMMA KeepSettle ==
  ASSUME Inv, KeepInv, Settle
  PROVE  KeepInv'
<1>0. PICK u : u = Max(Unclean)
  OBVIOUS
<1>1. /\ blocks \in Flash /\ pc = "settle" /\ pc' = "settle" /\ UNCHANGED <<store, req>>
      /\ \A b \in Blocks : blocks[b].state # "none"
      /\ blocks' = IF Cardinality(CleanBlocks(blocks)) >= Reserved
                   THEN SetState(blocks, u, "dirty") ELSE Format(blocks, u, Clean)
  BY <1>0, SettledFacts DEF Settle
<1>2. u \in Blocks /\ blocks[u].state = "clean" /\ ItemCount(blocks, u) # 0
  BY <1>0, <1>1, UncleanOne DEF Settle, Inv
<1>3. \A p \in Live(blocks) : p[1] \in Blocks /\ p \in Positions
  BY <1>1, LiveType
<1>4. CASE Cardinality(CleanBlocks(blocks)) >= 1
  <2>1. PICK b \in Blocks : blocks[b] = Clean
    BY <1>1, <1>4, CleanCount DEF CleanBlocks
  <2>2. blocks' = SetState(blocks, u, "dirty") /\ b # u
    BY <1>1, <1>2, <1>4, <2>1, CleanBlock DEF Reserved
  <2>3. /\ \A c \in Blocks : blocks'[c].state = IF c = u THEN "dirty" ELSE blocks[c].state
        /\ Live(blocks') = Live(blocks)
        /\ \A p \in Positions : At(blocks', p) = At(blocks, p)
    BY <1>1, <1>2, <2>2, SetStateFacts, StateNames
  <2>4. blocks'[b] = Clean
    BY <1>1, <2>1, <2>2 DEF SetState, Flash
  <2>5. Spared(blocks')
    BY <2>4 DEF Spared
  <2>6. Present'
    BY <1>1, <1>3, <2>3, <2>5, PresentKept, HoldsKept DEF KeepInv, Lasting
  <2> QED BY <1>1, <2>5, <2>6 DEF KeepInv, CopiesLost
<1>5. CASE ~(Cardinality(CleanBlocks(blocks)) >= 1)
  <2>1. ~Spared(blocks)
    BY <1>1, <1>5, CleanCount DEF Spared, CleanBlocks
  <2>2. blocks' = Format(blocks, u, Clean)
    BY <1>1, <1>5 DEF Reserved
  <2>3. /\ \A c \in Blocks : blocks'[c].state = IF c = u THEN "clean" ELSE blocks[c].state
        /\ Live(blocks') = {p \in Live(blocks) : p[1] # u}
        /\ \A p \in Positions : p[1] # u => At(blocks', p) = At(blocks, p)
    BY <1>1, <1>2, <2>2, FormatClean
  <2>4. blocks'[u] = Clean
    BY <1>1, <1>2, <2>2 DEF Format, Flash
  <2>5. Spared(blocks')
    BY <1>2, <2>4 DEF Spared
  <2>6. \A p \in Live(blocks) : Lasting(blocks, p) =>
           p \in Live(blocks') /\ At(blocks', p) = At(blocks, p) /\ Lasting(blocks', p)
    BY <1>2, <1>3, <2>1, <2>3, <2>5 DEF Lasting
  <2>7. Present'
    BY <1>1, <2>6, PresentKept, HoldsKept DEF KeepInv
  <2> QED BY <1>1, <2>5, <2>7 DEF KeepInv, CopiesLost
<1> QED BY <1>4, <1>5

LEMMA KeepReturn ==
  ASSUME Inv', Return
  PROVE  KeepInv'
<1>1. pc' = "idle"
  BY DEF Return
<1> QED BY <1>1, PresentReturn DEF KeepInv, CopiesLost

LEMMA KeepSet ==
  ASSUME Inv, KeepInv, NEW k \in Keys, NEW v \in Vals, Set(k, v)
  PROVE  KeepInv'
<1>1. /\ pc = "idle" /\ ~gc /\ Position /\ store' = store
      /\ req' = IF pc' = "idle" THEN None ELSE [op |-> "set", key |-> k, val |-> v]
  BY DEF Set
<1>2. /\ pc' \in {"write", "spin", "idle"}
      /\ \A b \in Blocks : blocks'[b].state = blocks[b].state \/ blocks'[b].state = "used"
      /\ Live(blocks') = Live(blocks)
      /\ \A p \in Positions : At(blocks', p) = At(blocks, p)
  BY <1>1, PositionFacts
<1>3. req = None /\ blocks \in Flash /\ InUse(blocks)
  BY <1>1, IdleFacts
<1>4. \A p \in Live(blocks) : p \in Positions /\ p[1] \in Blocks /\ blocks[p[1]].state # "clean"
  BY <1>3, LiveType, UsedLasts
<1>5. \A p \in Live(blocks) : blocks'[p[1]].state # "clean"
  BY <1>2, <1>4
<1>6. \A j \in Keys : Holds(blocks, j) => Holds(blocks', j)
  BY <1>2, <1>4, <1>5, HoldsKept DEF Lasting
<1>7. \A j : ~Deleting(j) /\ ~Deleting(j)'
  BY <1>1, <1>3 DEF Deleting
<1>8. Present'
  BY <1>1, <1>6, <1>7 DEF KeepInv, Present
<1> QED BY <1>2, <1>8 DEF KeepInv, CopiesLost

LEMMA KeepWrite ==
  ASSUME Inv, KeepInv, Write
  PROVE  KeepInv'
<1>0. Inv'
  BY NextInv DEF Next, Work
<1>1. CASE Return
  BY <1>0, <1>1, KeepReturn
<1>2. CASE ~Return
  <2> DEFINE item == [key |-> req.key, val |-> req.val, ok |-> TRUE,
                      origin |-> IF todo = {} THEN None ELSE First(todo)]
  <2>1. /\ pc = "write" /\ pc' = "unlink" /\ UNCHANGED <<store, req, todo>>
        /\ blocks' = Put(blocks, wb, item) /\ todo # {}
    BY <1>2 DEF Write
  <2>2. /\ blocks \in Flash /\ wb \in Blocks /\ ItemCount(blocks, wb) < C
        /\ req.op = "set" /\ req \in Promise!Requests
        /\ todo = {p \in Live(blocks) : At(blocks, p).key = req.key}
    BY <2>1 DEF Inv, TypeOK, TodoInv, CallInv, HasRoom
  <2>3. todo \subseteq Positions /\ First(todo) \in Positions
    <3>1. todo \subseteq Positions
      BY <2>2 DEF Live
    <3> QED BY <2>1, <3>1, FirstExists
  <2>4. item \in Items
    BY <2>1, <2>2, <2>3, RequestFacts DEF Items
  <2> HIDE DEF item
  <2>5. \A p \in Live(blocks) : p \in Positions /\ p[1] \in Blocks /\ p[2] <= ItemCount(blocks, p[1])
    BY <2>2, LiveType
  <2>6. Live(blocks) \subseteq Live(blocks')
    BY <2>1, <2>2, <2>4, PutFacts
  <2>7. \A p \in Live(blocks) : At(blocks', p) = At(blocks, p)
    BY <2>1, <2>2, <2>4, <2>5, PutFacts
  <2>8. InUse(blocks') /\ blocks' \in Flash
    BY <1>0, <2>1 DEF Inv, TypeOK, SteadyInv, Steady
  <2>9. \A p \in Live(blocks') : Lasting(blocks', p)
    BY <2>8, UsedLasts
  <2>10. Present'
    BY <2>1, <2>6, <2>7, <2>9, PresentKept, HoldsKept DEF KeepInv
  <2>11. \A p \in todo' : At(blocks', p).key = req'.key
    BY <2>1, <2>2, <2>7
  <2> QED BY <2>1, <2>10, <2>11 DEF KeepInv, CopiesLost
<1> QED BY <1>1, <1>2

LEMMA KeepDelete ==
  ASSUME Inv, KeepInv, NEW ks, NEW ps, Delete(ks, ps)
  PROVE  KeepInv'
<1>1. /\ pc = "idle" /\ pc' = "unlink" /\ UNCHANGED <<blocks, store>>
      /\ req' = [op |-> "delete", keys |-> ks]
  BY DEF Delete
<1>2. \A k : ~Deleting(k)
  BY <1>1, IdleFacts DEF Deleting
<1>3. Present'
  BY <1>1, <1>2 DEF KeepInv, Present
<1> QED BY <1>1, <1>3 DEF KeepInv, CopiesLost

LEMMA KeepUnlink ==
  ASSUME Inv, KeepInv, Unlink
  PROVE  KeepInv'
<1>0. PICK f : f = First(todo)
  OBVIOUS
<1>1. /\ pc = "unlink" /\ pc' = "mark" /\ UNCHANGED <<store, req, todo>>
      /\ blocks' = Kill(blocks, f)
  BY <1>0 DEF Unlink
<1>2. /\ blocks \in Flash /\ InUse(blocks) /\ Sound(blocks)
      /\ todo \subseteq Live(blocks) /\ todo # {}
      /\ req # None /\ req \in Promise!Requests
      /\ req.op = "set" =>
            /\ \A p \in todo : At(blocks, p).key = req.key
            /\ \E p \in Live(blocks) \ todo : At(blocks, p).key = req.key
      /\ req.op = "delete" =>
            \A p \in Live(blocks) : At(blocks, p).key \in req.keys <=> p \in todo
  BY <1>1 DEF Inv, TypeOK, SteadyInv, Steady, TodoInv, CallInv, KeepInv
<1>3. f \in todo
  <2>1. todo \subseteq Positions
    BY <1>2 DEF Live
  <2> QED BY <1>0, <1>2, <2>1, FirstExists
<1>4. /\ Worn(blocks, blocks') /\ Live(blocks') = Live(blocks) \ {f}
  BY <1>1, <1>2, <1>3, KillWorn
<1>5. /\ blocks' \in Flash /\ InUse(blocks')
      /\ \A p \in Live(blocks') : At(blocks', p) = At(blocks, p)
  BY <1>2, <1>4, WornFacts DEF Worn
<1>6. \A p \in Live(blocks') : Lasting(blocks', p) /\ At(blocks', p).ok
  BY <1>2, <1>4, <1>5, UsedLasts DEF Sound
<1>7. ASSUME NEW k \in Keys, Holds(blocks, k), ~Deleting(k)
      PROVE  Holds(blocks', k)
  <2>1. PICK p \in Live(blocks) : At(blocks, p).key = k
    BY <1>7 DEF Holds
  <2>2. CASE p # f
    BY <1>4, <1>5, <1>6, <2>1, <2>2 DEF Holds
  <2>3. CASE p = f
    <3>1. req.op = "set"
      BY <1>2, <1>3, <1>7, <2>1, <2>3, RequestFacts DEF Deleting
    <3>2. PICK q \in Live(blocks) \ todo : At(blocks, q).key = req.key
      BY <1>2, <3>1
    <3>3. At(blocks, q).key = k /\ q # f
      BY <1>2, <1>3, <2>1, <2>3, <3>1, <3>2
    <3> QED BY <1>4, <1>5, <1>6, <3>2, <3>3 DEF Holds
  <2> QED BY <2>2, <2>3
<1>8. Present'
  BY <1>1, <1>7 DEF KeepInv, Present, Deleting
<1> QED BY <1>1, <1>8 DEF KeepInv, CopiesLost

LEMMA KeepMarkDirty ==
  ASSUME Inv, KeepInv, MarkDirty
  PROVE  KeepInv'
<1>0. Inv'
  BY NextInv DEF Next, Work
<1>1. CASE Return
  BY <1>0, <1>1, KeepReturn
<1>2. CASE ~Return
  <2>0. PICK f : f = First(todo)
    OBVIOUS
  <2>1. /\ pc = "mark" /\ pc' = "unlink" /\ UNCHANGED <<store, req>>
        /\ blocks' = Mark(blocks, f[1])
        /\ todo' = todo \ {f} /\ todo' # {}
    BY <1>2, <2>0 DEF MarkDirty
  <2>2. blocks \in Flash /\ todo \subseteq Positions
    BY DEF Inv, TypeOK
  <2>3. req.op # "set"
    BY <2>0, <2>1 DEF Inv, TodoInv
  <2>4. f[1] \in Blocks
    BY <2>0, <2>1, <2>2, FirstExists DEF Positions
  <2>5. Worn(blocks, blocks') /\ Live(blocks') = Live(blocks)
    BY <2>1, <2>2, <2>4, MarkWorn, MarkFacts
  <2>6. Present'
    BY <2>1, <2>2, <2>5, PresentKept, HoldsWorn DEF KeepInv
  <2> QED BY <2>1, <2>3, <2>6 DEF KeepInv, CopiesLost
<1> QED BY <1>1, <1>2

LEMMA KeepCollect ==
  ASSUME Inv, KeepInv, Collect
  PROVE  KeepInv'
<1>1. pc' \in {"idle", "copy"} /\ UNCHANGED <<blocks, store, req>>
  BY DEF Collect
<1>2. Present'
  BY <1>1, PresentKept DEF KeepInv
<1> QED BY <1>1, <1>2 DEF KeepInv, CopiesLost

\* While a block is collected, the items that last are not in the block they
\* are copied to.
LEMMA CollectLasts ==
  ASSUME Inv, pc = "copy"
  PROVE  /\ \A b \in Blocks \ {wb} : /\ blocks[b].state \notin {"clean", "none"}
                                     /\ blocks[b] # Clean
         /\ \A p \in Live(blocks) : Lasting(blocks, p) =>
               p[1] # wb /\ p[1] \in Blocks /\ blocks[p[1]].state # "clean"
<1>1. /\ blocks \in Flash /\ wb \in Blocks /\ at[1] \in Blocks \ {wb}
      /\ blocks[wb].state = "clean" /\ blocks[at[1]].state = "dirty"
      /\ \A b \in Blocks \ {wb, at[1]} : blocks[b].state \in {"used", "dirty"}
  BY DEF Inv, TypeOK, CollectInv
<1>2. \A b \in Blocks \ {wb} : blocks[b].state \notin {"clean", "none"} /\ blocks[b] # Clean
  BY <1>1, CleanBlock
<1>3. \A p \in Live(blocks) : p[1] \in Blocks /\ p[2] \in 1 .. C /\ p[2] <= ItemCount(blocks, p[1])
  BY <1>1, LiveType
<1>4. ASSUME NEW p \in Live(blocks), Lasting(blocks, p), p[1] = wb
      PROVE  FALSE
  <2>1. blocks[wb] = Clean
    BY <1>1, <1>2, <1>4 DEF Lasting, Spared
  <2>2. ItemCount(blocks, wb) = 0
    BY <1>1, <2>1, CleanBlock
  <2>3. p[2] <= 0 /\ p[2] \in 1 .. C
    BY <1>3, <1>4, <2>2
  <2> QED BY <2>3, Sizes
<1> QED BY <1>2, <1>3, <1>4

LEMMA KeepCopy ==
  ASSUME Inv, KeepInv, Copy
  PROVE  KeepInv'
<1>0. PICK f : f = First(Left)
  OBVIOUS
<1>1. /\ pc = "copy" /\ pc' = "copy" /\ Left # {} /\ UNCHANGED <<store, req>>
      /\ blocks' = Put(blocks, wb, At(blocks, f))
  BY <1>0 DEF Copy
<1>2. /\ blocks \in Flash /\ wb \in Blocks /\ ItemCount(blocks, wb) < C
      /\ At(blocks, f) \in Items
  BY <1>0, <1>1, LeftFacts DEF Inv, TypeOK
<1>3. At(blocks, f) # Deleted /\ At(blocks, f) \in Items \cup {Deleted}
  BY <1>2, DeletedNoItem
<1>4. \A p \in Live(blocks) : p \in Positions /\ p[2] <= ItemCount(blocks, p[1])
  BY <1>2, LiveType
<1>5. \A p \in Live(blocks) : p \in Live(blocks') /\ At(blocks', p) = At(blocks, p)
  BY <1>1, <1>2, <1>3, <1>4, PutFacts
<1>6. \A c \in Blocks : blocks'[c].state = blocks[c].state
  BY <1>1, <1>2, <1>3, PutFacts
<1>7. \A p \in Live(blocks) : Lasting(blocks, p) => Lasting(blocks', p)
  BY <1>1, <1>6, CollectLasts DEF Lasting
<1>8. Present'
  BY <1>1, <1>5, <1>7, PresentKept, HoldsKept DEF KeepInv
<1> QED BY <1>1, <1>8 DEF KeepInv, CopiesLost

LEMMA KeepErase ==
  ASSUME Inv, KeepInv, Erase
  PROVE  KeepInv'
<1>0. PICK a : a = at[1]
  OBVIOUS
<1>1. /\ pc = "copy" /\ pc' = "header" /\ Left = {} /\ UNCHANGED <<store, req>>
      /\ blocks' = Format(blocks, a, Erased)
  BY <1>0 DEF Erase
<1>2. /\ blocks \in Flash /\ a \in Blocks /\ a # wb
      /\ \A p \in Live(blocks) : p[1] = a /\ p[2] < at[2] =>
            \E c \in Live(blocks) : Copied(p, c)
      /\ Sound(blocks)
  BY <1>0, <1>1 DEF Inv, TypeOK, CollectInv
<1>3. /\ \A c \in Blocks : blocks'[c].state = IF c = a THEN "none" ELSE blocks[c].state
      /\ Live(blocks') = {p \in Live(blocks) : p[1] # a}
      /\ \A p \in Positions : p[1] # a => At(blocks', p) = At(blocks, p)
  BY <1>1, <1>2, FormatErased
<1>4. \A p : Lasting(blocks', p)
  BY <1>2, <1>3 DEF Lasting, Spared
<1>5. \A p \in Live(blocks) : p \in Positions /\ p[2] \in Nat
  BY <1>2, LiveType, Sizes
<1>6. \A p \in Live(blocks) : p[1] # a =>
         p \in Live(blocks') /\ At(blocks', p) = At(blocks, p)
  BY <1>3, <1>5
<1>7. ASSUME NEW p \in Live(blocks)
      PROVE  \E q \in Live(blocks') : At(blocks', q) = At(blocks, p)
  <2>1. CASE p[1] # a
    BY <1>6, <2>1
  <2>2. CASE p[1] = a
    <3>1. p[2] < at[2]
      <4>1. ~(p[2] >= at[2])
        BY <1>0, <1>1, <2>2 DEF Left
      <4>2. at[2] \in Nat
        BY AtType DEF Inv
      <4> QED BY <1>5, <4>1, <4>2
    <3>2. PICK c \in Live(blocks) : Copied(p, c)
      BY <1>2, <2>2, <3>1
    <3> QED BY <1>2, <1>6, <3>2 DEF Copied
  <2> QED BY <2>1, <2>2
<1>8. \A k \in Keys : Holds(blocks, k) => Holds(blocks', k)
  BY <1>4, <1>7 DEF Holds
<1>9. Present'
  BY <1>1, <1>8, PresentKept DEF KeepInv
<1> QED BY <1>1, <1>9 DEF KeepInv, CopiesLost

LEMMA KeepHeader ==
  ASSUME Inv, KeepInv, Header
  PROVE  KeepInv'
<1>0. PICK a : a = at[1]
  OBVIOUS
<1>1. /\ pc = "header" /\ pc' = "used" /\ UNCHANGED <<store, req>>
      /\ blocks' = Format(blocks, a, Clean)
  BY <1>0 DEF Header
<1>2. blocks \in Flash /\ a \in Blocks /\ blocks[a] = Erased
  BY <1>0, <1>1 DEF Inv, TypeOK, CollectInv
<1>3. ItemCount(blocks, a) = 0
  BY <1>2, EmptySeq DEF ItemCount, Erased
<1>4. /\ Live(blocks') = {p \in Live(blocks) : p[1] # a}
      /\ \A p \in Positions : p[1] # a => At(blocks', p) = At(blocks, p)
  BY <1>1, <1>2, FormatClean
<1>5. blocks'[a] = Clean
  BY <1>1, <1>2 DEF Format, Flash
<1>6. \A p : Lasting(blocks', p)
  BY <1>2, <1>5 DEF Lasting, Spared
<1>7. \A p \in Live(blocks) : /\ p \in Positions /\ p[2] \in 1 .. C
                              /\ p[2] <= ItemCount(blocks, p[1])
  BY <1>2, LiveType
<1>8. \A p \in Live(blocks) : p[1] # a
  BY <1>3, <1>7, Sizes
<1>9. Present'
  BY <1>1, <1>4, <1>6, <1>7, <1>8, PresentKept, HoldsKept DEF KeepInv
<1> QED BY <1>1, <1>9 DEF KeepInv, CopiesLost

\* If the power never fails while an item is copied that stands at its own
\* origin, then no copy that will be lost has the item it was made of, or any
\* other, as its origin.
LEMMA CopiesLostAfterFailure ==
  ASSUME Inv, KeepInv, PowerFailure, CopyHome \notin PowerFails
  PROVE  CopiesLost'
<1>1. /\ blocks' \in Flash
      /\ \A c \in Blocks :
            /\ blocks'[c].state = blocks[c].state
            /\ ItemCount(blocks', c) = ItemCount(blocks, c)
                  \/ /\ c = wb /\ ItemCount(blocks', c) = ItemCount(blocks, c) + 1
                     /\ pc \in {"write", "copy"}
      /\ \A p \in Live(blocks') :
            ~At(blocks', p).ok \/ (p \in Live(blocks) /\ At(blocks', p) = At(blocks, p))
      /\ \A p \in Live(blocks) : p \in Live(blocks') /\ At(blocks', p) = At(blocks, p)
  BY PowerFailureFacts
<1>2. blocks \in Flash /\ wb \in Blocks /\ pc \in Steps
  BY DEF Inv, TypeOK
<1> SUFFICES ASSUME ~Spared(blocks'), NEW c \in Live(blocks'),
                    blocks'[c[1]].state = "clean", At(blocks', c).ok, Replaces(c)'
             PROVE  FALSE
  BY DEF CopiesLost
<1>3. /\ c \in Live(blocks) /\ At(blocks', c) = At(blocks, c) /\ c[1] \in Blocks
      /\ blocks[c[1]].state = "clean"
  BY <1>1, <1>2, LiveType
<1> DEFINE o == At(blocks, c).origin
<1>4. o \notin {None, c} /\ o \in Live(blocks') /\ At(blocks', o).key = At(blocks, c).key
  BY <1>3 DEF Replaces
<1> HIDE DEF o
<1>5. CASE pc \in Steady
  <2>1. InUse(blocks)
    BY <1>5 DEF Inv, SteadyInv
  <2> QED BY <1>2, <1>3, <2>1, UsedLasts
<1>6. CASE pc \in {"scan", "settle"}
  <2>1. blocks' = blocks
    BY <1>6 DEF PowerFailure
  <2>2. Replaces(c) /\ At(blocks, c).ok
    BY <1>1, <1>3, <1>4, <2>1 DEF Replaces, o
  <2> QED BY <1>3, <1>6, <2>1, <2>2 DEF KeepInv, CopiesLost
<1>7. CASE pc \in {"header", "used"}
  <2>1. blocks' = blocks
    BY <1>7 DEF PowerFailure
  <2>2. at[1] \in Blocks /\ (blocks[at[1]] = Erased \/ blocks[at[1]] = Clean)
    BY <1>7 DEF Inv, CollectInv
  <2> QED BY <2>1, <2>2 DEF Spared, Erased
<1>8. CASE pc = "copy"
  <2>1. /\ at[1] \in Blocks \ {wb}
        /\ \A p, q \in Live(blocks) : Rivals(blocks, p, q) =>
              (p[1] = wb /\ q[1] = at[1]) \/ (q[1] = wb /\ p[1] = at[1])
        /\ \A d \in Live(blocks) : d[1] = wb => \E p \in Live(blocks) : Copied(p, d)
    BY <1>8 DEF Inv, CollectInv
  <2>2. c[1] = wb
    BY <1>3, <1>8, CollectLasts
  <2>3. PICK p \in Live(blocks) : Copied(p, c)
    BY <1>3, <2>1, <2>2
  <2>4. p[1] = at[1] /\ p[2] < at[2] /\ At(blocks, p) = At(blocks, c)
    BY <2>3 DEF Copied
  <2>5. CASE o \in Live(blocks)
    <3>1. At(blocks, o).key = At(blocks, c).key /\ At(blocks, p).key = At(blocks, c).key
      BY <1>1, <1>4, <2>4, <2>5
    <3>2. o[1] # wb
      BY <1>3, <1>4, <2>1, <2>2, <2>5, <3>1 DEF Rivals
    <3>3. o = p
      BY <2>1, <2>4, <2>5, <3>1, <3>2 DEF Rivals
    <3>4. AtHome
      BY <1>8, <2>4, <3>3 DEF AtHome, o
    <3> QED BY <3>4 DEF PowerFailure
  <2>6. CASE o \notin Live(blocks)
    <3>1. Left # {} /\ At(blocks', o).key = At(blocks, First(Left)).key
      <4>1. blocks' # blocks
        BY <1>4, <2>6
      <4>2. Left # {} /\ blocks' \in Torn(blocks, At(blocks, First(Left)).key)
        BY <1>8, <4>1 DEF PowerFailure
      <4>3. PICK key : key = At(blocks, First(Left)).key
        OBVIOUS
      <4> DEFINE bad == [key |-> key, val |-> None, origin |-> None, ok |-> FALSE]
      <4>4. key \in Keys /\ ItemCount(blocks, wb) < C
        BY <1>8, <4>2, <4>3, LeftFacts DEF Items
      <4>5. bad \in Items /\ bad.key = key /\ bad # Deleted
        <5>1. bad \in Items
          BY <4>4 DEF Items
        <5> QED BY <5>1, DeletedNoItem
      <4>6. blocks' = Put(blocks, wb, Deleted) \/ blocks' = Put(blocks, wb, bad)
        BY <4>1, <4>2, <4>3 DEF Torn
      <4> HIDE DEF bad
      <4> DEFINE n == Next1(blocks, wb)
      <4>7. CASE blocks' = Put(blocks, wb, Deleted)
        <5>1. Live(blocks') = Live(blocks)
          BY <1>2, <4>4, <4>7, PutFacts
        <5> QED BY <1>4, <2>6, <5>1
      <4>8. CASE blocks' = Put(blocks, wb, bad)
        <5>1. Live(blocks') = Live(blocks) \cup {n} /\ At(blocks', n) = bad
          BY <1>2, <4>4, <4>5, <4>8, PutFacts
        <5> HIDE DEF n
        <5> QED BY <1>4, <2>6, <4>2, <4>3, <4>5, <5>1
      <4> QED BY <4>6, <4>7, <4>8
    <3>2. PICK f : f = First(Left)
      OBVIOUS
    <3>3. f \in Live(blocks) /\ f[1] = at[1] /\ at[2] <= f[2] /\ f[2] \in 1 .. C
      BY <1>8, <3>1, <3>2, LeftFacts
    <3>4. p # f
      <4>1. at[2] \in Nat
        BY AtType DEF Inv
      <4> QED BY <2>4, <3>3, <4>1, Sizes
    <3>5. At(blocks, p).key = At(blocks, f).key
      BY <1>4, <2>4, <3>1, <3>2
    <3> QED BY <2>1, <2>4, <3>3, <3>4, <3>5 DEF Rivals
  <2> QED BY <2>5, <2>6
<1> QED BY <1>2, <1>5, <1>6, <1>7, <1>8 DEF Steps, Steady

LEMMA KeepPowerFailure ==
  ASSUME Inv, KeepInv, PowerFailure, CopyHome \notin PowerFails
  PROVE  KeepInv'
<1>1. pc' = "scan" /\ UNCHANGED <<store, req>>
  BY DEF PowerFailure
<1>2. /\ blocks' \in Flash
      /\ \A c \in Blocks :
            /\ blocks'[c].state = blocks[c].state
            /\ ItemCount(blocks', c) = ItemCount(blocks, c)
                  \/ /\ c = wb /\ ItemCount(blocks', c) = ItemCount(blocks, c) + 1
                     /\ pc \in {"write", "copy"}
      /\ \A p \in Live(blocks) : p \in Live(blocks') /\ At(blocks', p) = At(blocks, p)
  BY PowerFailureFacts
<1>3. blocks \in Flash /\ wb \in Blocks
  BY DEF Inv, TypeOK
<1>4. \A p \in Live(blocks) : p[1] \in Blocks
  BY <1>3, LiveType
<1>5. \A p \in Live(blocks) : Lasting(blocks, p) => Lasting(blocks', p)
  <2>1. CASE pc = "copy"
    BY <1>2, <1>4, <2>1, CollectLasts DEF Lasting
  <2>2. CASE pc = "write"
    <3>1. InUse(blocks)
      BY <2>2 DEF Inv, SteadyInv, Steady
    <3> QED BY <1>2, <1>3, <1>4, <3>1, UsedLasts DEF Lasting
  <2>3. CASE pc \notin {"write", "copy"}
    <3>1. \A c \in Blocks : blocks'[c] = Clean <=> blocks[c] = Clean
      BY <1>2, <1>3, <2>3, CleanBlock
    <3> QED BY <1>2, <1>4, <3>1 DEF Lasting, Spared
  <2> QED BY <2>1, <2>2, <2>3
<1>6. Present'
  BY <1>1, <1>2, <1>5, PresentKept, HoldsKept DEF KeepInv
<1> QED BY <1>1, <1>6, CopiesLostAfterFailure DEF KeepInv

LEMMA KeepNext ==
  ASSUME CopyHome \notin PowerFails, Inv, ReserveInv, KeepInv, [Next]_vars
  PROVE  KeepInv'
<1>0. Inv'
  BY NextInv
<1>1. CASE Boot
  <2>1. CASE Initialized
    <3>1. Return
      BY <2>1 DEF Initialized
    <3> QED BY <1>0, <3>1, KeepReturn
  <2> QED BY <1>1, <2>1, KeepScanFormat, KeepScanItem, KeepScanNext, KeepSettle,
             NoSettleClean DEF Boot
<1>2. CASE Calls
  <2>1. ASSUME NEW k \in Keys, DeleteKey(k)
        PROVE  KeepInv'
    <3>1. PICK ps : Delete({k}, ps)
      BY <2>1 DEF DeleteKey
    <3> QED BY <3>1, KeepDelete
  <2>2. ASSUME NEW ks \in PrefixSets, DeletePrefix(ks)
        PROVE  KeepInv'
    <3>1. PICK ps : Delete(ks, ps)
      BY <2>2 DEF DeletePrefix
    <3> QED BY <3>1, KeepDelete
  <2> QED BY <1>2, <2>1, <2>2, KeepSet DEF Calls
<1>3. CASE Work
  BY <1>3, KeepWrite, KeepUnlink, KeepMarkDirty DEF Work
<1>4. CASE Collection
  <2>1. CASE Collected
    <3>1. Return
      BY <2>1 DEF Collected
    <3> QED BY <1>0, <3>1, KeepReturn
  <2> QED BY <1>4, <2>1, KeepCollect, KeepCopy, KeepErase, KeepHeader DEF Collection
<1>5. CASE PowerFailure
  BY <1>5, KeepPowerFailure
<1>6. CASE UNCHANGED vars
  <2>1. UNCHANGED <<blocks, pc, todo, store, req>>
    BY <1>6 DEF vars
  <2>2. Present'
    BY <2>1, PresentKept DEF KeepInv
  <2> QED BY <2>1, <2>2 DEF KeepInv, CopiesLost, Replaces
<1> QED BY <1>1, <1>2, <1>3, <1>4, <1>5, <1>6 DEF Next

-----------------------------------------------------------------------------
(* KvFlash implements KvStore.                                             *)

\* What the step that writes an item leaves in the flash.
LEMMA WriteFacts ==
  ASSUME Inv, Write
  PROVE  /\ req.op = "set" /\ req.key \in Keys /\ req.val \in Vals
         /\ \A p \in Live(blocks) : p \in Live(blocks') /\ At(blocks', p) = At(blocks, p)
         /\ \E p \in Live(blocks') :
               At(blocks', p).key = req.key /\ At(blocks', p).val = req.val
<1> DEFINE item == [key |-> req.key, val |-> req.val, ok |-> TRUE,
                    origin |-> IF todo = {} THEN None ELSE First(todo)]
           n == Next1(blocks, wb)
<1>1. pc = "write" /\ blocks' = Put(blocks, wb, item)
  BY DEF Write
<1>2. /\ blocks \in Flash /\ wb \in Blocks /\ ItemCount(blocks, wb) < C
      /\ req.op = "set" /\ req \in Promise!Requests /\ todo \subseteq Positions
  BY <1>1 DEF Inv, TypeOK, TodoInv, CallInv, HasRoom
<1>3. req.key \in Keys /\ req.val \in Vals
  BY <1>2, RequestFacts
<1>4. item \in Items /\ item.key = req.key /\ item.val = req.val
  <2>1. todo # {} => First(todo) \in Positions
    BY <1>2, FirstExists
  <2> QED BY <1>3, <2>1 DEF Items
<1> HIDE DEF item
<1>5. item # Deleted /\ item \in Items \cup {Deleted}
  BY <1>4, DeletedNoItem
<1> HIDE DEF n
<1>6. Live(blocks') = Live(blocks) \cup {n} /\ At(blocks', n) = item
  BY <1>1, <1>2, <1>5, PutFacts DEF n
<1>7. \A p \in Live(blocks) : p \in Positions /\ p[2] <= ItemCount(blocks, p[1])
  BY <1>2, LiveType
<1>8. \A p \in Live(blocks) : At(blocks', p) = At(blocks, p)
  BY <1>1, <1>2, <1>5, <1>7, PutFacts
<1> QED BY <1>2, <1>3, <1>4, <1>6, <1>8

\* A get returns the value of any item of the key.
LEMMA ReturnContents ==
  ASSUME Inv, Next, Return
  PROVE  /\ store' \in [Keys -> Vals \cup {None}]
         /\ \A p \in Live(blocks') : store'[At(blocks', p).key] = At(blocks', p).val
         /\ \A p \in Live(blocks') : At(blocks', p).val # None
         /\ \A k \in Keys : (\A p \in Live(blocks') : At(blocks', p).key # k) => store'[k] = None
<1>1. pc' = "idle" /\ store' = Contents(blocks') /\ Inv'
  BY NextInv DEF Return
<1>2. /\ blocks' \in Flash /\ InUse(blocks') /\ NoRivals(blocks') /\ Sound(blocks')
      /\ Truthful'
  BY <1>1 DEF Inv, TypeOK, SteadyInv, Steady
<1>3. \A p \in Live(blocks') : At(blocks', p).val \in Vals /\ At(blocks', p).val # None
  BY <1>2, KvFlashAssumption DEF Truthful, Sound
<1> QED BY <1>1, <1>2, <1>3, ContentsFacts

\* No key loses its value when a call returns, unless it is being deleted.
LEMMA ReturnKeeps ==
  ASSUME Inv, KeepInv, Next, Return, NEW k \in Keys
  PROVE  /\ store'[k] \in {store[k], None} \cup Requested(k)
         /\ store[k] # None /\ ~Deleting(k) => store'[k] # None
<1>1. store'[k] \in {store[k], None} \cup Requested(k)
  BY NothingComesBackStep
<1>2. CASE store' = store
  BY <1>1, <1>2
<1>3. CASE store' # store
  <2>1. \A p \in Live(blocks) : p \in Live(blocks') /\ At(blocks', p) = At(blocks, p)
    BY <1>3, ReturnSteps, WriteFacts
  <2>2. ASSUME store[k] # None, ~Deleting(k)
        PROVE  store'[k] # None
    <3>1. PICK p \in Live(blocks) : At(blocks, p).key = k
      BY <2>2 DEF KeepInv, Present, Holds
    <3>2. p \in Live(blocks') /\ At(blocks', p).key = k
      BY <2>1, <3>1
    <3> QED BY <3>2, ReturnContents
  <2> QED BY <1>1, <2>2
<1> QED BY <1>2, <1>3

\* The call in progress explains every key that changes.
LEMMA ReturnExplained ==
  ASSUME Inv, KeepInv, Next, Return
  PROVE  \A k \in Keys : store'[k] # store[k] =>
            /\ req # None
            /\ k \in Promise!KeysOf(req)
            /\ store'[k] = IF req.op = "set" THEN req.val ELSE None
<1> SUFFICES ASSUME NEW k \in Keys, store'[k] # store[k]
             PROVE  /\ req # None
                    /\ k \in Promise!KeysOf(req)
                    /\ store'[k] = IF req.op = "set" THEN req.val ELSE None
  OBVIOUS
<1>1. /\ store'[k] \in {store[k], None} \cup Requested(k)
      /\ store[k] # None /\ ~Deleting(k) => store'[k] # None
  BY ReturnKeeps
<1>2. req = None \/ (req.op = "set" \/ req.op = "delete")
  BY RequestFacts DEF Inv, CallInv
<1>3. CASE Requested(k) # {}
  <2>1. req # None /\ req.op = "set" /\ req.key = k /\ Requested(k) = {req.val}
    BY <1>3 DEF Requested
  <2>2. store'[k] = req.val
    BY <1>1, <2>1 DEF Deleting
  <2> QED BY <2>1, <2>2 DEF Promise!KeysOf
<1>4. CASE Requested(k) = {}
  <2>1. Deleting(k) /\ store'[k] = None
    BY <1>1, <1>4
  <2> QED BY <2>1 DEF Deleting, Promise!KeysOf
<1> QED BY <1>3, <1>4

\* kv_init finds the call that the power cut short done, or not, or a part of
\* the keys deleted.
LEMMA InitializedRestarts ==
  ASSUME Inv, KeepInv, Initialized
  PROVE  Promise!Next
<1>1. /\ Next /\ Return /\ pc = "settle" /\ pc' = "idle" /\ req' = None
  BY DEF Next, Boot, Initialized, Return
<1>2. store' \in [Keys -> Vals \cup {None}]
  BY <1>1, ReturnContents
<1> DEFINE ks == {k \in Keys : store'[k] # store[k]}
<1>3. ks \in SUBSET Promise!KeysOf(req)
  BY <1>1, ReturnExplained
<1>4. ASSUME NEW k \in Keys
      PROVE  store'[k] = Promise!Effect(req, ks)[k]
  BY <1>1, ReturnExplained DEF Promise!Effect
<1>5. store' = Promise!Effect(req, ks)
  BY <1>2, <1>4 DEF Promise!Effect
<1> HIDE DEF ks
<1>6. pc \in {"scan", "settle"} /\ ~(pc' \in {"scan", "settle"})
  BY <1>1
<1>7. Promise!Restart
  BY <1>1, <1>3, <1>5, <1>6 DEF Promise!Restart
<1> QED BY <1>7 DEF Promise!Next

\* A call that returns has done what it was asked for.
LEMMA CallReturns ==
  ASSUME Inv, KeepInv, Next, Return, pc \in {"write", "mark"},
         req.op = "set" => store'[req.key] = req.val,
         req.op = "delete" => \A k \in req.keys : store'[k] = None
  PROVE  Promise!Next
<1>1. req # None /\ req \in Promise!Requests
  BY DEF Inv, CallInv
<1>2. store' \in [Keys -> Vals \cup {None}] /\ pc' = "idle" /\ req' = None
  BY ReturnContents DEF Return
<1>3. ASSUME NEW k \in Keys
      PROVE  store'[k] = Promise!Effect(req, Promise!KeysOf(req))[k]
  <2>1. CASE k \notin Promise!KeysOf(req)
    BY <2>1, ReturnExplained DEF Promise!Effect
  <2>2. CASE k \in Promise!KeysOf(req)
    BY <1>1, <2>2, RequestFacts DEF Promise!Effect, Promise!KeysOf
  <2> QED BY <2>1, <2>2
<1>4. store' = Promise!Effect(req, Promise!KeysOf(req))
  BY <1>2, <1>3 DEF Promise!Effect
<1>5. ~(pc \in {"scan", "settle"}) /\ ~(pc' \in {"scan", "settle"})
  BY <1>2
<1>6. Promise!Return
  BY <1>1, <1>2, <1>4, <1>5 DEF Promise!Return
<1> QED BY <1>6 DEF Promise!Next

LEMMA WriteImplements ==
  ASSUME Inv, KeepInv, Write
  PROVE  Promise!Next \/ UNCHANGED Promise!vars
<1>1. CASE Return
  <2>1. Next /\ pc = "write"
    BY DEF Next, Work, Write
  <2>2. req.op = "set" /\ store'[req.key] = req.val
    <3>1. PICK p \in Live(blocks') : At(blocks', p).key = req.key /\ At(blocks', p).val = req.val
      BY WriteFacts
    <3> QED BY <1>1, <2>1, <3>1, WriteFacts, ReturnContents
  <2> QED BY <1>1, <2>1, <2>2, CallReturns
<1>2. CASE ~Return
  <2>1. pc = "write" /\ pc' = "unlink" /\ UNCHANGED <<store, req>>
    BY <1>2 DEF Write
  <2> QED BY <2>1 DEF Promise!vars
<1> QED BY <1>1, <1>2

LEMMA MarkDirtyImplements ==
  ASSUME Inv, KeepInv, MarkDirty
  PROVE  Promise!Next \/ UNCHANGED Promise!vars
<1>1. CASE Return
  <2>0. PICK f : f = First(todo)
    OBVIOUS
  <2>1. /\ Next /\ pc = "mark" /\ blocks' = Mark(blocks, f[1])
        /\ todo' = todo \ {f} /\ todo # {}
        /\ blocks \in Flash /\ todo \subseteq Positions
        /\ f \notin Live(blocks)
        /\ req.op = "set" => \E p \in Live(blocks) \ todo :
              At(blocks, p).key = req.key /\ At(blocks, p).val = req.val
        /\ req.op = "delete" =>
              \A p \in Live(blocks) : At(blocks, p).key \in req.keys <=> p \in todo
    BY <2>0 DEF Next, Work, MarkDirty, Inv, TypeOK, TodoInv
  <2>2. todo = {f}
    <3>1. todo' = {}
      BY <1>1, NextInv, <2>1 DEF Return, Inv, CallInv
    <3> QED BY <2>1, <3>1
  <2>3. f[1] \in Blocks
    BY <2>1, <2>2 DEF Positions
  <2>4. Live(blocks') = Live(blocks)
    BY <2>1, <2>3, MarkFacts
  <2>5. \A p \in Live(blocks) : At(blocks', p) = At(blocks, p)
    BY <2>1, <2>3, MarkFacts, LiveType
  <2>6. req.op = "set" => store'[req.key] = req.val
    <3> SUFFICES ASSUME req.op = "set" PROVE store'[req.key] = req.val
      OBVIOUS
    <3>1. PICK p \in Live(blocks) : At(blocks, p).key = req.key /\ At(blocks, p).val = req.val
      BY <2>1
    <3>2. p \in Live(blocks') /\ At(blocks', p) = At(blocks, p)
      BY <2>4, <2>5
    <3>3. store'[At(blocks', p).key] = At(blocks', p).val
      BY <1>1, <2>1, <3>2, ReturnContents
    <3> QED BY <3>1, <3>2, <3>3
  <2>7. req.op = "delete" => \A k \in req.keys : store'[k] = None
    <3> SUFFICES ASSUME req.op = "delete", NEW k \in req.keys PROVE store'[k] = None
      OBVIOUS
    <3>1. k \in Keys
      BY <2>1, RequestFacts DEF Inv, CallInv
    <3>2. \A p \in Live(blocks') : At(blocks', p).key # k
      BY <2>1, <2>2, <2>4, <2>5
    <3> QED BY <1>1, <2>1, <3>1, <3>2, ReturnContents
  <2> QED BY <1>1, <2>1, <2>6, <2>7, CallReturns
<1>2. CASE ~Return
  <2>1. pc = "mark" /\ pc' = "unlink" /\ UNCHANGED <<store, req>>
    BY <1>2 DEF MarkDirty
  <2> QED BY <2>1 DEF Promise!vars
<1> QED BY <1>1, <1>2

LEMMA CallsImplement ==
  ASSUME Inv, Calls
  PROVE  Promise!Next \/ UNCHANGED Promise!vars
<1>1. ASSUME NEW k \in Keys, NEW v \in Vals, Set(k, v)
      PROVE  Promise!Next \/ UNCHANGED Promise!vars
  <2>1. /\ pc = "idle" /\ Position /\ ~gc /\ store' = store
        /\ req' = IF pc' = "idle" THEN None ELSE [op |-> "set", key |-> k, val |-> v]
    BY <1>1 DEF Set
  <2>2. req = None /\ pc' \in {"write", "spin", "idle"}
    BY <2>1, IdleFacts, PositionFacts
  <2>3. CASE pc' = "idle"
    BY <2>1, <2>2, <2>3 DEF Promise!vars
  <2>4. CASE pc' # "idle"
    <3>1. req' \in Promise!Requests
      BY <2>1, <2>4, SetRequest
    <3>2. ~(pc \in {"scan", "settle"}) /\ ~(pc' \in {"scan", "settle"})
      BY <2>1, <2>2
    <3> QED BY <2>1, <2>2, <3>1, <3>2 DEF Promise!Next, Promise!Call
  <2> QED BY <2>3, <2>4
<1>2. ASSUME NEW ks \in {{k} : k \in Keys} \cup PrefixSets, NEW ps, Delete(ks, ps)
      PROVE  Promise!Next
  <2>1. /\ pc = "idle" /\ pc' = "unlink" /\ store' = store
        /\ req' = [op |-> "delete", keys |-> ks]
    BY <1>2 DEF Delete
  <2>2. req = None
    BY <2>1, IdleFacts
  <2>3. req' \in Promise!Requests
    BY <2>1 DEF Promise!Requests
  <2> QED BY <2>1, <2>2, <2>3 DEF Promise!Next, Promise!Call
<1>3. CASE \E k \in Keys : DeleteKey(k)
  <2>1. PICK k \in Keys : DeleteKey(k)
    BY <1>3
  <2>2. PICK ps : Delete({k}, ps)
    BY <2>1 DEF DeleteKey
  <2> QED BY <1>2, <2>2
<1>4. CASE \E ks \in PrefixSets : DeletePrefix(ks)
  <2>1. PICK ks \in PrefixSets : DeletePrefix(ks)
    BY <1>4
  <2>2. PICK ps : Delete(ks, ps)
    BY <2>1 DEF DeletePrefix
  <2> QED BY <1>2, <2>2
<1> QED BY <1>1, <1>3, <1>4 DEF Calls

LEMMA Implementation ==
  ASSUME Inv, KeepInv, [Next]_vars
  PROVE  [Promise!Next]_(Promise!vars)
<1>1. CASE Boot
  <2>1. CASE Initialized
    BY <2>1, InitializedRestarts
  <2>2. CASE ScanFormat \/ ScanItem \/ ScanNext \/ Settle \/ SettleClean
    <3>1. /\ pc \in {"scan", "settle"} /\ pc' \in {"scan", "settle"}
          /\ UNCHANGED <<store, req>>
      BY <2>2 DEF ScanFormat, ScanItem, ScanNext, Settle, SettleClean
    <3> QED BY <3>1 DEF Promise!vars
  <2> QED BY <1>1, <2>1, <2>2 DEF Boot
<1>2. CASE Calls
  BY <1>2, CallsImplement
<1>3. CASE Work
  <2>1. CASE Unlink
    BY <2>1 DEF Unlink, Promise!vars
  <2> QED BY <1>3, <2>1, WriteImplements, MarkDirtyImplements DEF Work
<1>4. CASE Collection
  <2>1. CASE Collected
    <3>1. Next /\ Return /\ pc = "used" /\ pc' = "idle" /\ req' = None
      BY <2>1 DEF Next, Collection, Collected, Return
    <3>2. req = None
      BY <3>1 DEF Inv, CallInv
    <3>3. store' \in [Keys -> Vals \cup {None}] /\ store \in [Keys -> Vals \cup {None}]
      BY <3>1, ReturnContents DEF Inv, CallInv
    <3>4. \A k \in Keys : store'[k] = store[k]
      BY <3>1, <3>2, ReturnExplained
    <3>5. store' = store
      BY <3>3, <3>4
    <3> QED BY <3>1, <3>2, <3>5 DEF Promise!vars
  <2>2. CASE Collect \/ Copy \/ Erase \/ Header
    <3>1. /\ ~(pc \in {"scan", "settle"}) /\ ~(pc' \in {"scan", "settle"})
          /\ UNCHANGED <<store, req>>
      BY <2>2 DEF Collect, Copy, Erase, Header
    <3> QED BY <3>1 DEF Promise!vars
  <2> QED BY <1>4, <2>1, <2>2 DEF Collection
<1>5. CASE PowerFailure
  <2>1. pc' \in {"scan", "settle"} /\ UNCHANGED <<store, req>>
    BY <1>5 DEF PowerFailure
  <2> QED BY <2>1 DEF Promise!vars, Promise!Next, Promise!Fail
<1>6. CASE UNCHANGED vars
  BY <1>6 DEF vars, Promise!vars
<1> QED BY <1>1, <1>2, <1>3, <1>4, <1>5, <1>6 DEF Next

\* With fewer keys than items that fit into a block, and wherever the power
\* fails, but while an item is copied that stands at its own origin: the store
\* is the durable map of KvStore.
THEOREM Implements ==
  ASSUME FewKeys, CopyHome \notin PowerFails
  PROVE  Spec => KeepsStore
<1>1. Init => Inv /\ ReserveInv /\ KeepInv
  BY InitInv, ReserveInit, KeepInit
<1>2. Inv /\ ReserveInv /\ KeepInv /\ [Next]_vars => Inv' /\ ReserveInv' /\ KeepInv'
  BY NextInv, ReserveNext, KeepNext
<1>3. Init => Promise!Init
  BY DEF Init, Promise!Init
<1>4. Inv /\ ReserveInv /\ KeepInv /\ [Next]_vars => [Promise!Next]_(Promise!vars)
  BY Implementation
<1> QED BY <1>1, <1>2, <1>3, <1>4, PTL DEF Spec, KeepsStore, Promise!Spec
=============================================================================
