---------------------------- MODULE QueryPlanProofs ----------------------------
(***************************************************************************)
(* For any number of QuerySets, derived from each other in any way, with   *)
(* any arguments and whatever room the runtime leaves behind a slice: no   *)
(* plan changes because of another one or of a caller's writes.            *)
(*                                                                         *)
(* An append in place only ever meets an array that the same derivation    *)
(* has just allocated.  Plans may share arrays (Fresh), but nobody writes  *)
(* into the arrays that plans refer to.                                    *)
(*                                                                         *)
(* For any table, and any text that SQLite's LIKE takes whole (no NUL, not *)
(* above its length limit), an evaluation returns the rows that the calls  *)
(* ask for: what the ORM makes is compiled, arguments stay with      *)
(* their tests, an escaped text is found where it stands and nowhere       *)
(* else, and the limit cuts off the end of an order that was asked for.    *)
(***************************************************************************)
EXTENDS QueryPlan, SequenceTheorems, FiniteSetTheorems, TLAPS

\* What conditions and orderings of plans are made of.
Arguments == UNION {v.filters \union v.orders : v \in Vocabularies}
Items == UNION {{The(xs[i]) : i \in DOMAIN xs} : xs \in Arguments}
Cells == {<<>>} \union {<<x>> : x \in Items}
Heaps == Seq(Seq(Cells))

Slices == [array : Nat, len : Nat]
Plans == [conditions : Slices, orderings : Slices, limit : SUBSET Limits]
Meanings == [conditions : Seq(Items), orderings : Seq(Items), limit : SUBSET Limits, failed : BOOLEAN]
QuerySets == [plan : Plans, failed : BOOLEAN, meant : Meanings]

\* The elements of a slice have been written.
SliceOK(h, s) ==
    /\ s \in Slices
    /\ s.array = 0 => s.len = 0
    /\ s.array # 0 => /\ s.array \in 1..Len(h) /\ s.len <= Len(h[s.array])
                      /\ \A i \in 1..s.len : \E x \in Items : h[s.array][i] = <<x>>

\* A QuerySet says what the calls that made it mean.
Means(h, qs, others) ==
    /\ SliceOK(h, qs.plan.conditions) /\ qs.plan.conditions.array \notin others
    /\ SliceOK(h, qs.plan.orderings) /\ qs.plan.orderings.array \notin others
    /\ qs.failed = qs.meant.failed
    /\ ~qs.failed => /\ Elements(h, qs.plan.conditions) = qs.meant.conditions
                     /\ Elements(h, qs.plan.orderings) = qs.meant.orderings
                     /\ qs.plan.limit = qs.meant.limit

\* The inductive invariant.
Independent ==
    /\ heap \in Heaps /\ vocabulary \in Vocabularies
    /\ querysets \in Seq(QuerySets)
    /\ held \subseteq 1..Len(heap)
    /\ \A q \in 1..Len(querysets) : Means(heap, querysets[q], held)

-----------------------------------------------------------------------------
(* Slices.                                                                 *)

\* The elements of a slice are a sequence of its length.
LEMMA ElementsOfSlice ==
    ASSUME NEW h \in Heaps, NEW s, SliceOK(h, s)
    PROVE  Elements(h, s) \in Seq(Items) /\ Len(Elements(h, s)) = s.len
  <1>1. s.len \in Nat /\ (s.len > 0 => s.array # 0)
    BY DEF SliceOK, Slices
  <1>2. ASSUME NEW i \in 1..s.len PROVE h[s.array][i][1] \in Items
    <2>1. PICK x \in Items : h[s.array][i] = <<x>>
      BY <1>1 DEF SliceOK
    <2> QED BY <2>1
  <1> QED BY <1>1, <1>2 DEF Elements

\* A slice says the same in a heap in which its array has not changed.
LEMMA SliceStays ==
    ASSUME NEW h \in Heaps, NEW g \in Heaps, NEW s, SliceOK(h, s), Len(g) >= Len(h),
           s.array # 0 => g[s.array] = h[s.array]
    PROVE  SliceOK(g, s) /\ Elements(g, s) = Elements(h, s)
  <1>1. Len(g) \in Nat /\ Len(h) \in Nat /\ s.array \in Nat /\ s.len \in Nat
    BY DEF Heaps, SliceOK, Slices
  <1>2. CASE s.array = 0
    <2>1. s.len = 0 /\ 1..0 = {}
      BY <1>2 DEF SliceOK
    <2> QED BY <1>2, <2>1 DEF SliceOK, Elements
  <1>3. CASE s.array # 0
    BY <1>1, <1>3 DEF SliceOK, Elements
  <1> QED BY <1>2, <1>3

\* append writes into the slice's own array, or into a new one.
LEMMA AppendedEffect ==
    ASSUME NEW h \in Heaps, NEW s, SliceOK(h, s), NEW xs \in Seq(Items), NEW spare \in Nat,
           NEW r, r = Appended(h, s, xs, spare)
    PROVE  /\ r.heap \in Heaps /\ Len(r.heap) >= Len(h)
           /\ \A a \in 1..Len(h) : a # s.array => r.heap[a] = h[a]
           /\ SliceOK(r.heap, r.slice) /\ Elements(r.heap, r.slice) = Elements(h, s) \o xs
           /\ r.slice.array = s.array \/ r.slice.array > Len(h)
  <1>1. Elements(h, s) \in Seq(Items) /\ Len(Elements(h, s)) = s.len
    BY ElementsOfSlice
  <1>2. Len(h) \in Nat /\ s.array \in Nat /\ s.len \in Nat /\ Len(xs) \in Nat
    BY DEF Heaps, SliceOK, Slices
  <1>3. CASE xs = <<>>
    BY <1>1, <1>2, <1>3 DEF Appended
  <1>4. CASE xs # <<>>
    <2>1. PICK n \in Nat : n = s.len + Len(xs)
      BY <1>2
    <2>2. PICK old : old = IF s.array = 0 THEN <<>> ELSE h[s.array]
      OBVIOUS
    <2>3. old \in Seq(Cells) /\ Len(old) \in Nat /\ s.len <= Len(old)
      <3>1. CASE s.array = 0
        BY <2>2, <3>1 DEF SliceOK
      <3>2. CASE s.array # 0
        <4>1. h[s.array] \in Seq(Cells)
          BY <3>2, ElementOfSeq DEF Heaps, SliceOK
        <4> QED BY <2>2, <3>2, <4>1 DEF SliceOK
      <3> QED BY <3>1, <3>2
    <2>4. \A i \in 1..s.len : s.array # 0 /\ old[i] = h[s.array][i] /\ \E x \in Items : old[i] = <<x>>
      BY <1>2, <2>2 DEF SliceOK
    <2>5. PICK filled : filled = [i \in 1..n |-> IF i <= s.len THEN old[i] ELSE <<xs[i - s.len]>>]
      OBVIOUS
    <2>6. ASSUME NEW i \in 1..n PROVE \E x \in Items : filled[i] = <<x>>
      <3>1. CASE i <= s.len
        BY <1>2, <2>4, <2>5, <3>1
      <3>2. CASE i > s.len
        <4>1. i - s.len \in 1..Len(xs)
          BY <1>2, <2>1, <3>2
        <4>2. xs[i - s.len] \in Items
          BY <4>1
        <4> QED BY <1>2, <2>5, <3>2, <4>2
      <3> QED BY <1>2, <3>1, <3>2
    <2>7. filled \in Seq(Cells) /\ Len(filled) = n
      <3>1. \A i \in 1..n : filled[i] \in Cells
        BY <2>6 DEF Cells
      <3>2. filled \in [1..n -> Cells]
        BY <2>5, <3>1
      <3> QED BY <3>2
    <2>8. PICK all : all = Elements(h, s) \o xs
      OBVIOUS
    <2>9. /\ all \in Seq(Items) /\ Len(all) = n
          /\ \A i \in 1..n : all[i] = IF i <= s.len THEN Elements(h, s)[i] ELSE xs[i - s.len]
      BY <1>1, <2>1, <2>8, ConcatProperties
    <2>10. ASSUME NEW i \in 1..n PROVE filled[i][1] = all[i]
      <3>1. CASE i <= s.len
        <4>1. i \in 1..s.len
          BY <1>2, <3>1
        <4>2. all[i] = h[s.array][i][1]
          BY <2>9, <3>1, <4>1 DEF Elements
        <4> QED BY <2>4, <2>5, <3>1, <4>1, <4>2
      <3>2. CASE i > s.len
        BY <1>2, <2>5, <2>9, <3>2
      <3> QED BY <1>2, <3>1, <3>2
    <2>11. ASSUME NEW g \in Heaps, NEW t \in Slices, t.array \in 1..Len(g), t.len = n, n <= Len(g[t.array]),
                  \A i \in 1..n : g[t.array][i] = filled[i]
           PROVE  SliceOK(g, t) /\ Elements(g, t) = all
      <3>1. SliceOK(g, t)
        <4>1. t.array # 0 /\ t.len <= Len(g[t.array])
          BY <2>11
        <4>2. \A i \in 1..t.len : \E x \in Items : g[t.array][i] = <<x>>
          BY <2>6, <2>11
        <4> QED BY <2>11, <4>1, <4>2 DEF SliceOK
      <3>2. Elements(g, t) \in Seq(Items) /\ Len(Elements(g, t)) = n
        BY <2>11, <3>1, ElementsOfSlice
      <3>3. \A i \in 1..n : Elements(g, t)[i] = all[i]
        BY <2>10, <2>11 DEF Elements
      <3> QED BY <2>9, <3>1, <3>2, <3>3, SeqEqual
    <2>12. CASE n <= Len(old)
      <3>1. s.array # 0 /\ s.array \in 1..Len(h)
        BY <1>2, <1>4, <2>1, <2>2, <2>12 DEF SliceOK
      <3>2. PICK rest : rest = SubSeq(old, n + 1, Len(old))
        OBVIOUS
      <3>3. rest \in Seq(Cells)
        BY <2>1, <2>3, <3>2, SubSeqProperties
      <3>4. PICK new : new = filled \o rest
        OBVIOUS
      <3>5. new \in Seq(Cells) /\ Len(new) >= n /\ \A i \in 1..n : new[i] = filled[i]
        BY <2>1, <2>7, <3>3, <3>4, ConcatProperties
      <3>6. r.heap = [h EXCEPT ![s.array] = new] /\ r.slice = [s EXCEPT !.len = n]
        BY <1>4, <2>1, <2>2, <2>5, <2>12, <3>2, <3>4 DEF Appended
      <3>7. r.slice.array = s.array /\ r.slice.len = n /\ r.slice \in Slices
        BY <2>1, <3>6 DEF SliceOK, Slices
      <3>8. r.heap \in Heaps /\ Len(r.heap) = Len(h) /\ r.heap[s.array] = new
            /\ \A a \in 1..Len(h) : a # s.array => r.heap[a] = h[a]
        BY <3>1, <3>5, <3>6, ExceptSeq DEF Heaps
      <3>9. SliceOK(r.heap, r.slice) /\ Elements(r.heap, r.slice) = all
        BY <2>11, <3>1, <3>5, <3>7, <3>8
      <3> QED BY <1>2, <2>8, <3>7, <3>8, <3>9
    <2>13. CASE ~(n <= Len(old))
      <3>1. PICK rest : rest = [i \in 1..spare |-> <<>>]
        OBVIOUS
      <3>2. rest \in Seq(Cells)
        BY <3>1 DEF Cells
      <3>3. PICK new : new = filled \o rest
        OBVIOUS
      <3>4. new \in Seq(Cells) /\ Len(new) >= n /\ \A i \in 1..n : new[i] = filled[i]
        BY <2>1, <2>7, <3>2, <3>3, ConcatProperties
      <3>5. r.heap = Append(h, new) /\ r.slice = [array |-> Len(h) + 1, len |-> n]
        BY <1>4, <2>1, <2>2, <2>5, <2>13, <3>1, <3>3 DEF Appended
      <3>6. r.heap \in Heaps /\ Len(r.heap) = Len(h) + 1 /\ r.heap[Len(h) + 1] = new
            /\ \A a \in 1..Len(h) : r.heap[a] = h[a]
        BY <3>4, <3>5, AppendProperties DEF Heaps
      <3>7. r.slice.array = Len(h) + 1 /\ r.slice.len = n /\ r.slice \in Slices
        BY <1>2, <2>1, <3>5 DEF Slices
      <3>8. SliceOK(r.heap, r.slice) /\ Elements(r.heap, r.slice) = all
        <4>1. Len(h) + 1 \in 1..Len(r.heap)
          BY <1>2, <3>6
        <4>2. n <= Len(r.heap[r.slice.array]) /\ \A i \in 1..n : r.heap[r.slice.array][i] = filled[i]
          BY <3>4, <3>6, <3>7
        <4> QED BY <2>11, <3>6, <3>7, <4>1, <4>2
      <3> QED BY <1>2, <2>8, <3>6, <3>7, <3>8
    <2> QED BY <2>12, <2>13
  <1> QED BY <1>3, <1>4

\* A copy has the elements in an array of its own.
LEMMA CopiedEffect ==
    ASSUME NEW h \in Heaps, NEW s, SliceOK(h, s), NEW spare \in Nat,
           NEW r, r = Copied(h, s, spare)
    PROVE  /\ r.heap \in Heaps /\ Len(r.heap) >= Len(h)
           /\ \A a \in 1..Len(h) : r.heap[a] = h[a]
           /\ SliceOK(r.heap, r.slice) /\ Elements(r.heap, r.slice) = Elements(h, s)
           /\ r.slice.array = 0 \/ r.slice.array > Len(h)
  <1>1. SliceOK(h, NilSlice) /\ NilSlice.array = 0
    BY DEF SliceOK, NilSlice, Slices
  <1>2. Elements(h, s) \in Seq(Items) /\ Len(h) \in Nat
    BY ElementsOfSlice DEF Heaps
  <1>3. Elements(h, NilSlice) = <<>>
    BY DEF Elements, NilSlice
  <1>4. <<>> \o Elements(h, s) = Elements(h, s)
    BY <1>2
  <1>5. PICK xs \in Seq(Items) : xs = Elements(h, s)
    BY <1>2
  <1>6. r = Appended(h, NilSlice, xs, spare)
    BY <1>5 DEF Copied
  <1>7. /\ r.heap \in Heaps /\ Len(r.heap) >= Len(h)
        /\ \A a \in 1..Len(h) : a # NilSlice.array => r.heap[a] = h[a]
        /\ SliceOK(r.heap, r.slice) /\ Elements(r.heap, r.slice) = Elements(h, NilSlice) \o xs
        /\ r.slice.array = NilSlice.array \/ r.slice.array > Len(h)
    BY <1>1, <1>6, AppendedEffect
  <1> QED BY <1>1, <1>2, <1>3, <1>4, <1>5, <1>7

-----------------------------------------------------------------------------
(* Plans.                                                                  *)

\* A derived plan: its slices are fresh, and nothing else has changed.
Fresher(h, s) == s.array = 0 \/ s.array > Len(h)
Grown(h, g) == g \in Heaps /\ Len(g) >= Len(h) /\ \A a \in 1..Len(h) : g[a] = h[a]

LEMMA GrownSlice ==
    ASSUME NEW h \in Heaps, NEW g, Grown(h, g), NEW s, SliceOK(h, s)
    PROVE  SliceOK(g, s) /\ Elements(g, s) = Elements(h, s)
  <1>1. s.array # 0 => g[s.array] = h[s.array]
    BY DEF SliceOK, Grown
  <1> QED BY <1>1, SliceStays DEF Grown

LEMMA CloneEffect ==
    ASSUME NEW h \in Heaps, NEW p \in Plans, SliceOK(h, p.conditions), SliceOK(h, p.orderings),
           NEW spare \in Nat, NEW r, r = Clone(h, p, spare)
    PROVE  /\ Grown(h, r.heap) /\ r.plan \in Plans /\ r.plan.limit = p.limit
           /\ SliceOK(r.heap, r.plan.conditions) /\ Elements(r.heap, r.plan.conditions) = Elements(h, p.conditions)
           /\ SliceOK(r.heap, r.plan.orderings) /\ Elements(r.heap, r.plan.orderings) = Elements(h, p.orderings)
           /\ Fresher(h, r.plan.conditions) /\ Fresher(h, r.plan.orderings)
           /\ r.plan.conditions.array # 0 => r.plan.conditions.array # r.plan.orderings.array
  <1>1. PICK c : c = Copied(h, p.conditions, spare)
    OBVIOUS
  <1>2. /\ c.heap \in Heaps /\ Len(c.heap) >= Len(h)
        /\ \A a \in 1..Len(h) : c.heap[a] = h[a]
        /\ SliceOK(c.heap, c.slice) /\ Elements(c.heap, c.slice) = Elements(h, p.conditions)
        /\ c.slice.array = 0 \/ c.slice.array > Len(h)
    BY <1>1, CopiedEffect
  <1>3. Grown(h, c.heap) /\ SliceOK(c.heap, p.orderings) /\ Elements(c.heap, p.orderings) = Elements(h, p.orderings)
    BY <1>2, GrownSlice DEF Grown
  <1>4. PICK o : o = Copied(c.heap, p.orderings, spare)
    OBVIOUS
  <1>5. /\ o.heap \in Heaps /\ Len(o.heap) >= Len(c.heap)
        /\ \A a \in 1..Len(c.heap) : o.heap[a] = c.heap[a]
        /\ SliceOK(o.heap, o.slice) /\ Elements(o.heap, o.slice) = Elements(c.heap, p.orderings)
        /\ o.slice.array = 0 \/ o.slice.array > Len(c.heap)
    BY <1>2, <1>3, <1>4, CopiedEffect
  <1>6. Len(h) \in Nat /\ Len(c.heap) \in Nat /\ Len(o.heap) \in Nat
    BY <1>2, <1>5 DEF Heaps
  <1>7. Grown(c.heap, o.heap) /\ Grown(h, o.heap)
    BY <1>2, <1>5, <1>6 DEF Grown
  <1>8. SliceOK(o.heap, c.slice) /\ Elements(o.heap, c.slice) = Elements(h, p.conditions)
    BY <1>2, <1>7, GrownSlice
  <1>9. r.heap = o.heap /\ r.plan = [p EXCEPT !.conditions = c.slice, !.orderings = o.slice]
    BY <1>1, <1>4 DEF Clone
  <1>10. c.slice \in Slices /\ o.slice \in Slices
    BY <1>2, <1>5 DEF SliceOK
  <1>11. /\ r.plan \in Plans /\ r.plan.limit = p.limit
         /\ r.plan.conditions = c.slice /\ r.plan.orderings = o.slice
    BY <1>9, <1>10 DEF Plans
  <1>12. c.slice.array # 0 => c.slice.array \in 1..Len(c.heap)
    BY <1>2 DEF SliceOK
  <1>13. Fresher(h, c.slice) /\ Fresher(h, o.slice)
    BY <1>2, <1>5, <1>6, <1>10 DEF Fresher, Slices
  <1>14. c.slice.array # 0 => c.slice.array # o.slice.array
    BY <1>5, <1>6, <1>12
  <1> QED BY <1>3, <1>5, <1>7, <1>8, <1>9, <1>11, <1>13, <1>14

\* withConditions appends to the clone's own conditions, perhaps in place.
LEMMA WithConditionsEffect ==
    ASSUME NEW h \in Heaps, NEW p \in Plans, SliceOK(h, p.conditions), SliceOK(h, p.orderings),
           NEW cs \in Seq(Items), NEW spare \in Nat, NEW r, r = WithConditions(h, p, cs, spare)
    PROVE  /\ Grown(h, r.heap) /\ r.plan \in Plans /\ r.plan.limit = p.limit
           /\ SliceOK(r.heap, r.plan.conditions)
           /\ Elements(r.heap, r.plan.conditions) = Elements(h, p.conditions) \o cs
           /\ SliceOK(r.heap, r.plan.orderings) /\ Elements(r.heap, r.plan.orderings) = Elements(h, p.orderings)
           /\ Fresher(h, r.plan.conditions) /\ Fresher(h, r.plan.orderings)
  <1>1. PICK c : c = Clone(h, p, spare)
    OBVIOUS
  <1>2. /\ Grown(h, c.heap) /\ c.plan \in Plans /\ c.plan.limit = p.limit
        /\ SliceOK(c.heap, c.plan.conditions) /\ Elements(c.heap, c.plan.conditions) = Elements(h, p.conditions)
        /\ SliceOK(c.heap, c.plan.orderings) /\ Elements(c.heap, c.plan.orderings) = Elements(h, p.orderings)
        /\ Fresher(h, c.plan.conditions) /\ Fresher(h, c.plan.orderings)
        /\ c.plan.conditions.array # 0 => c.plan.conditions.array # c.plan.orderings.array
    BY <1>1, CloneEffect
  <1>3. PICK n : n = Appended(c.heap, c.plan.conditions, cs, spare)
    OBVIOUS
  <1>4. /\ n.heap \in Heaps /\ Len(n.heap) >= Len(c.heap)
        /\ \A a \in 1..Len(c.heap) : a # c.plan.conditions.array => n.heap[a] = c.heap[a]
        /\ SliceOK(n.heap, n.slice) /\ Elements(n.heap, n.slice) = Elements(h, p.conditions) \o cs
        /\ n.slice.array = c.plan.conditions.array \/ n.slice.array > Len(c.heap)
    <2>1. c.heap \in Heaps
      BY <1>2 DEF Grown
    <2>2. /\ n.heap \in Heaps /\ Len(n.heap) >= Len(c.heap)
          /\ \A a \in 1..Len(c.heap) : a # c.plan.conditions.array => n.heap[a] = c.heap[a]
          /\ SliceOK(n.heap, n.slice)
          /\ Elements(n.heap, n.slice) = Elements(c.heap, c.plan.conditions) \o cs
          /\ n.slice.array = c.plan.conditions.array \/ n.slice.array > Len(c.heap)
      <3>1. PICK s : s = c.plan.conditions
        OBVIOUS
      <3>2. PICK g \in Heaps : g = c.heap
        BY <2>1
      <3>3. SliceOK(g, s) /\ n = Appended(g, s, cs, spare)
        BY <1>2, <1>3, <3>1, <3>2
      <3>4. /\ n.heap \in Heaps /\ Len(n.heap) >= Len(g)
            /\ \A a \in 1..Len(g) : a # s.array => n.heap[a] = g[a]
            /\ SliceOK(n.heap, n.slice) /\ Elements(n.heap, n.slice) = Elements(g, s) \o cs
            /\ n.slice.array = s.array \/ n.slice.array > Len(g)
        BY <3>3, AppendedEffect
      <3> QED BY <3>1, <3>2, <3>4
    <2> QED BY <1>2, <2>2
  <1>5. Len(h) \in Nat /\ Len(c.heap) \in Nat /\ Len(n.heap) \in Nat /\ c.heap \in Heaps /\ Len(c.heap) >= Len(h)
    BY <1>2, <1>4 DEF Grown, Heaps
  <1>6. Grown(h, n.heap)
    BY <1>2, <1>4, <1>5 DEF Grown, Fresher
  <1>7. SliceOK(n.heap, c.plan.orderings) /\ Elements(n.heap, c.plan.orderings) = Elements(h, p.orderings)
    <2>1. c.plan.orderings.array # 0 => c.plan.orderings.array \in 1..Len(c.heap)
      BY <1>2 DEF SliceOK
    <2>2. c.plan.orderings.array # 0 => n.heap[c.plan.orderings.array] = c.heap[c.plan.orderings.array]
      BY <1>2, <1>4, <2>1
    <2> QED BY <1>2, <1>4, <1>5, <2>2, SliceStays
  <1>8. r.heap = n.heap /\ r.plan = [c.plan EXCEPT !.conditions = n.slice]
    BY <1>1, <1>3 DEF WithConditions
  <1>9. /\ r.plan \in Plans /\ r.plan.limit = p.limit
        /\ r.plan.conditions = n.slice /\ r.plan.orderings = c.plan.orderings
    BY <1>2, <1>4, <1>8 DEF Plans, SliceOK
  <1>10. Fresher(h, n.slice)
    BY <1>2, <1>4, <1>5 DEF Fresher, SliceOK, Slices
  <1> QED BY <1>2, <1>4, <1>6, <1>7, <1>8, <1>9, <1>10

LEMMA WithOrderingsEffect ==
    ASSUME NEW h \in Heaps, NEW p \in Plans, SliceOK(h, p.conditions), SliceOK(h, p.orderings),
           NEW os \in Seq(Items), NEW spare \in Nat, NEW r, r = WithOrderings(h, p, os, spare)
    PROVE  /\ Grown(h, r.heap) /\ r.plan \in Plans /\ r.plan.limit = p.limit
           /\ SliceOK(r.heap, r.plan.conditions) /\ Elements(r.heap, r.plan.conditions) = Elements(h, p.conditions)
           /\ SliceOK(r.heap, r.plan.orderings) /\ Elements(r.heap, r.plan.orderings) = os
           /\ Fresher(h, r.plan.conditions) /\ Fresher(h, r.plan.orderings)
  <1>1. PICK c : c = Clone(h, p, spare)
    OBVIOUS
  <1>2. /\ Grown(h, c.heap) /\ c.plan \in Plans /\ c.plan.limit = p.limit
        /\ SliceOK(c.heap, c.plan.conditions) /\ Elements(c.heap, c.plan.conditions) = Elements(h, p.conditions)
        /\ Fresher(h, c.plan.conditions)
    BY <1>1, CloneEffect
  <1>3. PICK n : n = Appended(c.heap, NilSlice, os, spare)
    OBVIOUS
  <1>4. SliceOK(c.heap, NilSlice) /\ NilSlice.array = 0 /\ Elements(c.heap, NilSlice) = <<>> /\ <<>> \o os = os
    BY DEF SliceOK, NilSlice, Slices, Elements
  <1>5. /\ n.heap \in Heaps /\ Len(n.heap) >= Len(c.heap)
        /\ \A a \in 1..Len(c.heap) : a # NilSlice.array => n.heap[a] = c.heap[a]
        /\ SliceOK(n.heap, n.slice) /\ Elements(n.heap, n.slice) = Elements(c.heap, NilSlice) \o os
        /\ n.slice.array = NilSlice.array \/ n.slice.array > Len(c.heap)
    <2>1. c.heap \in Heaps
      BY <1>2 DEF Grown
    <2>2. PICK s : s = NilSlice
      OBVIOUS
    <2>3. PICK g \in Heaps : g = c.heap
      BY <2>1
    <2>4. SliceOK(g, s) /\ n = Appended(g, s, os, spare)
      BY <1>3, <1>4, <2>2, <2>3
    <2>5. /\ n.heap \in Heaps /\ Len(n.heap) >= Len(g)
          /\ \A a \in 1..Len(g) : a # s.array => n.heap[a] = g[a]
          /\ SliceOK(n.heap, n.slice) /\ Elements(n.heap, n.slice) = Elements(g, s) \o os
          /\ n.slice.array = s.array \/ n.slice.array > Len(g)
      BY <2>4, AppendedEffect
    <2> QED BY <2>2, <2>3, <2>5
  <1>6. Len(h) \in Nat /\ Len(c.heap) \in Nat /\ Len(n.heap) \in Nat /\ c.heap \in Heaps /\ Len(c.heap) >= Len(h)
    BY <1>2, <1>5 DEF Grown, Heaps
  <1>7. Grown(c.heap, n.heap) /\ Grown(h, n.heap)
    BY <1>2, <1>4, <1>5, <1>6 DEF Grown
  <1>8. SliceOK(n.heap, c.plan.conditions) /\ Elements(n.heap, c.plan.conditions) = Elements(h, p.conditions)
    BY <1>2, <1>6, <1>7, GrownSlice
  <1>9. r.heap = n.heap /\ r.plan = [c.plan EXCEPT !.orderings = n.slice]
    BY <1>1, <1>3 DEF WithOrderings
  <1>10. /\ r.plan \in Plans /\ r.plan.limit = p.limit
         /\ r.plan.orderings = n.slice /\ r.plan.conditions = c.plan.conditions
    BY <1>2, <1>5, <1>9 DEF Plans, SliceOK
  <1>11. Fresher(h, n.slice)
    BY <1>4, <1>5, <1>6 DEF Fresher, SliceOK, Slices
  <1> QED BY <1>2, <1>4, <1>5, <1>7, <1>8, <1>9, <1>10, <1>11

-----------------------------------------------------------------------------
(* The steps.                                                              *)

\* What a QuerySet means survives whatever leaves the arrays that no caller
\* holds alone.
LEMMA MeansStays ==
    ASSUME NEW h \in Heaps, NEW g \in Heaps, NEW qs, NEW others, NEW more, Means(h, qs, others),
           Len(g) >= Len(h), \A a \in 1..Len(h) : a \notin others => g[a] = h[a],
           \A a \in more : a \in others \/ a > Len(h)
    PROVE  Means(g, qs, more)
  <1>1. ASSUME NEW s, SliceOK(h, s), s.array \notin others
        PROVE  SliceOK(g, s) /\ Elements(g, s) = Elements(h, s) /\ s.array \notin more
    <2>1. s.array # 0 => g[s.array] = h[s.array]
      BY <1>1 DEF SliceOK
    <2>2. ~(s.array > Len(h))
      BY <1>1 DEF SliceOK, Heaps, Slices
    <2> QED BY <1>1, <2>1, <2>2, SliceStays
  <1> QED BY <1>1 DEF Means

\* A new QuerySet, and nothing written that another one could see.
LEMMA DeriveKeeps ==
    ASSUME Independent, NEW new, NEW qs, Derive(new, qs), Grown(heap, new.heap),
           [qs EXCEPT !.plan = new.plan] \in QuerySets,
           Means(new.heap, [qs EXCEPT !.plan = new.plan], held)
    PROVE  Independent'
  <1>1. PICK q : q = [qs EXCEPT !.plan = new.plan]
    OBVIOUS
  <1>2. heap' = new.heap /\ querysets' = Append(querysets, q) /\ UNCHANGED <<vocabulary, held>>
    BY <1>1 DEF Derive
  <1>3. /\ querysets' \in Seq(QuerySets) /\ Len(querysets') = Len(querysets) + 1
        /\ querysets'[Len(querysets) + 1] = q
        /\ \A i \in 1..Len(querysets) : querysets'[i] = querysets[i]
    BY <1>1, <1>2, AppendProperties DEF Independent
  <1>4. heap' \in Heaps /\ Len(heap') >= Len(heap) /\ \A a \in 1..Len(heap) : heap'[a] = heap[a]
    BY <1>2 DEF Grown
  <1>5. ASSUME NEW i \in 1..Len(querysets') PROVE Means(heap', querysets'[i], held)
    <2>1. CASE i \in 1..Len(querysets)
      <3>1. Means(heap, querysets[i], held)
        BY <2>1 DEF Independent
      <3> QED BY <1>3, <1>4, <2>1, <3>1, MeansStays DEF Independent
    <2>2. CASE i = Len(querysets) + 1
      BY <1>1, <1>2, <1>3, <2>2
    <2> QED BY <1>3, <2>1, <2>2 DEF Independent
  <1>6. held \subseteq 1..Len(heap')
    BY <1>4 DEF Independent, Heaps
  <1> QED BY <1>2, <1>3, <1>4, <1>5, <1>6 DEF Independent

LEMMA HeldOld ==
    ASSUME Independent, NEW s, Fresher(heap, s)
    PROVE  s.array \notin held
  <1>1. Len(heap) \in Nat /\ held \subseteq 1..Len(heap)
    BY DEF Independent, Heaps
  <1>2. \A a \in held : a # 0 /\ ~(a > Len(heap))
    BY <1>1
  <1> QED BY <1>2 DEF Fresher

\* Arguments that are all right are items.
LEMMA ValuesOfArguments ==
    ASSUME vocabulary \in Vocabularies,
           NEW xs \in vocabulary.filters \union vocabulary.orders
    PROVE  Values(xs) \in Seq(Items)
  <1>1. xs \in Seq(ToSet(xs)) /\ xs \in Arguments
    BY QueryPlanAssumption DEF Arguments
  <1>2. DOMAIN xs = 1..Len(xs) /\ Len(xs) \in Nat
    BY <1>1
  <1>3. \A i \in DOMAIN xs : The(xs[i]) \in Items
    BY <1>1 DEF Items
  <1> QED BY <1>2, <1>3 DEF Values

\* Fresh, and Filter and OrderBy of a failed QuerySet, share its plan.
LEMMA SharedPlanKeeps ==
    ASSUME Independent, NEW q \in 1..Len(querysets), NEW qs \in QuerySets, Derive(Unchanged(querysets[q]), qs),
           qs.failed = qs.meant.failed, qs.failed \/ qs = querysets[q]
    PROVE  Independent'
  <1>1. querysets[q] \in QuerySets /\ Means(heap, querysets[q], held)
    BY DEF Independent
  <1>2. PICK new : new = Unchanged(querysets[q])
    OBVIOUS
  <1>3. new.heap = heap /\ new.plan = querysets[q].plan /\ new.plan \in Plans
    BY <1>1, <1>2 DEF Unchanged, QuerySets
  <1>4. Grown(heap, new.heap)
    BY <1>3 DEF Grown, Independent, Heaps
  <1>5. PICK derived : derived = [qs EXCEPT !.plan = new.plan]
    OBVIOUS
  <1>6. /\ derived \in QuerySets /\ derived.plan = querysets[q].plan
        /\ derived.failed = qs.failed /\ derived.meant = qs.meant
    BY <1>3, <1>5 DEF QuerySets
  <1>7. Means(heap, derived, held)
    BY <1>1, <1>6 DEF Means
  <1> QED BY <1>2, <1>3, <1>4, <1>5, <1>6, <1>7, DeriveKeeps

\* The QuerySet of a call, in an independent state.
LEMMA AtIndependent ==
    ASSUME Independent, NEW q \in DOMAIN querysets, NEW qs, qs = querysets[q]
    PROVE  /\ q \in 1..Len(querysets) /\ qs \in QuerySets /\ Means(heap, qs, held)
           /\ qs.plan \in Plans /\ qs.meant \in Meanings /\ qs.failed \in BOOLEAN
           /\ heap \in Heaps /\ vocabulary \in Vocabularies
  <1>1. q \in 1..Len(querysets) /\ querysets[q] \in QuerySets
    BY DEF Independent
  <1> QED BY <1>1 DEF Independent, QuerySets

LEMMA FilterKeeps ==
    ASSUME Independent, Filter
    PROVE  Independent'
  <1>0. PICK q \in DOMAIN querysets, predicates \in vocabulary.filters, spare \in 0..MaxSpare :
            \E qs, meant :
              /\ qs = querysets[q]
              /\ meant = IF Failing(predicates) THEN [qs.meant EXCEPT !.failed = TRUE]
                         ELSE [qs.meant EXCEPT !.conditions = @ \o Values(predicates)]
              /\ IF qs.failed THEN Derive(Unchanged(qs), [qs EXCEPT !.meant = meant])
                 ELSE IF Failing(predicates) THEN Derive(Unchanged(qs), [qs EXCEPT !.failed = TRUE, !.meant = meant])
                 ELSE Derive(WithConditions(heap, qs.plan, Values(predicates), spare), [qs EXCEPT !.meant = meant])
    BY DEF Filter
  <1>1. PICK qs, meant :
            /\ qs = querysets[q]
            /\ meant = IF Failing(predicates) THEN [qs.meant EXCEPT !.failed = TRUE]
                       ELSE [qs.meant EXCEPT !.conditions = @ \o Values(predicates)]
            /\ IF qs.failed THEN Derive(Unchanged(qs), [qs EXCEPT !.meant = meant])
               ELSE IF Failing(predicates) THEN Derive(Unchanged(qs), [qs EXCEPT !.failed = TRUE, !.meant = meant])
               ELSE Derive(WithConditions(heap, qs.plan, Values(predicates), spare), [qs EXCEPT !.meant = meant])
    BY <1>0
  <1>2. /\ q \in 1..Len(querysets) /\ qs \in QuerySets /\ Means(heap, qs, held)
        /\ qs.plan \in Plans /\ qs.meant \in Meanings /\ qs.failed \in BOOLEAN
        /\ heap \in Heaps /\ vocabulary \in Vocabularies
    BY <1>1, AtIndependent
  <1>3. PICK cs \in Seq(Items) : cs = Values(predicates)
    BY <1>2, ValuesOfArguments
  <1>4. meant \in Meanings /\ meant.orderings = qs.meant.orderings /\ meant.limit = qs.meant.limit
    <2>1. qs.meant.conditions \in Seq(Items) /\ qs.meant.conditions \o cs \in Seq(Items)
      BY <1>2 DEF Meanings
    <2>2. CASE Failing(predicates)
      BY <1>1, <1>2, <2>2 DEF Meanings
    <2>3. CASE ~Failing(predicates)
      <3>1. meant = [qs.meant EXCEPT !.conditions = qs.meant.conditions \o cs]
        BY <1>1, <1>3, <2>3
      <3> QED BY <1>2, <2>1, <3>1 DEF Meanings
    <2> QED BY <2>2, <2>3
  <1>5. spare \in Nat
    BY QueryPlanAssumption
  <1>6. CASE qs.failed
    <2>1. PICK new : new = [qs EXCEPT !.meant = meant]
      OBVIOUS
    <2>2. new \in QuerySets /\ new.failed = qs.failed /\ new.meant = meant
      BY <1>2, <1>4, <2>1 DEF QuerySets
    <2>3. meant.failed
      BY <1>1, <1>2, <1>6 DEF Means, Meanings
    <2>4. new.failed = new.meant.failed
      BY <1>4, <1>6, <2>2, <2>3, <1>2 DEF Meanings
    <2> QED BY <1>1, <1>2, <1>6, <2>1, <2>2, <2>4, SharedPlanKeeps
  <1>7. CASE ~qs.failed /\ Failing(predicates)
    <2>1. PICK new : new = [qs EXCEPT !.failed = TRUE, !.meant = meant]
      OBVIOUS
    <2>2. new \in QuerySets /\ new.failed /\ new.failed = TRUE /\ new.meant = meant
      BY <1>2, <1>4, <2>1 DEF QuerySets
    <2>3. meant.failed = TRUE
      BY <1>1, <1>2, <1>7 DEF Meanings
    <2>4. new.failed = new.meant.failed
      BY <2>2, <2>3
    <2> QED BY <1>1, <1>2, <1>7, <2>1, <2>2, <2>4, SharedPlanKeeps
  <1>8. CASE ~qs.failed /\ ~Failing(predicates)
    <2>1. PICK new : new = WithConditions(heap, qs.plan, cs, spare)
      OBVIOUS
    <2>2. PICK base : base = [qs EXCEPT !.meant = meant]
      OBVIOUS
    <2>3. Derive(new, base)
      BY <1>1, <1>3, <1>8, <2>1, <2>2
    <2>4. PICK p \in Plans : p = qs.plan
      BY <1>2
    <2>5. SliceOK(heap, p.conditions) /\ SliceOK(heap, p.orderings)
      BY <1>2, <2>4 DEF Means
    <2>6. /\ Grown(heap, new.heap) /\ new.plan \in Plans /\ new.plan.limit = p.limit
          /\ SliceOK(new.heap, new.plan.conditions)
          /\ Elements(new.heap, new.plan.conditions) = Elements(heap, p.conditions) \o cs
          /\ SliceOK(new.heap, new.plan.orderings) /\ Elements(new.heap, new.plan.orderings) = Elements(heap, p.orderings)
          /\ Fresher(heap, new.plan.conditions) /\ Fresher(heap, new.plan.orderings)
      <3>1. PICK h \in Heaps : h = heap
        BY <1>2
      <3>2. new = WithConditions(h, p, cs, spare) /\ SliceOK(h, p.conditions) /\ SliceOK(h, p.orderings)
        BY <2>1, <2>4, <2>5, <3>1
      <3>3. /\ Grown(h, new.heap) /\ new.plan \in Plans /\ new.plan.limit = p.limit
            /\ SliceOK(new.heap, new.plan.conditions)
            /\ Elements(new.heap, new.plan.conditions) = Elements(h, p.conditions) \o cs
            /\ SliceOK(new.heap, new.plan.orderings) /\ Elements(new.heap, new.plan.orderings) = Elements(h, p.orderings)
            /\ Fresher(h, new.plan.conditions) /\ Fresher(h, new.plan.orderings)
        BY <1>5, <3>2, WithConditionsEffect
      <3> QED BY <3>1, <3>3
    <2>7. PICK derived : derived = [base EXCEPT !.plan = new.plan]
      OBVIOUS
    <2>8. /\ derived \in QuerySets /\ derived.plan = new.plan
          /\ derived.failed = qs.failed /\ derived.meant = meant
      BY <1>2, <1>4, <2>2, <2>6, <2>7 DEF QuerySets
    <2>9. new.plan.conditions.array \notin held /\ new.plan.orderings.array \notin held
      BY <2>6, HeldOld
    <2>10. meant.conditions = qs.meant.conditions \o cs /\ meant.failed = qs.meant.failed
      BY <1>1, <1>2, <1>3, <1>8 DEF Meanings
    <2>11. Means(new.heap, derived, held)
      BY <1>2, <1>4, <2>4, <2>6, <2>8, <2>9, <2>10, <1>8 DEF Means
    <2> QED BY <2>3, <2>6, <2>7, <2>8, <2>11, DeriveKeeps
  <1> QED BY <1>6, <1>7, <1>8

LEMMA OrderByKeeps ==
    ASSUME Independent, OrderBy
    PROVE  Independent'
  <1>0. PICK q \in DOMAIN querysets, orderings \in vocabulary.orders, spare \in 0..MaxSpare :
            \E qs, meant :
              /\ qs = querysets[q]
              /\ meant = IF Failing(orderings) THEN [qs.meant EXCEPT !.failed = TRUE]
                         ELSE [qs.meant EXCEPT !.orderings = Values(orderings)]
              /\ IF qs.failed THEN Derive(Unchanged(qs), [qs EXCEPT !.meant = meant])
                 ELSE IF Failing(orderings) THEN Derive(Unchanged(qs), [qs EXCEPT !.failed = TRUE, !.meant = meant])
                 ELSE Derive(WithOrderings(heap, qs.plan, Values(orderings), spare), [qs EXCEPT !.meant = meant])
    BY DEF OrderBy
  <1>1. PICK qs, meant :
            /\ qs = querysets[q]
            /\ meant = IF Failing(orderings) THEN [qs.meant EXCEPT !.failed = TRUE]
                       ELSE [qs.meant EXCEPT !.orderings = Values(orderings)]
            /\ IF qs.failed THEN Derive(Unchanged(qs), [qs EXCEPT !.meant = meant])
               ELSE IF Failing(orderings) THEN Derive(Unchanged(qs), [qs EXCEPT !.failed = TRUE, !.meant = meant])
               ELSE Derive(WithOrderings(heap, qs.plan, Values(orderings), spare), [qs EXCEPT !.meant = meant])
    BY <1>0
  <1>2. /\ q \in 1..Len(querysets) /\ qs \in QuerySets /\ Means(heap, qs, held)
        /\ qs.plan \in Plans /\ qs.meant \in Meanings /\ qs.failed \in BOOLEAN
        /\ heap \in Heaps /\ vocabulary \in Vocabularies
    BY <1>1, AtIndependent
  <1>3. PICK cs \in Seq(Items) : cs = Values(orderings)
    BY <1>2, ValuesOfArguments
  <1>4. meant \in Meanings /\ meant.conditions = qs.meant.conditions /\ meant.limit = qs.meant.limit
    <2>2. CASE Failing(orderings)
      BY <1>1, <1>2, <2>2 DEF Meanings
    <2>3. CASE ~Failing(orderings)
      <3>1. meant = [qs.meant EXCEPT !.orderings = cs]
        BY <1>1, <1>3, <2>3
      <3> QED BY <1>2, <3>1 DEF Meanings
    <2> QED BY <2>2, <2>3
  <1>5. spare \in Nat
    BY QueryPlanAssumption
  <1>6. CASE qs.failed
    <2>1. PICK new : new = [qs EXCEPT !.meant = meant]
      OBVIOUS
    <2>2. new \in QuerySets /\ new.failed = qs.failed /\ new.meant = meant
      BY <1>2, <1>4, <2>1 DEF QuerySets
    <2>3. meant.failed
      BY <1>1, <1>2, <1>6 DEF Means, Meanings
    <2>4. new.failed = new.meant.failed
      BY <1>4, <1>6, <2>2, <2>3, <1>2 DEF Meanings
    <2> QED BY <1>1, <1>2, <1>6, <2>1, <2>2, <2>4, SharedPlanKeeps
  <1>7. CASE ~qs.failed /\ Failing(orderings)
    <2>1. PICK new : new = [qs EXCEPT !.failed = TRUE, !.meant = meant]
      OBVIOUS
    <2>2. new \in QuerySets /\ new.failed /\ new.failed = TRUE /\ new.meant = meant
      BY <1>2, <1>4, <2>1 DEF QuerySets
    <2>3. meant.failed = TRUE
      BY <1>1, <1>2, <1>7 DEF Meanings
    <2>4. new.failed = new.meant.failed
      BY <2>2, <2>3
    <2> QED BY <1>1, <1>2, <1>7, <2>1, <2>2, <2>4, SharedPlanKeeps
  <1>8. CASE ~qs.failed /\ ~Failing(orderings)
    <2>1. PICK new : new = WithOrderings(heap, qs.plan, cs, spare)
      OBVIOUS
    <2>2. PICK base : base = [qs EXCEPT !.meant = meant]
      OBVIOUS
    <2>3. Derive(new, base)
      BY <1>1, <1>3, <1>8, <2>1, <2>2
    <2>4. PICK p \in Plans : p = qs.plan
      BY <1>2
    <2>5. SliceOK(heap, p.conditions) /\ SliceOK(heap, p.orderings)
      BY <1>2, <2>4 DEF Means
    <2>6. /\ Grown(heap, new.heap) /\ new.plan \in Plans /\ new.plan.limit = p.limit
          /\ SliceOK(new.heap, new.plan.conditions)
          /\ Elements(new.heap, new.plan.conditions) = Elements(heap, p.conditions)
          /\ SliceOK(new.heap, new.plan.orderings) /\ Elements(new.heap, new.plan.orderings) = cs
          /\ Fresher(heap, new.plan.conditions) /\ Fresher(heap, new.plan.orderings)
      <3>1. PICK h \in Heaps : h = heap
        BY <1>2
      <3>2. new = WithOrderings(h, p, cs, spare) /\ SliceOK(h, p.conditions) /\ SliceOK(h, p.orderings)
        BY <2>1, <2>4, <2>5, <3>1
      <3>3. /\ Grown(h, new.heap) /\ new.plan \in Plans /\ new.plan.limit = p.limit
            /\ SliceOK(new.heap, new.plan.conditions)
            /\ Elements(new.heap, new.plan.conditions) = Elements(h, p.conditions)
            /\ SliceOK(new.heap, new.plan.orderings) /\ Elements(new.heap, new.plan.orderings) = cs
            /\ Fresher(h, new.plan.conditions) /\ Fresher(h, new.plan.orderings)
        BY <1>5, <3>2, WithOrderingsEffect
      <3> QED BY <3>1, <3>3
    <2>7. PICK derived : derived = [base EXCEPT !.plan = new.plan]
      OBVIOUS
    <2>8. /\ derived \in QuerySets /\ derived.plan = new.plan
          /\ derived.failed = qs.failed /\ derived.meant = meant
      BY <1>2, <1>4, <2>2, <2>6, <2>7 DEF QuerySets
    <2>9. new.plan.conditions.array \notin held /\ new.plan.orderings.array \notin held
      BY <2>6, HeldOld
    <2>10. meant.orderings = cs /\ meant.failed = qs.meant.failed
      BY <1>1, <1>2, <1>3, <1>8 DEF Meanings
    <2>11. Means(new.heap, derived, held)
      BY <1>2, <1>4, <2>4, <2>6, <2>8, <2>9, <2>10, <1>8 DEF Means
    <2> QED BY <2>3, <2>6, <2>7, <2>8, <2>11, DeriveKeeps
  <1> QED BY <1>6, <1>7, <1>8

LEMMA LimitKeeps ==
    ASSUME Independent, Limit
    PROVE  Independent'
  <1>1. PICK q \in DOMAIN querysets, n \in Limits, spare \in 0..MaxSpare :
            /\ ~querysets[q].failed
            /\ Derive(WithLimit(heap, querysets[q].plan, n, spare), [querysets[q] EXCEPT !.meant.limit = {n}])
    BY DEF Limit
  <1>2. PICK qs : qs = querysets[q]
    OBVIOUS
  <1>3. /\ q \in 1..Len(querysets) /\ qs \in QuerySets /\ Means(heap, qs, held)
        /\ qs.plan \in Plans /\ qs.meant \in Meanings /\ qs.failed \in BOOLEAN
        /\ heap \in Heaps /\ vocabulary \in Vocabularies
    BY <1>2, AtIndependent
  <1>4. PICK h \in Heaps : h = heap
    BY <1>3
  <1>5. PICK p \in Plans : p = qs.plan
    BY <1>3
  <1>6. PICK clone : clone = Clone(h, p, spare)
    OBVIOUS
  <1>7. SliceOK(h, p.conditions) /\ SliceOK(h, p.orderings) /\ spare \in Nat
    BY <1>3, <1>4, <1>5, QueryPlanAssumption DEF Means
  <1>8. /\ Grown(h, clone.heap) /\ clone.plan \in Plans
        /\ SliceOK(clone.heap, clone.plan.conditions) /\ Elements(clone.heap, clone.plan.conditions) = Elements(h, p.conditions)
        /\ SliceOK(clone.heap, clone.plan.orderings) /\ Elements(clone.heap, clone.plan.orderings) = Elements(h, p.orderings)
        /\ Fresher(h, clone.plan.conditions) /\ Fresher(h, clone.plan.orderings)
    BY <1>6, <1>7, CloneEffect
  <1>9. PICK new : new = WithLimit(h, p, n, spare)
    OBVIOUS
  <1>10. new = [clone EXCEPT !.plan.limit = {n}] /\ clone = [heap |-> clone.heap, plan |-> clone.plan]
    BY <1>6, <1>9 DEF WithLimit, Clone
  <1>11. new.heap = clone.heap /\ new.plan = [clone.plan EXCEPT !.limit = {n}]
    BY <1>10
  <1>12. /\ new.plan \in Plans /\ new.plan.limit = {n}
         /\ new.plan.conditions = clone.plan.conditions /\ new.plan.orderings = clone.plan.orderings
    BY <1>8, <1>11 DEF Plans
  <1>13. PICK base : base = [qs EXCEPT !.meant.limit = {n}]
    OBVIOUS
  <1>14. PICK meant \in Meanings : meant = [qs.meant EXCEPT !.limit = {n}]
    BY <1>3 DEF Meanings
  <1>15. base = [qs EXCEPT !.meant = meant]
    BY <1>13, <1>14
  <1>16. PICK derived : derived = [base EXCEPT !.plan = new.plan]
    OBVIOUS
  <1>17. /\ derived \in QuerySets /\ derived.plan = new.plan
         /\ derived.failed = qs.failed /\ derived.meant = meant
    BY <1>3, <1>12, <1>15, <1>16 DEF QuerySets
  <1>18. /\ meant.conditions = qs.meant.conditions /\ meant.orderings = qs.meant.orderings
         /\ meant.limit = {n} /\ meant.failed = qs.meant.failed
    BY <1>3, <1>14 DEF Meanings
  <1>19. new.plan.conditions.array \notin held /\ new.plan.orderings.array \notin held
    BY <1>4, <1>8, <1>12, HeldOld
  <1>20. Means(new.heap, derived, held)
    BY <1>3, <1>4, <1>5, <1>8, <1>11, <1>12, <1>17, <1>18, <1>19 DEF Means
  <1>21. Derive(new, base) /\ Grown(heap, new.heap)
    BY <1>1, <1>2, <1>4, <1>5, <1>8, <1>9, <1>11, <1>13
  <1> QED BY <1>16, <1>17, <1>20, <1>21, DeriveKeeps

\* The two QuerySets of Fresh share their arrays, and nobody writes into them.
LEMMA FreshKeeps ==
    ASSUME Independent, Fresh
    PROVE  Independent'
  <1>1. PICK q \in DOMAIN querysets : Derive(Unchanged(querysets[q]), querysets[q])
    BY DEF Fresh
  <1>2. q \in 1..Len(querysets) /\ querysets[q] \in QuerySets /\ Means(heap, querysets[q], held)
    BY AtIndependent
  <1> QED BY <1>1, <1>2, SharedPlanKeeps DEF Means

\* What a caller is given is an array of its own.
LEMMA ConditionsKeeps ==
    ASSUME Independent, Conditions
    PROVE  Independent'
  <1>1. PICK q \in DOMAIN querysets, spare \in 0..MaxSpare :
            \E c : /\ c = Copied(heap, querysets[q].plan.conditions, spare)
                  /\ held = {} /\ c.slice.array # 0
                  /\ heap' = c.heap /\ held' = {c.slice.array}
                  /\ UNCHANGED <<querysets, vocabulary>>
    BY DEF Conditions
  <1>2. PICK c : /\ c = Copied(heap, querysets[q].plan.conditions, spare)
                 /\ held = {} /\ c.slice.array # 0
                 /\ heap' = c.heap /\ held' = {c.slice.array}
                 /\ UNCHANGED <<querysets, vocabulary>>
    BY <1>1
  <1>3. Means(heap, querysets[q], held)
    BY AtIndependent
  <1>4. PICK h \in Heaps : h = heap
    BY DEF Independent
  <1>5. PICK s : s = querysets[q].plan.conditions
    OBVIOUS
  <1>6. SliceOK(h, s) /\ spare \in Nat /\ c = Copied(h, s, spare)
    BY <1>2, <1>3, <1>4, <1>5, QueryPlanAssumption DEF Means
  <1>7. /\ c.heap \in Heaps /\ Len(c.heap) >= Len(h)
        /\ \A a \in 1..Len(h) : c.heap[a] = h[a]
        /\ SliceOK(c.heap, c.slice) /\ (c.slice.array = 0 \/ c.slice.array > Len(h))
    BY <1>6, CopiedEffect
  <1>8. /\ heap' \in Heaps /\ Len(heap') >= Len(heap) /\ \A a \in 1..Len(heap) : heap'[a] = heap[a]
        /\ \A a \in held' : a > Len(heap)
        /\ held' \subseteq 1..Len(heap')
    BY <1>2, <1>4, <1>7 DEF SliceOK
  <1>9. ASSUME NEW i \in 1..Len(querysets') PROVE Means(heap', querysets'[i], held')
    <2>1. Means(heap, querysets[i], held)
      BY <1>2 DEF Independent
    <2> QED BY <1>2, <1>4, <1>8, <2>1, MeansStays
  <1> QED BY <1>2, <1>8, <1>9 DEF Independent

\* A caller writes only where no plan looks.
LEMMA CallerWritesKeeps ==
    ASSUME Independent, CallerWrites
    PROVE  Independent'
  <1>1. PICK a \in held, predicates \in vocabulary.filters :
            /\ predicates # <<>>
            /\ heap' = [heap EXCEPT ![a][1] = <<Values(predicates)[1]>>]
            /\ UNCHANGED <<querysets, vocabulary, held>>
    BY DEF CallerWrites
  <1>2. heap \in Heaps /\ a \in 1..Len(heap) /\ vocabulary \in Vocabularies
    BY DEF Independent
  <1>3. PICK cs \in Seq(Items) : cs = Values(predicates)
    BY <1>2, ValuesOfArguments
  <1>4. predicates \in Seq(ToSet(predicates))
    BY <1>2, QueryPlanAssumption
  <1>5. 1 \in DOMAIN predicates /\ DOMAIN cs = DOMAIN predicates
    BY <1>1, <1>3, <1>4 DEF Values
  <1>6. PICK x \in Cells : x = <<cs[1]>>
    <2>1. DOMAIN cs = 1..Len(cs) /\ cs[1] \in Items
      BY <1>3, <1>5
    <2> QED BY <2>1 DEF Cells
  <1>7. PICK array \in Seq(Cells) : array = heap[a]
    BY <1>2, ElementOfSeq DEF Heaps
  <1>8. [array EXCEPT ![1] = x] \in Seq(Cells)
    <2>1. PICK new : new = [array EXCEPT ![1] = x]
      OBVIOUS
    <2>2. array \in [1..Len(array) -> Cells] /\ Len(array) \in Nat
      BY <1>7
    <2>3. new \in [1..Len(array) -> Cells]
      BY <1>6, <2>1, <2>2
    <2>4. new \in Seq(Cells)
      BY <2>2, <2>3
    <2> QED BY <2>1, <2>4
  <1>9. heap' = [heap EXCEPT ![a] = [array EXCEPT ![1] = x]]
    BY <1>1, <1>3, <1>6, <1>7
  <1>10. /\ heap' \in Heaps /\ Len(heap') = Len(heap)
         /\ \A b \in 1..Len(heap) : b # a => heap'[b] = heap[b]
    BY <1>2, <1>8, <1>9, ExceptSeq DEF Heaps
  <1>11. ASSUME NEW i \in 1..Len(querysets') PROVE Means(heap', querysets'[i], held')
    <2>1. Means(heap, querysets[i], held)
      BY <1>1 DEF Independent
    <2>2. Len(heap') >= Len(heap)
      BY <1>2, <1>10 DEF Heaps
    <2>3. PICK h \in Heaps : h = heap
      BY <1>2
    <2>4. PICK g \in Heaps : g = heap'
      BY <1>10
    <2>5. PICK qs, kept : qs = querysets[i] /\ kept = held
      OBVIOUS
    <2>6. Means(h, qs, kept) /\ Len(g) >= Len(h) /\ \A b \in 1..Len(h) : b \notin kept => g[b] = h[b]
      BY <1>10, <2>1, <2>2, <2>3, <2>4, <2>5
    <2>7. \A b \in kept : b \in kept \/ b > Len(h)
      OBVIOUS
    <2>8. Means(g, qs, kept)
      BY <2>6, <2>7, MeansStays
    <2> QED BY <1>1, <2>4, <2>5, <2>8
  <1> QED BY <1>1, <1>10, <1>11 DEF Independent

LEMMA InitIndependent == Init => Independent
  <1> SUFFICES ASSUME Init PROVE Independent
    OBVIOUS
  <1>1. Using \in QuerySets
    BY DEF Using, QuerySets, Plans, Meanings, Slices, NilSlice
  <1>2. heap \in Heaps /\ Len(heap) = 0
    BY DEF Init, Heaps
  <1>3. Elements(heap, NilSlice) = <<>>
    BY DEF Elements, NilSlice
  <1>4. Means(heap, Using, held)
    BY <1>3 DEF Init, Means, Using, SliceOK, NilSlice, Slices
  <1> QED BY <1>1, <1>2, <1>4 DEF Init, Independent

LEMMA NextIndependent == Independent /\ [Next]_vars => Independent'
  <1> SUFFICES ASSUME Independent, [Next]_vars PROVE Independent'
    OBVIOUS
  <1>1. CASE Evaluate
    BY <1>1 DEF Evaluate, Independent
  <1>2. CASE UNCHANGED vars
    BY <1>2 DEF vars, Independent
  <1> QED BY <1>1, <1>2, FilterKeeps, OrderByKeeps, LimitKeeps, FreshKeeps, ConditionsKeeps, CallerWritesKeeps DEF Next

THEOREM SpecIndependent == Spec => []Independent
  BY InitIndependent, NextIndependent, PTL DEF Spec

\* A QuerySet is what the calls that made it say (Plan.WithConditions,
\* WithOrderings, WithLimit, clone, Conditions; orm.Filter, OrderBy, Limit, Fresh).
THEOREM SpecPlansIndependent == Spec => []PlansIndependent
  <1>1. Independent => PlansIndependent
    BY DEF Independent, Means, PlansIndependent
  <1> QED BY <1>1, SpecIndependent, PTL

-------------------------------------------------------------------------------
\* Escaping and LIKE: an escaped text finds itself and nothing else.

EscapeNext(c, T, out, x) == out \o (IF x = c THEN <<"\\", x>> ELSE <<x>>)
EscapedSoFar(c, T, s, n, out) == out \in Seq(T)
LikeNext(t, d, state, c) == LikeStep(t, state, c)
NothingMore(c, d, s, n, a) == TRUE

Escaping == INSTANCE FoldFacts WITH Op <- EscapeNext, Inv <- EscapedSoFar
Reading == INSTANCE FoldFacts WITH Op <- LikeNext, Inv <- NothingMore

\* x is written with an escape character before it.
Escape(t, x) == Append(Append(t, "\\"), x)

\* Nothing to escape.
LEMMA EscapedNone == ASSUME NEW c PROVE Escaped(<<>>, c) = <<>>
  <1>1. Escaped(<<>>, c) = Escaping!FoldOf(c, {}, <<>>, <<>>)
    BY DEF Escaped, Escaping!FoldOf, EscapeNext, FoldLeft, MapThenFoldSet, Max, Escaping!FoldLeft, Escaping!MapThenFoldSet, Escaping!Max
  <1> QED
    BY <1>1, Escaping!FoldNone

\* The text is escaped character by character.
LEMMA EscapedMore ==
    ASSUME NEW T, "\\" \in T, NEW t \in Seq(T), NEW x \in T, NEW c
    PROVE  /\ Escaped(t, c) \in Seq(T)
           /\ x = c => Escaped(Append(t, x), c) = Escape(Escaped(t, c), x)
           /\ x # c => Escaped(Append(t, x), c) = Append(Escaped(t, c), x)
  <1>1. \A u : Escaped(u, c) = Escaping!FoldOf(c, T, <<>>, u)
    BY DEF Escaped, Escaping!FoldOf, EscapeNext, FoldLeft, MapThenFoldSet, Max, Escaping!FoldLeft, Escaping!MapThenFoldSet, Escaping!Max
  <1>2. Escaping!FoldOf(c, T, <<>>, Append(t, x)) = EscapeNext(c, T, Escaping!FoldOf(c, T, <<>>, t), x)
    BY Escaping!FoldMore
  <1>4. EscapedSoFar(c, T, t, Len(t), Escaping!FoldOf(c, T, <<>>, t))
    <2>1. ASSUME NEW i \in 1..Len(t), NEW out, EscapedSoFar(c, T, t, i - 1, out)
          PROVE  EscapedSoFar(c, T, t, i, EscapeNext(c, T, out, t[i]))
      BY <2>1 DEF EscapedSoFar, EscapeNext
    <2>2. EscapedSoFar(c, T, t, 0, <<>>)
      BY DEF EscapedSoFar
    <2>3. Len(t) \in Nat /\ DOMAIN t = 1..Len(t)
      OBVIOUS
    <2> QED
      BY <2>1, <2>2, <2>3, Escaping!FoldKeeps
  <1>5. PICK e \in Seq(T) : e = Escaped(t, c)
    BY <1>1, <1>4 DEF EscapedSoFar
  <1>6. Escaped(Append(t, x), c) = EscapeNext(c, T, e, x)
    BY <1>1, <1>2, <1>5
  <1>7. e \o <<x>> = Append(e, x)
    OBVIOUS
  <1>8. PICK b \in T : b = "\\"
    OBVIOUS
  <1>9. e \o <<b, x>> = Append(Append(e, b), x)
    OBVIOUS
  <1> QED
    BY <1>1, <1>5, <1>6, <1>7, <1>8, <1>9 DEF EscapeNext, Escape

\* The parts of EscapedMore, one fact each.
LEMMA EscapedText ==
    ASSUME NEW T, "\\" \in T, NEW t \in Seq(T), NEW c
    PROVE  Escaped(t, c) \in Seq(T)
  BY EscapedMore

LEMMA EscapedHit ==
    ASSUME NEW T, "\\" \in T, NEW t \in Seq(T), NEW c \in T
    PROVE  Escaped(Append(t, c), c) = Escape(Escaped(t, c), c)
  BY EscapedMore

LEMMA EscapedMiss ==
    ASSUME NEW T, "\\" \in T, NEW t \in Seq(T), NEW x \in T, NEW c, x # c
    PROVE  Escaped(Append(t, x), c) = Append(Escaped(t, c), x)
  BY EscapedMore

\* A later pass leaves an escaped character alone.
LEMMA EscapedAfter ==
    ASSUME NEW T, "\\" \in T, NEW t \in Seq(T), NEW x \in T, NEW c, c # "\\", x # c
    PROVE  Escaped(Escape(t, x), c) = Escape(Escaped(t, c), x)
  <1>1. Escaped(Append(t, "\\"), c) = Append(Escaped(t, c), "\\")
    BY EscapedText, EscapedHit, EscapedMiss
  <1>2. PICK u \in Seq(T) : u = Append(t, "\\")
    <2>1. Append(t, "\\") \in Seq(T)
      OBVIOUS
    <2> QED
      BY <2>1
  <1>3. Escaped(Append(u, x), c) = Append(Escaped(u, c), x)
    BY EscapedText, EscapedHit, EscapedMiss
  <1> QED
    BY <1>1, <1>2, <1>3 DEF Escape

\* Each character is escaped once, whatever it is: the escapes of one pass are
\* not escaped by the next.
LEMMA EscapeLikeMore ==
    ASSUME NEW T, "\\" \in T, NEW t \in Seq(T), NEW x \in T
    PROVE  /\ EscapeLike(<<>>) = <<>>
           /\ EscapeLike(t) \in Seq(T)
           /\ x \in {"\\", "%", "_"} => EscapeLike(Append(t, x)) = Escape(EscapeLike(t), x)
           /\ x \notin {"\\", "%", "_"} => EscapeLike(Append(t, x)) = Append(EscapeLike(t), x)
  <1>1. PICK once : once = Escaped(t, "\\")
    OBVIOUS
  <1>2. PICK twice : twice = Escaped(once, "%")
    OBVIOUS
  <1>3. PICK all : all = Escaped(twice, "_")
    OBVIOUS
  <1>t. once \in Seq(T) /\ twice \in Seq(T) /\ all \in Seq(T)
    BY <1>1, <1>2, <1>3, EscapedText, EscapedHit, EscapedMiss
  <1>4. EscapeLike(t) = all
    BY <1>1, <1>2, <1>3 DEF EscapeLike
  <1>5. EscapeLike(<<>>) = <<>>
    <2>1. Escaped(<<>>, "\\") = <<>> /\ Escaped(<<>>, "%") = <<>> /\ Escaped(<<>>, "_") = <<>>
      BY EscapedNone
    <2> QED
      BY <2>1 DEF EscapeLike
  <1>6. EscapeLike(Append(t, x)) = Escaped(Escaped(Escaped(Append(t, x), "\\"), "%"), "_")
    BY DEF EscapeLike
  <1>7. CASE x = "\\"
    <2>1. Escaped(Append(t, x), "\\") = Escape(once, x)
      BY <1>7, <1>1, EscapedText, EscapedHit, EscapedMiss
    <2>2. Escaped(Escape(once, x), "%") = Escape(twice, x)
      BY <1>7, <1>2, <1>t, EscapedAfter
    <2>3. Escaped(Escape(twice, x), "_") = Escape(all, x)
      BY <1>7, <1>3, <1>t, EscapedAfter
    <2> QED
      BY <1>4, <1>5, <1>6, <1>7, <1>t, <2>1, <2>2, <2>3
  <1>8. CASE x = "%"
    <2>1. Escaped(Append(t, x), "\\") = Append(once, x)
      BY <1>8, <1>1, EscapedText, EscapedHit, EscapedMiss
    <2>2. Escaped(Append(once, x), "%") = Escape(twice, x)
      BY <1>8, <1>2, <1>t, EscapedText, EscapedHit, EscapedMiss
    <2>3. Escaped(Escape(twice, x), "_") = Escape(all, x)
      BY <1>8, <1>3, <1>t, EscapedAfter
    <2> QED
      BY <1>4, <1>5, <1>6, <1>8, <1>t, <2>1, <2>2, <2>3
  <1>9. CASE x # "\\" /\ x # "%"
    <2>1. Escaped(Append(t, x), "\\") = Append(once, x)
      BY <1>9, <1>1, EscapedText, EscapedHit, EscapedMiss
    <2>2. Escaped(Append(once, x), "%") = Append(twice, x)
      BY <1>9, <1>2, <1>t, EscapedMiss
    <2>3. ASSUME x = "_" PROVE Escaped(Append(twice, x), "_") = Escape(all, x)
      BY <2>3, <1>3, <1>t, EscapedHit
    <2>4. ASSUME x # "_" PROVE Escaped(Append(twice, x), "_") = Append(all, x)
      BY <2>4, <1>3, <1>t, EscapedMiss
    <2> QED
      BY <1>9, <1>4, <1>5, <1>6, <1>t, <2>1, <2>2, <2>3, <2>4
  <1> QED
    BY <1>7, <1>8, <1>9

LikeState(t, p) ==
    FoldLeft(LAMBDA state, c : LikeStep(t, state, c), [escaped |-> FALSE, at |-> {0}], p)
At(S) == [escaped |-> FALSE, at |-> S]

\* LIKE reads the pattern from left to right.
LEMMA LikeStateMore ==
    ASSUME NEW t, NEW T, NEW p \in Seq(T), NEW x \in T
    PROVE  /\ LikeState(t, <<>>) = At({0})
           /\ LikeState(t, Append(p, x)) = LikeStep(t, LikeState(t, p), x)
  <1>1. \A u : LikeState(t, u) = Reading!FoldOf(t, t, At({0}), u)
    BY DEF LikeState, At, Reading!FoldOf, LikeNext, FoldLeft, MapThenFoldSet, Max, Reading!FoldLeft, Reading!MapThenFoldSet, Reading!Max
  <1>2. Reading!FoldOf(t, t, At({0}), Append(p, x)) = LikeNext(t, t, Reading!FoldOf(t, t, At({0}), p), x)
    BY Reading!FoldMore
  <1>3. Reading!FoldOf(t, t, At({0}), <<>>) = At({0})
    BY Reading!FoldNone
  <1> QED
    BY <1>1, <1>2, <1>3 DEF LikeNext

\* Where the text may stand after one more character.
Onto(t, S, x) == {n \in 1..Len(t) : n - 1 \in S /\ Folded[t[n]] = Folded[x]}

\* What one more character of the pattern matches.
LEMMA LikeCharacter ==
    ASSUME NEW T, "\\" \in T, NEW t, NEW p \in Seq(T), NEW x \in T, NEW S, LikeState(t, p) = At(S)
    PROVE  /\ x \in {"\\", "%", "_"} => LikeState(t, Escape(p, x)) = At(Onto(t, S, x))
           /\ x \notin {"\\", "%", "_"} => LikeState(t, Append(p, x)) = At(Onto(t, S, x))
  <1>1. LikeState(t, Append(p, "\\")) = [At(S) EXCEPT !.escaped = TRUE]
    <2>1. LikeState(t, Append(p, "\\")) = LikeStep(t, At(S), "\\")
      BY LikeStateMore
    <2> QED
      BY <2>1 DEF LikeStep, At
  <1>2. LikeState(t, Escape(p, x)) = LikeStep(t, [At(S) EXCEPT !.escaped = TRUE], x)
    <2>1. Append(p, "\\") \in Seq(T)
      OBVIOUS
    <2>2. PICK u \in Seq(T) : u = Append(p, "\\")
      BY <2>1
    <2>3. LikeState(t, Append(u, x)) = LikeStep(t, LikeState(t, u), x)
      BY LikeStateMore
    <2> QED
      BY <1>1, <2>2, <2>3 DEF Escape
  <1>3. LikeStep(t, [At(S) EXCEPT !.escaped = TRUE], x) = At(Onto(t, S, x))
    BY DEF LikeStep, At, Onto
  <1>4. LikeState(t, Append(p, x)) = LikeStep(t, At(S), x)
    BY LikeStateMore
  <1>5. x \notin {"\\", "%", "_"} => LikeStep(t, At(S), x) = At(Onto(t, S, x))
    BY DEF LikeStep, At, Onto
  <1> QED
    BY <1>2, <1>3, <1>4, <1>5

\* Where an occurrence of the first k characters of x may end in t, up to folding.
Ends(t, x, k) == {n \in k..Len(t) : \A h \in 1..k : Folded[t[n - k + h]] = Folded[x[h]]}

\* The places where a longer text ends follow those where it ended before.
LEMMA EndsOnto ==
    ASSUME NEW t, Len(t) \in Nat, NEW x, NEW k \in Nat, k > 0
    PROVE  Onto(t, Ends(t, x, k - 1), x[k]) = Ends(t, x, k)
  <1>1. ASSUME NEW n \in Onto(t, Ends(t, x, k - 1), x[k]) PROVE n \in Ends(t, x, k)
    <2>1. n \in 1..Len(t) /\ n - 1 \in Ends(t, x, k - 1) /\ Folded[t[n]] = Folded[x[k]]
      BY DEF Onto
    <2>a. n - 1 \in (k - 1)..Len(t) /\ \A h \in 1..(k - 1) : Folded[t[(n - 1) - (k - 1) + h]] = Folded[x[h]]
      BY <2>1 DEF Ends
    <2>2. n \in k..Len(t)
      BY <2>1, <2>a
    <2>3. ASSUME NEW h \in 1..k PROVE Folded[t[n - k + h]] = Folded[x[h]]
      <3>1. CASE h = k
        BY <3>1, <2>1, n - k + k = n
      <3>2. CASE h # k
        <4>1. h \in 1..(k - 1) /\ (n - 1) - (k - 1) + h = n - k + h
          BY <3>2, <2>1
        <4> QED
          BY <4>1, <2>a
      <3> QED
        BY <3>1, <3>2
    <2> QED
      BY <2>2, <2>3 DEF Ends
  <1>2. ASSUME NEW n \in Ends(t, x, k) PROVE n \in Onto(t, Ends(t, x, k - 1), x[k])
    <2>1. n \in k..Len(t) /\ \A h \in 1..k : Folded[t[n - k + h]] = Folded[x[h]]
      BY DEF Ends
    <2>2. n \in 1..Len(t) /\ n - 1 \in (k - 1)..Len(t) /\ k \in 1..k /\ n - k + k = n
      BY <2>1
    <2>3. Folded[t[n]] = Folded[x[k]]
      BY <2>1, <2>2
    <2>4. ASSUME NEW h \in 1..(k - 1) PROVE Folded[t[(n - 1) - (k - 1) + h]] = Folded[x[h]]
      <3>1. h \in 1..k /\ (n - 1) - (k - 1) + h = n - k + h
        BY <2>2
      <3> QED
        BY <3>1, <2>1
    <2> QED
      BY <2>2, <2>3, <2>4 DEF Onto, Ends
  <1> QED
    BY <1>1, <1>2

\* A text ends where its last character stands after a place where the rest ends.
LEMMA EndsAfter ==
    ASSUME NEW T, {"\\", "%"} \subseteq T, NEW t, Len(t) \in Nat, NEW x \in Seq(T)
    PROVE  LikeState(t, <<"%">> \o EscapeLike(x)) = At(Ends(t, x, Len(x)))
  <1> DEFINE S == {k \in 0..Len(x) : LikeState(t, <<"%">> \o EscapeLike(SubSeq(x, 1, k))) = At(Ends(t, x, k))}
  <1>1. 0 \in S
    <2>1. SubSeq(x, 1, 0) = <<>> /\ EscapeLike(<<>>) = <<>>
      <3>1. SubSeq(x, 1, 0) = <<>>
        OBVIOUS
      <3> QED
        BY <3>1, EscapedNone DEF EscapeLike
    <2>2. <<"%">> \o <<>> = Append(<<>>, "%")
      OBVIOUS
    <2>3. LikeState(t, Append(<<>>, "%")) = LikeStep(t, At({0}), "%")
      <3>1. <<>> \in Seq(T)
        OBVIOUS
      <3> QED
        BY <3>1, LikeStateMore
    <2>4. LikeStep(t, At({0}), "%") = At(Ends(t, x, 0))
      <3>1. Ends(t, x, 0) = 0..Len(t)
        BY DEF Ends
      <3>2. {n \in 0..Len(t) : \E m \in {0} : m <= n} = 0..Len(t)
        OBVIOUS
      <3>3. LikeStep(t, At({0}), "%") = At({n \in 0..Len(t) : \E m \in {0} : m <= n})
        BY DEF LikeStep, At
      <3> QED
        BY <3>1, <3>2, <3>3
    <2>5. LikeState(t, <<"%">> \o EscapeLike(SubSeq(x, 1, 0))) = At(Ends(t, x, 0))
      BY <2>1, <2>2, <2>3, <2>4
    <2> QED
      BY <2>5
  <1>2. ASSUME NEW k \in 1..Len(x), k - 1 \in S PROVE k \in S
    <2>1. PICK u : u = SubSeq(x, 1, k - 1)
      OBVIOUS
    <2>2. u \in Seq(T) /\ x[k] \in T /\ SubSeq(x, 1, k) = Append(u, x[k])
      BY <2>1
    <2>3. PICK e : e = EscapeLike(u)
      OBVIOUS
    <2>4. e \in Seq(T)
      BY <2>2, <2>3, EscapedText, "\\" \in T DEF EscapeLike
    <2>c. /\ x[k] \in {"\\", "%", "_"} => EscapeLike(Append(u, x[k])) = Escape(e, x[k])
          /\ x[k] \notin {"\\", "%", "_"} => EscapeLike(Append(u, x[k])) = Append(e, x[k])
      BY <2>2, <2>3, "\\" \in T, EscapeLikeMore
    <2>5. PICK p : p = <<"%">> \o e
      OBVIOUS
    <2>6. p \in Seq(T)
      <3>1. <<"%">> \in Seq(T)
        OBVIOUS
      <3> QED
        BY <3>1, <2>4, <2>5
    <2>7. ASSUME NEW s \in Seq(T), NEW c \in T PROVE <<"%">> \o Append(s, c) = Append(<<"%">> \o s, c)
      OBVIOUS
    <2>8. <<"%">> \o Escape(e, x[k]) = Escape(p, x[k]) /\ <<"%">> \o Append(e, x[k]) = Append(p, x[k])
      <3>1. Append(e, "\\") \in Seq(T)
        BY <2>4, "\\" \in T
      <3> QED
        BY <3>1, <2>2, <2>4, <2>5, <2>7 DEF Escape
    <2>9. LikeState(t, p) = At(Ends(t, x, k - 1))
      BY <1>2, <2>1, <2>3, <2>5
    <2>10. /\ x[k] \in {"\\", "%", "_"} => LikeState(t, Escape(p, x[k])) = At(Onto(t, Ends(t, x, k - 1), x[k]))
           /\ x[k] \notin {"\\", "%", "_"} => LikeState(t, Append(p, x[k])) = At(Onto(t, Ends(t, x, k - 1), x[k]))
      BY <2>2, <2>6, <2>9, LikeCharacter
    <2>11. Onto(t, Ends(t, x, k - 1), x[k]) = Ends(t, x, k)
      BY EndsOnto
    <2>12. LikeState(t, <<"%">> \o EscapeLike(SubSeq(x, 1, k))) = At(Ends(t, x, k))
      BY <2>2, <2>c, <2>8, <2>10, <2>11
    <2> QED
      BY <2>12
  <1>3. Len(x) \in S
    <2> HIDE DEF S
    <2>1. PICK n \in Nat : n = Len(x)
      OBVIOUS
    <2>2. 0..n \subseteq S
      BY <1>1, <1>2, <2>1, Reading!CountUp
    <2> QED
      BY <2>1, <2>2
  <1>4. SubSeq(x, 1, Len(x)) = x
    OBVIOUS
  <1> QED
    BY <1>3, <1>4

\* icontains finds the text wherever it occurs, up to folding, and its own
\* wildcards and escapes stand for themselves.
LEMMA LikeFinds ==
    ASSUME NEW T, {"\\", "%"} \subseteq T, NEW t, Len(t) \in Nat, NEW x \in Seq(T)
    PROVE  Like(<<"%">> \o EscapeLike(x) \o <<"%">>, t) <=> Ends(t, x, Len(x)) # {}
  <1>1. EscapeLike(x) \in Seq(T)
    <2>1. "\\" \in T
      OBVIOUS
    <2> QED
      BY <2>1, EscapedText DEF EscapeLike
  <1>2. PICK p \in Seq(T) : p = <<"%">> \o EscapeLike(x)
    <2>1. <<"%">> \o EscapeLike(x) \in Seq(T)
      BY <1>1
    <2> QED
      BY <2>1
  <1>3. p \o <<"%">> = Append(p, "%")
    OBVIOUS
  <1>4. LikeState(t, p) = At(Ends(t, x, Len(x)))
    BY <1>2, EndsAfter
  <1>5. LikeState(t, Append(p, "%")) = LikeStep(t, At(Ends(t, x, Len(x))), "%")
    BY <1>4, LikeStateMore
  <1>6. LikeStep(t, At(Ends(t, x, Len(x))), "%") = At({n \in 0..Len(t) : \E m \in Ends(t, x, Len(x)) : m <= n})
    BY DEF LikeStep, At
  <1>7. Like(p \o <<"%">>, t) <=> Len(t) \in {n \in 0..Len(t) : \E m \in Ends(t, x, Len(x)) : m <= n}
    <2>1. LikeState(t, Append(p, "%")) = At({n \in 0..Len(t) : \E m \in Ends(t, x, Len(x)) : m <= n})
      BY <1>5, <1>6
    <2>2. Like(p \o <<"%">>, t) <=> ~LikeState(t, Append(p, "%")).escaped /\ Len(t) \in LikeState(t, Append(p, "%")).at
      BY <1>3 DEF Like, LikeState
    <2> QED
      BY <2>1, <2>2 DEF At
  <1>8. \A m \in Ends(t, x, Len(x)) : m <= Len(t)
    BY DEF Ends
  <1> QED
    BY <1>2, <1>7, <1>8

-------------------------------------------------------------------------------
\* Compiling: what the ORM asks for is compiled, and its arguments are bound.

\* What the ORM asks for.
Askable(c) ==
    \E f \in ToSet(Metadata) :
        /\ c.field = FieldReference(f) /\ IsValue(c.value)
        /\ \/ c.lookup = "exact" /\ c.value.kind = KindOf(f.kind)
           \/ c.lookup = "isnull" /\ c.value.kind = "boolean"
           \/ c.lookup = "icontains" /\ f.kind = "char" /\ c.value.kind = "string"
Sortable(o) == \E f \in ToSet(Metadata) : o.field = FieldReference(f) /\ o.direction \in {"asc", "desc"}

Test(c) == The(CompileCondition(c)).test
Argument(c) == The(CompileCondition(c)).argument

\* The only element.
LEMMA TheOne == ASSUME NEW x PROVE The({x}) = x
  BY DEF The

\* Reads the test and the argument off a compiled condition.
LEMMA CompilesTo ==
    ASSUME NEW c, NEW t, NEW a, CompileCondition(c) = {[test |-> t, argument |-> a]}
    PROVE  CompileCondition(c) # {} /\ Test(c) = t /\ Argument(c) = a
  <1>1. The(CompileCondition(c)) = [test |-> t, argument |-> a]
    BY TheOne
  <1> QED
    BY <1>1 DEF Test, Argument

\* A parameter that is there is one argument.
LEMMA OneInSeq == ASSUME NEW v PROVE SetToSeq({v}) = <<v>>
  <1>1. Cardinality({v}) = 1
    BY FS_Singleton
  <1>2. <<v>> \in [1..1 -> {v}] /\ IsInjective(<<v>>)
    BY DEF IsInjective
  <1>3. \E f : f \in [1..1 -> {v}] /\ IsInjective(f)
    BY <1>2
  <1>4. PICK f : f = SetToSeq({v})
    OBVIOUS
  <1>5. f \in [1..1 -> {v}]
    BY <1>1, <1>3, <1>4 DEF SetToSeq
  <1>6. f = <<v>>
    BY <1>5
  <1> QED
    BY <1>4, <1>6

\* A parameter that is not there is none.
LEMMA NoneInSeq == SetToSeq({}) = <<>>
  <1>1. Cardinality({}) = 0
    BY FS_EmptySet
  <1>2. <<>> \in [1..0 -> {}] /\ IsInjective(<<>>)
    BY DEF IsInjective
  <1>3. PICK f : f = SetToSeq({})
    OBVIOUS
  <1>4. f \in [1..0 -> {}]
    BY <1>1, <1>2, <1>3 DEF SetToSeq
  <1>5. f = <<>>
    BY <1>4
  <1> QED
    BY <1>3, <1>5

\* The compiler refuses nothing of it.
LEMMA AskableCompiles ==
    ASSUME NEW c, Askable(c)
    PROVE  /\ CompileCondition(c) # {}
           /\ c.lookup = "exact" => Test(c) = "equal" /\ Argument(c) = {c.value}
           /\ c.lookup = "isnull" => /\ Test(c) = (IF c.value.boolean THEN "null" ELSE "not null")
                                     /\ Argument(c) = {}
           /\ c.lookup = "icontains" => /\ Test(c) = "like"
                                        /\ Argument(c) = {String(<<"%">> \o EscapeLike(c.value.text) \o <<"%">>)}
  <1>1. PICK f \in ToSet(Metadata) :
           /\ c.field = FieldReference(f) /\ IsValue(c.value)
           /\ \/ c.lookup = "exact" /\ c.value.kind = KindOf(f.kind)
              \/ c.lookup = "isnull" /\ c.value.kind = "boolean"
              \/ c.lookup = "icontains" /\ f.kind = "char" /\ c.value.kind = "string"
    BY DEF Askable
  <1>2. c.field.kind = KindOf(f.kind)
    BY <1>1 DEF FieldReference
  <1>3. CASE c.lookup = "exact"
    <2>1. CompileCondition(c) = {[test |-> "equal", argument |-> {c.value}]}
      BY <1>1, <1>2, <1>3 DEF CompileCondition
    <2> QED
      BY <1>3, <2>1, CompilesTo
  <1>4. CASE c.lookup = "isnull"
    <2>1. PICK t : t = (IF c.value.boolean THEN "null" ELSE "not null")
      OBVIOUS
    <2>2. CompileCondition(c) = {[test |-> t, argument |-> {}]}
      BY <1>1, <1>4, <2>1 DEF CompileCondition
    <2>3. Test(c) = t /\ Argument(c) = {} /\ CompileCondition(c) # {}
      BY <2>2, CompilesTo
    <2> QED
      BY <1>4, <2>1, <2>3
  <1>5. CASE c.lookup = "icontains"
    <2>1. c.field.kind = "string" /\ c.value.kind = "string"
      BY <1>1, <1>2, <1>5 DEF KindOf
    <2>2. PICK p : p = String(<<"%">> \o EscapeLike(c.value.text) \o <<"%">>)
      OBVIOUS
    <2>3. CompileCondition(c) = {[test |-> "like", argument |-> {p}]}
      BY <1>5, <2>1, <2>2 DEF CompileCondition
    <2> QED
      BY <1>5, <2>2, <2>3, CompilesTo
  <1> QED
    BY <1>1, <1>3, <1>4, <1>5

\* A condition the compiler takes binds one argument, or none for IS NULL.
LEMMA OneArgument ==
    ASSUME NEW c, Askable(c)
    PROVE  /\ HasParameter(Test(c)) <=> Argument(c) # {}
           /\ Argument(c) = {} \/ \E v : Argument(c) = {v}
  <1>1. c.lookup \in {"exact", "isnull", "icontains"}
    BY DEF Askable
  <1> QED
    BY <1>1, AskableCompiles DEF HasParameter

\* How many of the first n conditions bind an argument.
Binding(cs, n) == {h \in 1..n : Argument(cs[h]) # {}}
Bound(cs) == FoldLeft(LAMBDA out, c : out \o SetToSeq(The(CompileCondition(c)).argument), <<>>, cs)

\* Nothing is bound before the first condition.
LEMMA BindingOne ==
    ASSUME NEW cs, NEW n \in Nat, n > 0
    PROVE  /\ Cardinality(Binding(cs, n - 1)) \in Nat
           /\ Argument(cs[n]) = {} => Cardinality(Binding(cs, n)) = Cardinality(Binding(cs, n - 1))
           /\ Argument(cs[n]) # {} => Cardinality(Binding(cs, n)) = Cardinality(Binding(cs, n - 1)) + 1
  <1>1. IsFiniteSet(Binding(cs, n - 1)) /\ Cardinality(Binding(cs, n - 1)) \in Nat
    <2>1. Binding(cs, n - 1) \subseteq 1..n /\ IsFiniteSet(1..n)
      BY FS_Interval DEF Binding
    <2> QED
      BY <2>1, FS_Subset, FS_CardinalityType
  <1>2. Argument(cs[n]) = {} => Binding(cs, n) = Binding(cs, n - 1)
    BY DEF Binding
  <1>3. Argument(cs[n]) # {} => Binding(cs, n) = Binding(cs, n - 1) \union {n} /\ n \notin Binding(cs, n - 1)
    BY DEF Binding
  <1> QED
    BY <1>1, <1>2, <1>3, FS_AddElement

\* Arguments are bound in the order of the conditions.
LEMMA BindingMore ==
    ASSUME NEW cs, NEW n \in Nat, NEW i \in 1..n, Argument(cs[i]) # {}
    PROVE  /\ Cardinality(Binding(cs, i)) \in 1..Cardinality(Binding(cs, n))
           /\ Cardinality(Binding(cs, n)) \in Nat
  <1>1. Binding(cs, i) \subseteq Binding(cs, n) /\ Binding(cs, n) \subseteq 1..n /\ i \in Binding(cs, i)
    BY DEF Binding
  <1>2. IsFiniteSet(1..n)
    BY FS_Interval
  <1>3. IsFiniteSet(Binding(cs, n)) /\ IsFiniteSet(Binding(cs, i))
    BY <1>1, <1>2, FS_Subset
  <1>4. Cardinality(Binding(cs, i)) <= Cardinality(Binding(cs, n))
    BY <1>1, <1>3, FS_Subset
  <1>5. Cardinality(Binding(cs, i)) # 0
    BY <1>1, <1>3, FS_EmptySet
  <1> QED
    BY <1>3, <1>4, <1>5, FS_CardinalityType

BindNext(c, V, out, x) == out \o SetToSeq(The(CompileCondition(x)).argument)
BoundSoFar(c, V, cs, n, out) ==
    /\ out \in Seq(V) /\ Len(out) = Cardinality(Binding(cs, n))
    /\ \A i \in 1..n : Argument(cs[i]) # {} => Argument(cs[i]) = {out[Cardinality(Binding(cs, i))]}

BindingOf == INSTANCE FoldFacts WITH Op <- BindNext, Inv <- BoundSoFar

\* The argument of a condition is where the placeholder of its test looks for it.
LEMMA ArgumentsBound ==
    ASSUME NEW cs, NEW N \in Nat, DOMAIN cs = 1..N, \A i \in 1..N : Askable(cs[i])
    PROVE  \E V : BoundSoFar(cs, V, cs, N, Bound(cs))
  <1> DEFINE V == UNION {Argument(cs[i]) : i \in 1..N}
  <1>1. Bound(cs) = BindingOf!FoldOf(cs, V, <<>>, cs)
    BY DEF Bound, BindingOf!FoldOf, BindNext, FoldLeft, MapThenFoldSet, Max, BindingOf!FoldLeft, BindingOf!MapThenFoldSet, BindingOf!Max
  <1>2. BoundSoFar(cs, V, cs, 0, <<>>)
    <2>1. Binding(cs, 0) = {}
      BY DEF Binding
    <2> QED
      BY <2>1, FS_EmptySet DEF BoundSoFar
  <1>3. ASSUME NEW n \in 1..N, NEW out, BoundSoFar(cs, V, cs, n - 1, out)
        PROVE  BoundSoFar(cs, V, cs, n, BindNext(cs, V, out, cs[n]))
    <2>1. /\ out \in Seq(V) /\ Len(out) = Cardinality(Binding(cs, n - 1))
          /\ \A i \in 1..(n - 1) : Argument(cs[i]) # {} => Argument(cs[i]) = {out[Cardinality(Binding(cs, i))]}
      BY <1>3 DEF BoundSoFar
    <2>n. n \in Nat /\ n > 0 /\ Len(out) = Cardinality(Binding(cs, n - 1))
      BY <2>1
    <2>2. BindNext(cs, V, out, cs[n]) = out \o SetToSeq(Argument(cs[n]))
      BY DEF BindNext, Argument
    <2>3. CASE Argument(cs[n]) = {}
      <3>1. BindNext(cs, V, out, cs[n]) = out
        <4>1. out \o <<>> = out
          BY <2>1
        <4> QED
          BY <2>2, <2>3, <4>1, NoneInSeq
      <3>2. Len(out) = Cardinality(Binding(cs, n))
        BY <2>n, <2>3, BindingOne
      <3>3. \A i \in 1..n : Argument(cs[i]) # {} => i \in 1..(n - 1)
        BY <2>3
      <3> QED
        BY <2>1, <3>1, <3>2, <3>3 DEF BoundSoFar
    <2>4. CASE Argument(cs[n]) # {}
      <3>1. PICK v : Argument(cs[n]) = {v}
        BY <2>4, OneArgument
      <3>2. v \in V
        BY <3>1
      <3>3. BindNext(cs, V, out, cs[n]) = Append(out, v)
        <4>1. out \o <<v>> = Append(out, v)
          BY <2>1, <3>2
        <4> QED
          BY <2>2, <3>1, <4>1, OneInSeq
      <3>4. Cardinality(Binding(cs, n)) = Len(out) + 1
        BY <2>n, <2>4, BindingOne
      <3> HIDE DEF V
      <3>5. PICK new : new = Append(out, v)
        OBVIOUS
      <3>6. new \in Seq(V) /\ Len(new) = Len(out) + 1 /\ new[Len(out) + 1] = v /\ \A j \in 1..Len(out) : new[j] = out[j]
        BY <2>1, <3>2, <3>5
      <3>7. ASSUME NEW i \in 1..n, Argument(cs[i]) # {} PROVE Argument(cs[i]) = {new[Cardinality(Binding(cs, i))]}
        <4>1. CASE i = n
          BY <4>1, <3>1, <3>4, <3>6
        <4>2. CASE i # n
          <5>1. i \in 1..(n - 1) /\ n - 1 \in Nat
            BY <4>2
          <5>2. Cardinality(Binding(cs, i)) \in 1..Len(out)
            BY <2>1, <3>7, <5>1, BindingMore
          <5> QED
            BY <2>1, <3>6, <3>7, <5>1, <5>2
        <4> QED
          BY <4>1, <4>2
      <3> QED
        BY <3>3, <3>4, <3>5, <3>6, <3>7 DEF BoundSoFar
    <2> QED
      BY <2>3, <2>4
  <1> HIDE DEF V
  <1>4. BoundSoFar(cs, V, cs, N, BindingOf!FoldOf(cs, V, <<>>, cs))
    BY <1>2, <1>3, BindingOf!FoldKeeps
  <1> QED
    BY <1>1, <1>4

-------------------------------------------------------------------------------
\* Passing: the statement that is run selects what the conditions mean.

\* What the two steps of a run, Compile and Execute, hand over.
Statement(cs, os, limit) ==
    [where |-> [i \in DOMAIN cs |-> [column |-> cs[i].field.column, test |-> Test(cs[i])]],
     order |-> [i \in DOMAIN os |-> [column |-> os[i].field.column, direction |-> os[i].direction]],
     limited |-> limit # {},
     arguments |-> Bound(cs) \o SetToSeq({Integer(n) : n \in limit})]

\* The fields the ORM refers to are columns of the table.
LEMMA FieldIsColumn == \A f \in ToSet(Metadata) : ContainsField(FieldReference(f))
  BY TableAssumption DEF ContainsField, Columns, ToSet

\* The compiler takes every statement the ORM asks for.
LEMMA CompileAsked ==
    ASSUME NEW cs, \A i \in DOMAIN cs : Askable(cs[i]),
           NEW os, \A i \in DOMAIN os : Sortable(os[i]), NEW limit
    PROVE  Compile(cs, os, limit) = {Statement(cs, os, limit)}
  <1>1. Columns # <<>>
    <2>1. Len(Metadata) # 0 /\ DOMAIN Metadata = 1..Len(Metadata) /\ Len(Metadata) \in Nat
      BY TableAssumption
    <2>2. 1 \in DOMAIN Columns
      BY <2>1 DEF Columns
    <2>3. DOMAIN <<>> = {}
      OBVIOUS
    <2> QED
      BY <2>2, <2>3
  <1>2. \A i \in DOMAIN cs : ContainsField(cs[i].field) /\ CompileCondition(cs[i]) # {}
    BY FieldIsColumn, AskableCompiles DEF Askable
  <1>3. \A i \in DOMAIN os : ContainsField(os[i].field) /\ os[i].direction \in {"asc", "desc"}
    BY FieldIsColumn DEF Sortable
  <1> QED
    BY <1>1, <1>2, <1>3 DEF Compile, Statement, Test, Bound

\* A column belongs to one field.
LEMMA FieldAtColumn == \A f \in ToSet(Metadata) : FieldOf(f.column) = f
  <1>1. TAKE f \in ToSet(Metadata)
  <1>2. FieldOf(f.column) \in ToSet(Metadata) /\ FieldOf(f.column).column = f.column
    BY DEF FieldOf
  <1> QED
    BY <1>2, TableAssumption

\* A column of a stored row is the value of its field.
LEMMA CellOfField ==
    ASSUME NEW x \in DOMAIN Models, NEW f \in ToSet(Metadata)
    PROVE  Cell(Models[x], FieldReference(f).column) = Stored(Models[x][FieldReference(f).name])
  BY FieldAtColumn DEF Cell, FieldReference

\* Storing a value of a field loses nothing.
LEMMA StoredValue ==
    ASSUME NEW v, IsValue(v)
    PROVE  /\ v.kind \in {"null", "integer", "string", "boolean"}
           /\ v.kind = "null" <=> v = Null
           /\ Stored(v).kind = "null" <=> v.kind = "null"
           /\ Stored(v).kind = "string" <=> v.kind = "string"
           /\ v.kind = "integer" => v = Integer(v.integer)
           /\ v.kind = "string" => v = String(v.text) /\ v.text \in Seq(ToSet(v.text))
           /\ v.kind = "boolean" => v = Boolean(v.boolean) /\ v.boolean \in BOOLEAN
  <1>1. Null.kind = "null" /\ \A n : Integer(n).kind = "integer" /\ String(n).kind = "string" /\ Boolean(n).kind = "boolean"
    BY DEF Null, Integer, String, Boolean
  <1>2. CASE v = Null
    BY <1>1, <1>2 DEF Stored
  <1>3. CASE v = Integer(v.integer) /\ v.integer \in Int
    BY <1>1, <1>3 DEF Stored
  <1>4. CASE v = String(v.text) /\ v.text \in Seq(ToSet(v.text))
    BY <1>1, <1>4 DEF Stored
  <1>5. CASE v = Boolean(v.boolean) /\ v.boolean \in BOOLEAN
    BY <1>1, <1>5 DEF Stored
  <1> QED
    BY <1>2, <1>3, <1>4, <1>5 DEF IsValue

\* Values that differ are stored differently.
LEMMA StoredTellsApart ==
    ASSUME NEW v, NEW w, IsValue(v), IsValue(w), v.kind = w.kind, Stored(v) = Stored(w)
    PROVE  v = w
  <1>1. v.kind \in {"null", "integer", "string", "boolean"}
    BY StoredValue
  <1>2. CASE v.kind # "boolean"
    BY <1>2 DEF Stored
  <1>3. CASE v.kind = "boolean"
    <2>1. v = Boolean(v.boolean) /\ v.boolean \in BOOLEAN /\ w = Boolean(w.boolean) /\ w.boolean \in BOOLEAN
      BY <1>3, StoredValue
    <2>2. Integer(IF v.boolean THEN 1 ELSE 0) = Integer(IF w.boolean THEN 1 ELSE 0)
      BY <1>3 DEF Stored
    <2>3. (IF v.boolean THEN 1 ELSE 0) = (IF w.boolean THEN 1 ELSE 0)
      BY <2>2 DEF Integer, Null
    <2>4. v.boolean = w.boolean
      BY <2>1, <2>3
    <2> QED
      BY <2>1, <2>4
  <1> QED
    BY <1>2, <1>3

\* The escaped pattern finds the rows that contain the text, whatever characters it has.
LEMMA LikeMeans ==
    ASSUME NEW t, t \in Seq(ToSet(t)), NEW x, x \in Seq(ToSet(x))
    PROVE  Like(<<"%">> \o EscapeLike(x) \o <<"%">>, t) <=>
             \E k \in 0..Len(t) : IsPrefix(FoldText(x), FoldText(SubSeq(t, k + 1, Len(t))))
  <1> DEFINE n == Len(t)
             m == Len(x)
  <1>1. n \in Nat /\ m \in Nat /\ DOMAIN x = 1..m /\ DOMAIN t = 1..n
    OBVIOUS
  <1>2. Like(<<"%">> \o EscapeLike(x) \o <<"%">>, t) <=> Ends(t, x, m) # {}
    <2>1. PICK T : T = ToSet(x) \union {"\\", "%"}
      OBVIOUS
    <2>2. x \in Seq(T) /\ {"\\", "%"} \subseteq T
      BY <2>1
    <2> QED
      BY <2>2, <1>1, LikeFinds
  <1>3. ASSUME NEW k \in 0..n
        PROVE  IsPrefix(FoldText(x), FoldText(SubSeq(t, k + 1, n))) <=> k + m \in Ends(t, x, m)
    <2>1. PICK s : s = SubSeq(t, k + 1, n)
      OBVIOUS
    <2>2. DOMAIN s = 1..(n - k) /\ \A h \in 1..(n - k) : s[h] = t[k + h]
      BY <1>1, <2>1
    <2>3. PICK fx : fx = FoldText(x)
      OBVIOUS
    <2>4. PICK fs : fs = FoldText(s)
      OBVIOUS
    <2>5. fx = [h \in 1..m |-> Folded[x[h]]] /\ fs = [h \in 1..(n - k) |-> Folded[t[k + h]]]
      BY <1>1, <2>2, <2>3, <2>4 DEF FoldText
    <2> HIDE DEF n, m
    <2>6. n - k \in Nat /\ Len(fx) = m /\ Len(fs) = n - k
      BY <1>1, <2>5
    <2>7. k + m \in Ends(t, x, m) <=> k + m \in m..n /\ \A h \in 1..m : Folded[t[k + h]] = Folded[x[h]]
      <3>1. Ends(t, x, m) = {e \in m..n : \A h \in 1..m : Folded[t[e - m + h]] = Folded[x[h]]}
        BY DEF Ends, n
      <3>2. PICK e : e = k + m
        OBVIOUS
      <3>3. e \in Ends(t, x, m) <=> e \in m..n /\ \A h \in 1..m : Folded[t[e - m + h]] = Folded[x[h]]
        BY <3>1
      <3>4. \A h \in 1..m : e - m + h = k + h
        BY <1>1, <3>2
      <3> QED
        BY <3>2, <3>3, <3>4
    <2>8. k + m \in m..n <=> m <= n - k
      BY <1>1
    <2>10. ASSUME m <= n - k
           PROVE  SubSeq(fx, 1, m) = SubSeq(fs, 1, m) <=> \A h \in 1..m : Folded[t[k + h]] = Folded[x[h]]
      <3>1. SubSeq(fx, 1, m) = [h \in 1..m |-> Folded[x[h]]]
        BY <1>1, <2>5, <2>6
      <3>2. SubSeq(fs, 1, m) = [h \in 1..m |-> Folded[t[k + h]]]
        BY <1>1, <2>5, <2>6, <2>10
      <3> QED
        BY <3>1, <3>2
    <2> QED
      BY <2>1, <2>3, <2>4, <2>6, <2>7, <2>8, <2>10 DEF IsPrefix
  <1>4. ASSUME NEW e \in Ends(t, x, m) PROVE e - m \in 0..n /\ (e - m) + m = e
    BY <1>1 DEF Ends
  <1> QED
    BY <1>2, <1>3, <1>4

\* A limit is nothing or one number of rows.
IsLimit(limit) == limit = {} \/ \E n \in Nat : limit = {n}

\* LIMIT is the last argument.
LEMMA LimitBound ==
    ASSUME NEW limit, IsLimit(limit)
    PROVE  \/ limit = {} /\ SetToSeq({Integer(n) : n \in limit}) = <<>>
           \/ \E n \in Nat : limit = {n} /\ SetToSeq({Integer(m) : m \in limit}) = <<Integer(n)>>
  <1>1. CASE limit = {}
    <2>1. {Integer(n) : n \in limit} = {}
      BY <1>1
    <2> QED
      BY <1>1, <2>1, NoneInSeq
  <1>2. ASSUME NEW n \in Nat, limit = {n} PROVE SetToSeq({Integer(m) : m \in limit}) = <<Integer(n)>>
    <2>1. {Integer(m) : m \in limit} = {Integer(n)}
      BY <1>2
    <2> QED
      BY <2>1, OneInSeq
  <1> QED
    BY <1>1, <1>2 DEF IsLimit

\* Where SQLite looks for the argument of the i-th test.
Position(q, i) == Cardinality({h \in 1..i : HasParameter(q.where[h].test)})

ArgumentsPlaced(cs, N, limit, q) ==
    /\ \A i \in 1..N : Argument(cs[i]) # {} => Argument(cs[i]) = {q.arguments[Position(q, i)]}
    /\ \A n \in Nat : limit = {n} => Last(q.arguments) = Integer(n)

\* The arguments of a statement: those of the conditions by their positions, and the limit last.
LEMMA StatementArguments ==
    ASSUME NEW cs, NEW N \in Nat, DOMAIN cs = 1..N, \A i \in 1..N : Askable(cs[i]),
           NEW os, NEW limit, IsLimit(limit), NEW q, q = Statement(cs, os, limit)
    PROVE  ArgumentsPlaced(cs, N, limit, q)
  <1>1. PICK V : BoundSoFar(cs, V, cs, N, Bound(cs))
    BY ArgumentsBound
  <1>2. PICK b : b = Bound(cs)
    OBVIOUS
  <1>3. b \in Seq(V) /\ Len(b) = Cardinality(Binding(cs, N))
    BY <1>1, <1>2 DEF BoundSoFar
  <1>4. \A i \in 1..N : Argument(cs[i]) # {} => Argument(cs[i]) = {b[Cardinality(Binding(cs, i))]}
    BY <1>1, <1>2 DEF BoundSoFar
  <1>5. PICK a : a = SetToSeq({Integer(n) : n \in limit})
    OBVIOUS
  <1>6. q.arguments = b \o a
    BY <1>2, <1>5 DEF Statement
  <1>7. (a = <<>> /\ limit = {}) \/ \E n \in Nat : limit = {n} /\ a = <<Integer(n)>>
    BY <1>5, LimitBound
  <1>8. PICK all : all = b \o a
    OBVIOUS
  <1>9. /\ \A k \in 1..Len(b) : all[k] = b[k]
        /\ \A n \in Nat : limit = {n} => Last(all) = Integer(n)
    <2>1. CASE a = <<>> /\ limit = {}
      BY <1>3, <1>8, <2>1
    <2>2. ASSUME NEW n \in Nat, limit = {n}, a = <<Integer(n)>>
          PROVE  (\A k \in 1..Len(b) : all[k] = b[k]) /\ Last(all) = Integer(n)
      <3>1. PICK v : v = Integer(n)
        OBVIOUS
      <3>2. b \in Seq(V \union {v}) /\ <<v>> \in Seq(V \union {v}) /\ all = b \o <<v>>
        BY <1>3, <1>8, <2>2, <3>1
      <3>3. Len(all) = Len(b) + 1 /\ all[Len(b) + 1] = v /\ \A k \in 1..Len(b) : all[k] = b[k]
        BY <3>2, ConcatProperties
      <3> QED
        BY <3>1, <3>3 DEF Last
    <2>3. ASSUME NEW n \in Nat, NEW m \in Nat, limit = {n}, limit = {m} PROVE n = m
      BY <2>3
    <2> QED
      BY <1>7, <2>1, <2>2, <2>3
  <1>10. ASSUME NEW i \in 1..N, Argument(cs[i]) # {}
         PROVE  Argument(cs[i]) = {q.arguments[Position(q, i)]}
    <2>1. \A h \in 1..i : q.where[h].test = Test(cs[h])
      <3>1. \A h \in 1..i : h \in DOMAIN cs
        OBVIOUS
      <3> QED
        BY <3>1 DEF Statement
    <2>2. \A h \in 1..i : HasParameter(Test(cs[h])) <=> Argument(cs[h]) # {}
      <3>1. \A h \in 1..i : Askable(cs[h])
        OBVIOUS
      <3> QED
        BY <3>1, OneArgument
    <2>3. {h \in 1..i : HasParameter(q.where[h].test)} = Binding(cs, i)
      BY <2>1, <2>2 DEF Binding
    <2>4. Cardinality(Binding(cs, i)) \in 1..Len(b)
      BY <1>3, <1>10, BindingMore
    <2> QED
      BY <1>4, <1>6, <1>8, <1>9, <1>10, <2>3, <2>4 DEF Position
  <1> QED
    BY <1>6, <1>8, <1>9, <1>10 DEF ArgumentsPlaced

\* A row passes the WHERE clause when it satisfies every condition.
LEMMA PassesMeans ==
    ASSUME NEW cs, NEW N \in Nat, DOMAIN cs = 1..N, \A i \in 1..N : Askable(cs[i]),
           NEW os, NEW limit, IsLimit(limit), NEW q, q = Statement(cs, os, limit),
           NEW x \in DOMAIN Models, NEW i \in 1..N
    PROVE  Passes(Models[x], q, i) <=> Satisfies(Models[x], cs[i])
  <1>1. PICK c : c = cs[i]
    OBVIOUS
  <1>2. PICK f \in ToSet(Metadata) :
           /\ c.field = FieldReference(f) /\ IsValue(c.value)
           /\ \/ c.lookup = "exact" /\ c.value.kind = KindOf(f.kind)
              \/ c.lookup = "isnull" /\ c.value.kind = "boolean"
              \/ c.lookup = "icontains" /\ f.kind = "char" /\ c.value.kind = "string"
    BY <1>1 DEF Askable
  <1>3. PICK v : v = Models[x][c.field.name]
    OBVIOUS
  <1>4. IsValue(v) /\ (v.kind = KindOf(f.kind) \/ v = Null)
    BY <1>2, <1>3, TableAssumption DEF FieldReference
  <1>5. Cell(Models[x], q.where[i].column) = Stored(v) /\ q.where[i].test = Test(c)
    <2>1. q.where[i] = [column |-> c.field.column, test |-> Test(c)]
      BY <1>1 DEF Statement
    <2> QED
      BY <1>2, <1>3, <2>1, CellOfField
  <1>6. PICK argument : argument = q.arguments[Position(q, i)]
    OBVIOUS
  <1>7. Argument(c) # {} => Argument(c) = {argument}
    <2>1. ArgumentsPlaced(cs, N, limit, q)
      BY StatementArguments
    <2> QED
      BY <1>1, <1>6, <2>1 DEF ArgumentsPlaced
  <1>8. Passes(Models[x], q, i) =
          CASE Test(c) = "null" -> Stored(v).kind = "null"
            [] Test(c) = "not null" -> Stored(v).kind # "null"
            [] Test(c) = "equal" -> Stored(v) = Stored(argument) /\ Stored(v).kind # "null"
            [] Test(c) = "like" -> Stored(v).kind = "string" /\ Like(Stored(argument).text, Stored(v).text)
    BY <1>5, <1>6 DEF Passes, Position
  <1>9. Satisfies(Models[x], cs[i]) =
          CASE c.lookup = "exact" -> v = c.value
            [] c.lookup = "isnull" -> (v.kind = "null") = c.value.boolean
            [] c.lookup = "icontains" ->
                  /\ v.kind = "string"
                  /\ \E k \in 0..Len(v.text) : IsPrefix(FoldText(c.value.text), FoldText(SubSeq(v.text, k + 1, Len(v.text))))
    BY <1>1, <1>3 DEF Satisfies
  <1>a. Askable(c)
    BY <1>1
  <1>10. CASE c.lookup = "exact"
    <2>1. Test(c) = "equal" /\ argument = c.value
      <3>1. Test(c) = "equal" /\ Argument(c) = {c.value}
        BY <1>a, <1>10, AskableCompiles
      <3> QED
        BY <1>7, <3>1
    <2>2. Passes(Models[x], q, i) <=> Stored(v) = Stored(c.value) /\ Stored(v).kind # "null"
      BY <1>8, <2>1
    <2>3. Satisfies(Models[x], cs[i]) <=> v = c.value
      BY <1>9, <1>10
    <2>4. c.value.kind = KindOf(f.kind) /\ c.value.kind # "null"
      BY <1>2, <1>10 DEF KindOf
    <2>5. ASSUME Stored(v) = Stored(c.value), Stored(v).kind # "null" PROVE v = c.value
      <3>1. v.kind # "null" /\ v # Null
        BY <1>4, <2>5, StoredValue
      <3>2. v.kind = c.value.kind
        BY <1>4, <2>4, <3>1
      <3> QED
        BY <1>2, <1>4, <2>5, <3>2, StoredTellsApart
    <2>6. v = c.value => Stored(v).kind # "null"
      BY <1>4, <2>4, StoredValue
    <2> QED
      BY <2>2, <2>3, <2>5, <2>6
  <1>11. CASE c.lookup = "isnull"
    <2>1. Test(c) = (IF c.value.boolean THEN "null" ELSE "not null")
      BY <1>a, <1>11, AskableCompiles
    <2>2. c.value.boolean \in BOOLEAN
      BY <1>2, <1>11, StoredValue
    <2>3. Stored(v).kind = "null" <=> v.kind = "null"
      BY <1>4, StoredValue
    <2>4. Satisfies(Models[x], cs[i]) = ((v.kind = "null") = c.value.boolean)
      BY <1>9, <1>11
    <2>5. CASE c.value.boolean = TRUE
      <3>1. Test(c) = "null"
        BY <2>1, <2>5
      <3>2. Passes(Models[x], q, i) <=> Stored(v).kind = "null"
        BY <1>8, <3>1
      <3> QED
        BY <2>3, <2>4, <2>5, <3>2
    <2>6. CASE c.value.boolean = FALSE
      <3>1. Test(c) = "not null"
        BY <2>1, <2>6
      <3>2. Passes(Models[x], q, i) <=> Stored(v).kind # "null"
        BY <1>8, <3>1
      <3> QED
        BY <2>3, <2>4, <2>6, <3>2
    <2> QED
      BY <2>2, <2>5, <2>6
  <1>12. CASE c.lookup = "icontains"
    <2>1. PICK p : p = <<"%">> \o EscapeLike(c.value.text) \o <<"%">>
      OBVIOUS
    <2>2. Test(c) = "like" /\ argument = String(p)
      <3>1. Test(c) = "like" /\ Argument(c) = {String(p)}
        BY <1>a, <1>12, <2>1, AskableCompiles
      <3> QED
        BY <1>7, <3>1
    <2>3. Stored(argument).text = p
      BY <2>2 DEF Stored, String, Null
    <2>4. Passes(Models[x], q, i) <=> Stored(v).kind = "string" /\ Like(p, Stored(v).text)
      BY <1>8, <2>2, <2>3
    <2>5. Satisfies(Models[x], cs[i]) <=>
             /\ v.kind = "string"
             /\ \E k \in 0..Len(v.text) : IsPrefix(FoldText(c.value.text), FoldText(SubSeq(v.text, k + 1, Len(v.text))))
      BY <1>9, <1>12
    <2>6. Stored(v).kind = "string" <=> v.kind = "string"
      BY <1>4, StoredValue
    <2>7. ASSUME v.kind = "string"
          PROVE  Like(p, Stored(v).text) <=>
                   \E k \in 0..Len(v.text) : IsPrefix(FoldText(c.value.text), FoldText(SubSeq(v.text, k + 1, Len(v.text))))
      <3>1. Stored(v) = v
        BY <2>7 DEF Stored
      <3>2. v.text \in Seq(ToSet(v.text)) /\ c.value.text \in Seq(ToSet(c.value.text))
        BY <1>2, <1>4, <1>12, <2>7, StoredValue
      <3> QED
        BY <2>1, <3>1, <3>2, LikeMeans
    <2> QED
      BY <2>4, <2>5, <2>6, <2>7
  <1> QED
    BY <1>2, <1>10, <1>11, <1>12

-------------------------------------------------------------------------------
\* Answering: order and limit.

\* The parts of RowsMeant.
Wanted(m) == {x \in DOMAIN Models : \A i \in DOMAIN m.conditions : Satisfies(Models[x], m.conditions[i])}
Keys(m, x) == [k \in DOMAIN m.orderings |-> Stored(Models[x][m.orderings[k].field.name])]
Before(m, x, y) == Sorts(Keys(m, x), Keys(m, y), m.orderings)
InOrder(m, rows) == \A i, j \in DOMAIN rows : i < j => ~Before(m, rows[j], rows[i])
AnswerMeant(m, rows) ==
    /\ IsInjective(rows) /\ ToSet(rows) \subseteq Wanted(m)
    /\ InOrder(m, rows)
    /\ \A x \in Wanted(m) \ ToSet(rows) :
          /\ m.limit = {Len(rows)}
          /\ \A i \in DOMAIN rows : ~Before(m, x, rows[i])

\* What the calls that made a QuerySet may mean.
Asks(m) ==
    /\ \E N \in Nat : DOMAIN m.conditions = 1..N
    /\ \A i \in DOMAIN m.conditions : Askable(m.conditions[i])
    /\ \A i \in DOMAIN m.orderings : Sortable(m.orderings[i])
    /\ IsLimit(m.limit)

\* Every order of a finite set lists each of its elements once.
LEMMA Arrangements ==
    ASSUME NEW S, IsFiniteSet(S), NEW s \in SetToSeqs(S)
    PROVE  /\ s \in Seq(S)
           /\ \A i, j \in 1..Len(s) : s[i] = s[j] => i = j
           /\ \A x \in S : \E i \in 1..Len(s) : s[i] = x
  <1>1. PICK n : n = Cardinality(S)
    OBVIOUS
  <1>2. n \in Nat
    BY <1>1, FS_CardinalityType
  <1>3. s \in [1..n -> S] /\ \A i, j \in 1..n : i # j => s[i] # s[j]
    BY <1>1 DEF SetToSeqs
  <1>4. Len(s) = n
    BY <1>2, <1>3
  <1>5. s \in Injection(1..n, S)
    BY <1>3 DEF Injection, IsInjective
  <1>6. Cardinality(1..n) = n
    BY <1>2, FS_Interval
  <1>7. s \in Surjection(1..n, S)
    BY <1>1, <1>5, <1>6, FS_Injection
  <1>8. s \in Seq(S)
    BY <1>2, <1>3
  <1> QED
    BY <1>3, <1>4, <1>7, <1>8 DEF Surjection

\* A sorted arrangement, cut after its first k elements.
LEMMA FirstRows ==
    ASSUME NEW m, NEW s \in SetToSeqs(Wanted(m)), IsFiniteSet(Wanted(m)), InOrder(m, s),
           NEW k \in Nat, k <= Len(s), k = Len(s) \/ m.limit = {k}
    PROVE  AnswerMeant(m, SubSeq(s, 1, k))
  <1>1. PICK W : W = Wanted(m)
    OBVIOUS
  <1>2. /\ \A i, j \in 1..Len(s) : s[i] = s[j] => i = j
        /\ \A x \in W : \E i \in 1..Len(s) : s[i] = x
    BY <1>1, Arrangements
  <1>3. s \in Seq(W)
    BY <1>1, Arrangements
  <1>n. PICK n : n = Len(s)
    OBVIOUS
  <1>t. n \in Nat /\ DOMAIN s = 1..n
    BY <1>3, <1>n
  <1>k. k \in Nat /\ k <= n
    BY <1>t, <1>n
  <1>r. PICK rows : rows = SubSeq(s, 1, k)
    OBVIOUS
  <1>5. \A i \in 1..k : i \in 1..n
    BY <1>t, <1>k
  <1>4. Len(rows) = k /\ DOMAIN rows = 1..k /\ \A i \in 1..k : rows[i] = s[i] /\ s[i] \in W
    <2>1. \A i \in 1..k : s[i] \in W
      BY <1>3, <1>5, <1>n
    <2>2. rows \in Seq(W) /\ Len(rows) = k /\ \A i \in 1..k : rows[i] = s[i]
      BY <1>r, <2>1, SubSeqProperties
    <2>3. DOMAIN rows = 1..k
      BY <2>2
    <2> QED
      BY <2>1, <2>2, <2>3
  <1>6. IsInjective(rows)
    BY <1>2, <1>n, <1>4, <1>5 DEF IsInjective
  <1>7. ToSet(rows) \subseteq W
    BY <1>4, <1>5 DEF ToSet
  <1>8. InOrder(m, rows)
    BY <1>t, <1>4, <1>5 DEF InOrder
  <1>9. ASSUME NEW x \in W \ ToSet(rows)
        PROVE  m.limit = {Len(rows)} /\ \A i \in DOMAIN rows : ~Before(m, x, rows[i])
    <2>1. PICK j \in 1..n : s[j] = x
      BY <1>2, <1>n
    <2>2. j \notin 1..k
      BY <1>4, <2>1 DEF ToSet
    <2>3. j \in 1..n /\ j > k /\ k # n
      BY <1>t, <1>k, <2>2
    <2>4. m.limit = {Len(rows)}
      BY <1>4, <1>n, <2>3
    <2>5. ASSUME NEW i \in 1..k PROVE ~Before(m, x, rows[i])
      <3>1. i \in DOMAIN s /\ j \in DOMAIN s /\ i < j
        BY <1>t, <1>k, <1>5, <2>3
      <3> QED
        BY <1>4, <2>1, <3>1 DEF InOrder
    <2> QED
      BY <1>4, <2>4, <2>5
  <1> QED
    BY <1>1, <1>r, <1>6, <1>7, <1>8, <1>9 DEF AnswerMeant

\* SQLite answers an asked statement with the rows that were asked for.
LEMMA ExecuteMeans ==
    ASSUME NEW m, Asks(m), NEW rows \in Execute(Statement(m.conditions, m.orderings, m.limit))
    PROVE  AnswerMeant(m, rows)
  <1>1. PICK N \in Nat : DOMAIN m.conditions = 1..N
    BY DEF Asks
  <1>2. PICK q : q = Statement(m.conditions, m.orderings, m.limit)
    OBVIOUS
  <1>3. ASSUME NEW x \in DOMAIN Models, NEW i \in 1..N
        PROVE  Passes(Models[x], q, i) <=> Satisfies(Models[x], m.conditions[i])
    BY <1>1, <1>2, PassesMeans DEF Asks
  <1>4. DOMAIN q.where = 1..N
    BY <1>1, <1>2 DEF Statement
  <1>5. {x \in DOMAIN Models : \A i \in DOMAIN q.where : Passes(Models[x], q, i)} = Wanted(m)
    BY <1>1, <1>3, <1>4 DEF Wanted
  <1>6. IsFiniteSet(Wanted(m)) /\ Wanted(m) \subseteq DOMAIN Models
    BY TableAssumption, FS_Subset DEF Wanted
  <1>7. /\ DOMAIN q.order = DOMAIN m.orderings
        /\ \A k \in DOMAIN m.orderings : /\ q.order[k].column = m.orderings[k].field.column
                                         /\ q.order[k].direction = m.orderings[k].direction
    BY <1>2 DEF Statement
  <1>8. ASSUME NEW x \in Wanted(m)
        PROVE  [k \in DOMAIN q.order |-> Cell(Models[x], q.order[k].column)] = Keys(m, x)
    <2>1. ASSUME NEW k \in DOMAIN m.orderings
          PROVE  Cell(Models[x], q.order[k].column) = Stored(Models[x][m.orderings[k].field.name])
      <3>1. PICK f \in ToSet(Metadata) : m.orderings[k].field = FieldReference(f)
        BY DEF Asks, Sortable
      <3>2. q.order[k].column = FieldReference(f).column
        BY <1>7, <3>1
      <3> QED
        BY <1>6, <3>1, <3>2, CellOfField
    <2> QED
      BY <1>7, <2>1 DEF Keys
  <1>9. \A vs, ws : Sorts(vs, ws, q.order) <=> Sorts(vs, ws, m.orderings)
    <2>1. \A k \in DOMAIN m.orderings : q.order[k].direction = m.orderings[k].direction
      BY <1>7
    <2> QED
      BY <1>7, <2>1 DEF Sorts
  <1> DEFINE values(x) == [k \in DOMAIN q.order |-> Cell(Models[x], q.order[k].column)]
             sorted == {s \in SetToSeqs(Wanted(m)) : \A i, j \in DOMAIN s : i < j => ~Sorts(values(s[j]), values(s[i]), q.order)}
             limit == Last(q.arguments).integer
  <1>10. rows \in (IF q.limited THEN {SubSeq(s, 1, IF Len(s) < limit THEN Len(s) ELSE limit) : s \in sorted} ELSE sorted)
    <2> DEFINE all == {x \in DOMAIN Models : \A i \in DOMAIN q.where : Passes(Models[x], q, i)}
               ordered == {s \in SetToSeqs(all) : \A i, j \in DOMAIN s : i < j => ~Sorts(values(s[j]), values(s[i]), q.order)}
    <2>1. Execute(q) = IF q.limited THEN {SubSeq(s, 1, IF Len(s) < limit THEN Len(s) ELSE limit) : s \in ordered} ELSE ordered
      BY DEF Execute
    <2>2. all = Wanted(m)
      BY <1>5
    <2> HIDE DEF all
    <2>3. ordered = sorted
      BY <2>2
    <2> HIDE DEF ordered, sorted
    <2> QED
      BY <1>2, <2>1, <2>3
  <1>11. ASSUME NEW s \in sorted
         PROVE  /\ s \in SetToSeqs(Wanted(m)) /\ Len(s) \in Nat /\ s = SubSeq(s, 1, Len(s))
                /\ InOrder(m, s)
    <2>1. s \in SetToSeqs(Wanted(m))
      OBVIOUS
    <2>3. s \in Seq(Wanted(m))
      BY <1>6, <2>1, Arrangements
    <2>2. Len(s) \in Nat /\ \A i \in DOMAIN s : s[i] \in Wanted(m)
      BY <2>3
    <2>4. \A i \in DOMAIN s : values(s[i]) = Keys(m, s[i])
      BY <1>8, <2>2
    <2>5. \A i, j \in DOMAIN s : i < j => ~Sorts(values(s[j]), values(s[i]), q.order)
      OBVIOUS
    <2> HIDE DEF values, sorted
    <2>6. InOrder(m, s)
      BY <1>9, <2>4, <2>5 DEF Before, InOrder
    <2>7. s = SubSeq(s, 1, Len(s))
      BY <2>3
    <2> QED
      BY <2>1, <2>2, <2>6, <2>7
  <1>12. q.limited <=> m.limit # {}
    BY <1>2 DEF Statement
  <1>13. ArgumentsPlaced(m.conditions, N, m.limit, q)
    BY <1>1, <1>2, StatementArguments DEF Asks
  <1>14. CASE m.limit = {}
    <2> HIDE DEF sorted
    <2>1. rows \in sorted
      BY <1>10, <1>12, <1>14
    <2>2. /\ rows \in SetToSeqs(Wanted(m)) /\ Len(rows) \in Nat /\ Len(rows) <= Len(rows) /\ rows = SubSeq(rows, 1, Len(rows))
          /\ InOrder(m, rows)
      BY <1>11, <2>1
    <2>3. AnswerMeant(m, SubSeq(rows, 1, Len(rows)))
      BY <1>6, <2>2, FirstRows
    <2> QED
      BY <2>2, <2>3
  <1>15. ASSUME NEW n \in Nat, m.limit = {n} PROVE AnswerMeant(m, rows)
    <2>1. limit = n
      BY <1>13, <1>15 DEF ArgumentsPlaced, Integer, Null
    <2> HIDE DEF sorted, limit
    <2>2. PICK s \in sorted : rows = SubSeq(s, 1, IF Len(s) < n THEN Len(s) ELSE n)
      BY <1>10, <1>12, <1>15, <2>1
    <2>3. PICK k : k = IF Len(s) < n THEN Len(s) ELSE n
      OBVIOUS
    <2>4. Len(s) \in Nat
      BY <1>11
    <2>5. k \in Nat /\ k <= Len(s) /\ (k = Len(s) \/ m.limit = {k})
      BY <1>15, <2>3, <2>4
    <2> QED
      BY <1>6, <1>11, <2>2, <2>3, <2>5, FirstRows
  <1> QED
    BY <1>14, <1>15 DEF Asks, IsLimit

-------------------------------------------------------------------------------
\* Every QuerySet asks for what the compiler takes, and is answered.

\* Every QuerySet asks for what the compiler takes.
Asked == \A q \in 1..Len(querysets) : Asks(querysets[q].meant)

\* Its last answer is what it asked for.
Answered ==
    answer.of # 0 =>
        /\ (answer.rows = {}) <=> querysets[answer.of].meant.failed
        /\ \A rows \in answer.rows : AnswerMeant(querysets[answer.of].meant, rows)

\* A generated field refers to a field of its own type.
LEMMA TypedReference ==
    ASSUME NEW type \in Types, NEW f, NEW r \in TypedField(type, f)
    PROVE  /\ r = FieldReference(f)
           /\ type = "IntegerField" => KindOf(f.kind) = "integer"
           /\ type \in {"StringField", "NullableStringField"} => f.kind = "char" /\ KindOf(f.kind) = "string"
           /\ type = "BooleanField" => KindOf(f.kind) = "boolean"
  BY DEF TypedField, Types, KindOf

\* A predicate that was made says something the compiler takes.
LEMMA PredicateAsks ==
    ASSUME NEW p, IsPredicate(p), p # {}
    PROVE  Askable(The(p))
  <1>1. PICK c : c = The(p)
    OBVIOUS
  <1>2. c \in p
    BY <1>1 DEF The
  <1>3. PICK f \in ToSet(Metadata) :
           \/ p = ParseDynamic(f.name, c.lookup, c.value, ToSet(Metadata) \X Lookups)
           \/ \E type \in Types : Offers(type, c.lookup, c.value) /\ p = TypedPredicate(type, f, c.lookup, c.value)
    BY <1>1 DEF IsPredicate
  <1>4. IsValue(c.value)
    BY <1>1 DEF IsPredicate
  <1>5. CASE p = ParseDynamic(f.name, c.lookup, c.value, ToSet(Metadata) \X Lookups)
    <2>1. PICK g \in ToSet(Metadata) :
             /\ SupportedLookup(g, c.lookup)
             /\ \E v \in DynamicValue(g, c.lookup, c.value) : c = Condition(FieldReference(g), c.lookup, v)
      BY <1>2, <1>5 DEF ParseDynamic
    <2>2. c.value.kind = IF c.lookup = "isnull" THEN "boolean" ELSE KindOf(g.kind)
      BY <2>1 DEF DynamicValue
    <2>3. c.field = FieldReference(g)
      BY <2>1 DEF Condition
    <2>4. \/ c.lookup = "exact" /\ c.value.kind = KindOf(g.kind)
          \/ c.lookup = "isnull" /\ c.value.kind = "boolean"
          \/ c.lookup = "icontains" /\ g.kind = "char" /\ c.value.kind = "string"
      BY <2>1, <2>2 DEF SupportedLookup, KindOf
    <2> QED
      BY <1>1, <1>4, <2>3, <2>4 DEF Askable
  <1>6. ASSUME NEW type \in Types, Offers(type, c.lookup, c.value), p = TypedPredicate(type, f, c.lookup, c.value)
        PROVE  Askable(c)
    <2>1. PICK r \in TypedField(type, f) : c = Condition(r, c.lookup, c.value)
      BY <1>2, <1>6 DEF TypedPredicate
    <2>2. c.field = FieldReference(f)
      BY <2>1, TypedReference DEF Condition
    <2>3. \/ c.lookup = "exact" /\ c.value.kind = KindOf(f.kind)
          \/ c.lookup = "isnull" /\ c.value.kind = "boolean"
          \/ c.lookup = "icontains" /\ f.kind = "char" /\ c.value.kind = "string"
      BY <1>6, TypedReference DEF Offers, Types
    <2> QED
      BY <1>4, <2>2, <2>3 DEF Askable
  <1> QED
    BY <1>1, <1>3, <1>5, <1>6

\* So does an ordering.
LEMMA OrderingAsks ==
    ASSUME NEW p, IsOrdering(p), p # {}
    PROVE  Sortable(The(p))
  <1>1. PICK o : o = The(p)
    OBVIOUS
  <1>2. o \in p
    BY <1>1 DEF The
  <1>3. PICK f \in ToSet(Metadata), type \in Types, direction \in {"asc", "desc"} : p = TypedOrdering(type, f, direction)
    BY DEF IsOrdering
  <1>4. PICK r \in TypedField(type, f) : o = Ordering(r, direction)
    BY <1>2, <1>3 DEF TypedOrdering
  <1>5. o.field = FieldReference(f) /\ o.direction = direction
    BY <1>4, TypedReference DEF Ordering
  <1> QED
    BY <1>1, <1>5 DEF Sortable

\* A list of predicates.
LEMMA PredicatesAsk ==
    ASSUME vocabulary \in Vocabularies, NEW xs \in vocabulary.filters, ~Failing(xs)
    PROVE  \A i \in DOMAIN Values(xs) : Askable(Values(xs)[i])
  <1>1. \A p \in ToSet(xs) : IsPredicate(p)
    BY TableAssumption
  <1>2. \A i \in DOMAIN xs : IsPredicate(xs[i]) /\ xs[i] # {}
    BY <1>1 DEF ToSet, Failing
  <1> QED
    BY <1>2, PredicateAsks DEF Values

\* A list of orderings.
LEMMA OrderingsAsk ==
    ASSUME vocabulary \in Vocabularies, NEW xs \in vocabulary.orders, ~Failing(xs)
    PROVE  \A i \in DOMAIN Values(xs) : Sortable(Values(xs)[i])
  <1>1. \A p \in ToSet(xs) : IsOrdering(p)
    BY TableAssumption
  <1>2. \A i \in DOMAIN xs : IsOrdering(xs[i]) /\ xs[i] # {}
    BY <1>1 DEF ToSet, Failing
  <1> QED
    BY <1>2, OrderingAsks DEF Values

\* A derived QuerySet asks for what its meaning says.
LEMMA DeriveAsks ==
    ASSUME Independent, Asked, NEW new, NEW qs \in QuerySets, Derive(new, qs), Asks(qs.meant)
    PROVE  Asked' /\ answer'.of = 0
  <1>1. PICK derived : derived = [qs EXCEPT !.plan = new.plan]
    OBVIOUS
  <1>2. derived.meant = qs.meant
    BY <1>1 DEF QuerySets
  <1>3. querysets' = Append(querysets, derived) /\ answer' = NoAnswer
    BY <1>1 DEF Derive
  <1>4. PICK n \in Nat : n = Len(querysets)
    BY DEF Independent
  <1>5. Len(querysets') = n + 1 /\ querysets'[n + 1] = derived /\ \A q \in 1..n : querysets'[q] = querysets[q]
    BY <1>3, <1>4 DEF Independent
  <1>6. ASSUME NEW q \in 1..Len(querysets') PROVE Asks(querysets'[q].meant)
    BY <1>2, <1>4, <1>5 DEF Asked
  <1> QED
    BY <1>3, <1>6 DEF Asked, NoAnswer

\* Filter adds conditions.
LEMMA FilterAsks ==
    ASSUME Independent, Asked, Filter
    PROVE  Asked' /\ answer'.of = 0
  <1>0. PICK q \in DOMAIN querysets, predicates \in vocabulary.filters, spare \in 0..MaxSpare :
            \E qs, meant :
              /\ qs = querysets[q]
              /\ meant = IF Failing(predicates) THEN [qs.meant EXCEPT !.failed = TRUE]
                         ELSE [qs.meant EXCEPT !.conditions = @ \o Values(predicates)]
              /\ IF qs.failed THEN Derive(Unchanged(qs), [qs EXCEPT !.meant = meant])
                 ELSE IF Failing(predicates) THEN Derive(Unchanged(qs), [qs EXCEPT !.failed = TRUE, !.meant = meant])
                 ELSE Derive(WithConditions(heap, qs.plan, Values(predicates), spare), [qs EXCEPT !.meant = meant])
    BY DEF Filter
  <1>1. PICK qs, meant :
            /\ qs = querysets[q]
            /\ meant = IF Failing(predicates) THEN [qs.meant EXCEPT !.failed = TRUE]
                       ELSE [qs.meant EXCEPT !.conditions = @ \o Values(predicates)]
            /\ IF qs.failed THEN Derive(Unchanged(qs), [qs EXCEPT !.meant = meant])
               ELSE IF Failing(predicates) THEN Derive(Unchanged(qs), [qs EXCEPT !.failed = TRUE, !.meant = meant])
               ELSE Derive(WithConditions(heap, qs.plan, Values(predicates), spare), [qs EXCEPT !.meant = meant])
    BY <1>0
  <1>2. /\ q \in 1..Len(querysets) /\ qs \in QuerySets
        /\ qs.plan \in Plans /\ qs.meant \in Meanings /\ qs.failed \in BOOLEAN
        /\ vocabulary \in Vocabularies
    BY <1>1, AtIndependent
  <1>3. Asks(qs.meant)
    BY <1>1, <1>2 DEF Asked
  <1>4. PICK cs \in Seq(Items) : cs = Values(predicates)
    BY <1>2, ValuesOfArguments
  <1>5. meant \in Meanings /\ Asks(meant)
    <2>1. CASE Failing(predicates)
      <3>1. meant = [qs.meant EXCEPT !.failed = TRUE]
        BY <1>1, <2>1
      <3>2. /\ meant \in Meanings /\ meant.conditions = qs.meant.conditions
            /\ meant.orderings = qs.meant.orderings /\ meant.limit = qs.meant.limit
        BY <1>2, <3>1 DEF Meanings
      <3> QED
        BY <1>3, <3>2 DEF Asks
    <2>2. CASE ~Failing(predicates)
      <3>1. PICK old \in Seq(Items) : old = qs.meant.conditions
        BY <1>2 DEF Meanings
      <3>2. PICK all : all = old \o cs
        OBVIOUS
      <3>3. /\ all \in Seq(Items)
            /\ \A i \in DOMAIN all : (i \in DOMAIN old /\ all[i] = old[i]) \/ \E j \in DOMAIN cs : all[i] = cs[j]
        <4>1. all \in Seq(Items) /\ Len(all) = Len(old) + Len(cs)
          BY <3>2
        <4>2. ASSUME NEW i \in DOMAIN all PROVE (i \in DOMAIN old /\ all[i] = old[i]) \/ \E j \in DOMAIN cs : all[i] = cs[j]
          <5>1. CASE i <= Len(old)
            BY <3>2, <4>1, <5>1
          <5>2. CASE i > Len(old)
            <6>1. i - Len(old) \in DOMAIN cs /\ all[i] = cs[i - Len(old)]
              BY <3>2, <4>1, <5>2
            <6> QED
              BY <6>1
          <5> QED
            BY <4>1, <5>1, <5>2
        <4> QED
          BY <4>1, <4>2
      <3>4. \A j \in DOMAIN cs : Askable(cs[j])
        BY <1>2, <1>4, <2>2, PredicatesAsk
      <3>5. \A i \in DOMAIN all : Askable(all[i])
        BY <1>3, <3>1, <3>3, <3>4 DEF Asks
      <3>6. meant = [qs.meant EXCEPT !.conditions = all]
        BY <1>1, <1>4, <2>2, <3>1, <3>2
      <3>7. /\ meant \in Meanings /\ meant.conditions = all
            /\ meant.orderings = qs.meant.orderings /\ meant.limit = qs.meant.limit
        BY <1>2, <3>3, <3>6 DEF Meanings
      <3>8. Len(all) \in Nat /\ DOMAIN all = 1..Len(all)
        BY <3>3
      <3> QED
        BY <1>3, <3>5, <3>7, <3>8 DEF Asks
    <2> QED
      BY <2>1, <2>2
  <1>6. PICK base \in QuerySets : /\ base.meant = meant
                                  /\ base = [qs EXCEPT !.meant = meant] \/ base = [qs EXCEPT !.failed = TRUE, !.meant = meant]
                                  /\ \E new : Derive(new, base)
    <2>1. /\ [qs EXCEPT !.meant = meant] \in QuerySets /\ [qs EXCEPT !.meant = meant].meant = meant
          /\ [qs EXCEPT !.failed = TRUE, !.meant = meant] \in QuerySets
          /\ [qs EXCEPT !.failed = TRUE, !.meant = meant].meant = meant
      BY <1>2, <1>5 DEF QuerySets
    <2> QED
      BY <1>1, <2>1
  <1> QED
    BY <1>5, <1>6, DeriveAsks

\* OrderBy replaces the orderings.
LEMMA OrderByAsks ==
    ASSUME Independent, Asked, OrderBy
    PROVE  Asked' /\ answer'.of = 0
  <1>0. PICK q \in DOMAIN querysets, orderings \in vocabulary.orders, spare \in 0..MaxSpare :
            \E qs, meant :
              /\ qs = querysets[q]
              /\ meant = IF Failing(orderings) THEN [qs.meant EXCEPT !.failed = TRUE]
                         ELSE [qs.meant EXCEPT !.orderings = Values(orderings)]
              /\ IF qs.failed THEN Derive(Unchanged(qs), [qs EXCEPT !.meant = meant])
                 ELSE IF Failing(orderings) THEN Derive(Unchanged(qs), [qs EXCEPT !.failed = TRUE, !.meant = meant])
                 ELSE Derive(WithOrderings(heap, qs.plan, Values(orderings), spare), [qs EXCEPT !.meant = meant])
    BY DEF OrderBy
  <1>1. PICK qs, meant :
            /\ qs = querysets[q]
            /\ meant = IF Failing(orderings) THEN [qs.meant EXCEPT !.failed = TRUE]
                       ELSE [qs.meant EXCEPT !.orderings = Values(orderings)]
            /\ IF qs.failed THEN Derive(Unchanged(qs), [qs EXCEPT !.meant = meant])
               ELSE IF Failing(orderings) THEN Derive(Unchanged(qs), [qs EXCEPT !.failed = TRUE, !.meant = meant])
               ELSE Derive(WithOrderings(heap, qs.plan, Values(orderings), spare), [qs EXCEPT !.meant = meant])
    BY <1>0
  <1>2. /\ q \in 1..Len(querysets) /\ qs \in QuerySets
        /\ qs.plan \in Plans /\ qs.meant \in Meanings /\ qs.failed \in BOOLEAN
        /\ vocabulary \in Vocabularies
    BY <1>1, AtIndependent
  <1>3. Asks(qs.meant)
    BY <1>1, <1>2 DEF Asked
  <1>4. PICK os \in Seq(Items) : os = Values(orderings)
    BY <1>2, ValuesOfArguments
  <1>5. meant \in Meanings /\ Asks(meant)
    <2>1. CASE Failing(orderings)
      <3>1. meant = [qs.meant EXCEPT !.failed = TRUE]
        BY <1>1, <2>1
      <3>2. /\ meant \in Meanings /\ meant.conditions = qs.meant.conditions
            /\ meant.orderings = qs.meant.orderings /\ meant.limit = qs.meant.limit
        BY <1>2, <3>1 DEF Meanings
      <3> QED
        BY <1>3, <3>2 DEF Asks
    <2>2. CASE ~Failing(orderings)
      <3>1. meant = [qs.meant EXCEPT !.orderings = os]
        BY <1>1, <1>4, <2>2
      <3>2. /\ meant \in Meanings /\ meant.conditions = qs.meant.conditions
            /\ meant.orderings = os /\ meant.limit = qs.meant.limit
        BY <1>2, <3>1 DEF Meanings
      <3>3. \A i \in DOMAIN os : Sortable(os[i])
        BY <1>2, <1>4, <2>2, OrderingsAsk
      <3> QED
        BY <1>3, <3>2, <3>3 DEF Asks
    <2> QED
      BY <2>1, <2>2
  <1>6. PICK base \in QuerySets : base.meant = meant /\ \E new : Derive(new, base)
    <2>1. /\ [qs EXCEPT !.meant = meant] \in QuerySets /\ [qs EXCEPT !.meant = meant].meant = meant
          /\ [qs EXCEPT !.failed = TRUE, !.meant = meant] \in QuerySets
          /\ [qs EXCEPT !.failed = TRUE, !.meant = meant].meant = meant
      BY <1>2, <1>5 DEF QuerySets
    <2> QED
      BY <1>1, <2>1
  <1> QED
    BY <1>5, <1>6, DeriveAsks

\* Limit replaces the limit.
LEMMA LimitAsks ==
    ASSUME Independent, Asked, Limit
    PROVE  Asked' /\ answer'.of = 0
  <1>1. PICK q \in DOMAIN querysets, n \in Limits, spare \in 0..MaxSpare :
           /\ n >= 0
           /\ Derive(WithLimit(heap, querysets[q].plan, n, spare), [querysets[q] EXCEPT !.meant.limit = {n}])
    BY DEF Limit
  <1>2. PICK qs : qs = querysets[q]
    OBVIOUS
  <1>3. /\ q \in 1..Len(querysets) /\ qs \in QuerySets
        /\ qs.plan \in Plans /\ qs.meant \in Meanings /\ qs.failed \in BOOLEAN
    BY <1>2, AtIndependent
  <1>4. PICK meant \in Meanings : meant = [qs.meant EXCEPT !.limit = {n}]
    BY <1>3 DEF Meanings
  <1>5. /\ meant.conditions = qs.meant.conditions /\ meant.orderings = qs.meant.orderings
        /\ meant.limit = {n}
    BY <1>3, <1>4 DEF Meanings
  <1>6. n \in Nat
    BY <1>1, TableAssumption
  <1>7. Asks(qs.meant)
    BY <1>2, <1>3 DEF Asked
  <1>8. Asks(meant)
    BY <1>5, <1>6, <1>7 DEF Asks, IsLimit
  <1>9. PICK base : base = [qs EXCEPT !.meant = meant]
    OBVIOUS
  <1>10. base \in QuerySets /\ base.meant = meant
    BY <1>3, <1>9 DEF QuerySets
  <1>11. base = [qs EXCEPT !.meant.limit = {n}]
    BY <1>4, <1>9
  <1> QED
    BY <1>1, <1>2, <1>8, <1>10, <1>11, DeriveAsks

\* Fresh copies a QuerySet.
LEMMA FreshAsks ==
    ASSUME Independent, Asked, Fresh
    PROVE  Asked' /\ answer'.of = 0
  <1>1. PICK q \in DOMAIN querysets : Derive(Unchanged(querysets[q]), querysets[q])
    BY DEF Fresh
  <1>2. q \in 1..Len(querysets) /\ querysets[q] \in QuerySets /\ Asks(querysets[q].meant)
    BY AtIndependent DEF Asked
  <1> QED
    BY <1>1, <1>2, DeriveAsks

\* The question of a QuerySet that did not fail is compiled as it was meant.
LEMMA EvaluateAnswers ==
    ASSUME Independent, Asked, Evaluate
    PROVE  Answered'
  <1>1. PICK q \in DOMAIN querysets :
           \E compiled :
             /\ compiled = Compile(Elements(heap, querysets[q].plan.conditions),
                                   Elements(heap, querysets[q].plan.orderings), querysets[q].plan.limit)
             /\ IF querysets[q].failed \/ compiled = {} THEN answer' = [of |-> q, rows |-> {}]
                ELSE \E rows \in Execute(The(compiled)) : answer' = [of |-> q, rows |-> {rows}]
             /\ UNCHANGED querysets
    BY DEF Evaluate
  <1>2. PICK qs : qs = querysets[q]
    OBVIOUS
  <1>3. PICK compiled :
           /\ compiled = Compile(Elements(heap, qs.plan.conditions), Elements(heap, qs.plan.orderings), qs.plan.limit)
           /\ IF qs.failed \/ compiled = {} THEN answer' = [of |-> q, rows |-> {}]
              ELSE \E rows \in Execute(The(compiled)) : answer' = [of |-> q, rows |-> {rows}]
           /\ UNCHANGED querysets
    BY <1>1, <1>2
  <1>4. q \in 1..Len(querysets) /\ Means(heap, qs, held) /\ qs.failed \in BOOLEAN
    BY <1>2, AtIndependent
  <1>5. PICK m : m = qs.meant
    OBVIOUS
  <1>6. qs.failed = m.failed /\ Asks(m)
    BY <1>2, <1>4, <1>5 DEF Means, Asked
  <1>7. CASE qs.failed
    <2>1. answer' = [of |-> q, rows |-> {}]
      BY <1>3, <1>7
    <2>2. answer'.rows = {} /\ answer'.of = q
      BY <2>1
    <2>3. querysets'[answer'.of].meant.failed
      BY <1>2, <1>3, <1>5, <1>6, <1>7, <2>2
    <2> QED
      BY <2>2, <2>3 DEF Answered
  <1>8. CASE ~qs.failed
    <2>1. compiled = Compile(m.conditions, m.orderings, m.limit)
      BY <1>3, <1>4, <1>5, <1>8 DEF Means
    <2>2. compiled = {Statement(m.conditions, m.orderings, m.limit)}
      BY <1>6, <2>1, CompileAsked DEF Asks
    <2>3. compiled # {} /\ The(compiled) = Statement(m.conditions, m.orderings, m.limit)
      BY <2>2, TheOne
    <2>4. PICK rows \in Execute(Statement(m.conditions, m.orderings, m.limit)) : answer' = [of |-> q, rows |-> {rows}]
      BY <1>3, <1>8, <2>3
    <2>5. AnswerMeant(m, rows)
      BY <1>6, ExecuteMeans
    <2>6. answer'.of = q /\ answer'.rows = {rows}
      BY <2>4
    <2>7. querysets'[answer'.of].meant = m
      BY <1>2, <1>3, <1>5, <2>6
    <2>8. ~m.failed
      BY <1>6, <1>8
    <2> QED
      BY <2>5, <2>6, <2>7, <2>8 DEF Answered
  <1> QED
    BY <1>4, <1>7, <1>8

\* QuerySet.Using asks for everything.
LEMMA InitAsks == Init => Asked /\ Answered
  <1> SUFFICES ASSUME Init PROVE Asked /\ Answered
    OBVIOUS
  <1>1. querysets = <<Using>> /\ answer.of = 0
    BY DEF Init, NoAnswer
  <1>2. DOMAIN <<>> = 1..0
    OBVIOUS
  <1>3. Asks(Using.meant)
    <2>1. Using.meant.conditions = <<>> /\ Using.meant.orderings = <<>> /\ Using.meant.limit = {}
      BY DEF Using
    <2>2. 0 \in Nat /\ \A i \in DOMAIN <<>> : FALSE
      OBVIOUS
    <2> QED
      BY <1>2, <2>1, <2>2 DEF Asks, IsLimit
  <1> QED
    BY <1>1, <1>3 DEF Asked, Answered

\* No step makes a QuerySet ask for something else, or an answer wrong.
LEMMA NextAsks == Independent /\ Asked /\ Answered /\ [Next]_vars => Asked' /\ Answered'
  <1> SUFFICES ASSUME Independent, Asked, Answered, [Next]_vars PROVE Asked' /\ Answered'
    OBVIOUS
  <1>1. answer'.of = 0 => Answered'
    BY DEF Answered
  <1>2. CASE Filter
    BY <1>1, <1>2, FilterAsks
  <1>3. CASE OrderBy
    BY <1>1, <1>3, OrderByAsks
  <1>4. CASE Limit
    BY <1>1, <1>4, LimitAsks
  <1>5. CASE Fresh
    BY <1>1, <1>5, FreshAsks
  <1>6. CASE Conditions
    <2>1. answer'.of = 0 /\ UNCHANGED querysets
      BY <1>6 DEF Conditions, NoAnswer
    <2> QED
      BY <1>1, <2>1 DEF Asked
  <1>7. CASE CallerWrites
    <2>1. answer'.of = 0 /\ UNCHANGED querysets
      BY <1>7 DEF CallerWrites, NoAnswer
    <2> QED
      BY <1>1, <2>1 DEF Asked
  <1>8. CASE Evaluate
    <2>1. UNCHANGED querysets
      BY <1>8 DEF Evaluate
    <2> QED
      BY <1>8, <2>1, EvaluateAnswers DEF Asked
  <1>9. CASE UNCHANGED vars
    BY <1>9 DEF vars, Asked, Answered
  <1> QED
    BY <1>2, <1>3, <1>4, <1>5, <1>6, <1>7, <1>8, <1>9 DEF Next

\* Evaluation answers the question that was asked: nothing made by the ORM is refused,
\* and the rows are those that satisfy every lookup, in the order asked for, up to the
\* limit; an error anywhere in the past of a QuerySet is an error and no rows (Compile,
\* compileCondition, escapeLike; orm.Filter, OrderBy, Limit).  The length limit of SQLite's
\* LIKE and its treatment of NUL are no part of Like.
THEOREM SpecRowsMeant == Spec => []RowsMeant
  <1>1. Answered => RowsMeant
    <2> SUFFICES ASSUME Answered PROVE RowsMeant
      OBVIOUS
    <2>1. CASE answer.of = 0
      BY <2>1 DEF RowsMeant
    <2>2. CASE answer.of # 0
      <3>1. (answer.rows = {}) <=> querysets[answer.of].meant.failed
        BY <2>2 DEF Answered
      <3>2. \A rows \in answer.rows : AnswerMeant(querysets[answer.of].meant, rows)
        BY <2>2 DEF Answered
      <3> QED
        BY <3>1, <3>2 DEF RowsMeant, AnswerMeant, InOrder, Before, Keys, Wanted
    <2> QED
      BY <2>1, <2>2
  <1>2. Spec => [](Independent /\ Asked /\ Answered)
    BY InitIndependent, InitAsks, NextIndependent, NextAsks, PTL DEF Spec
  <1> QED
    BY <1>1, <1>2, PTL
===============================================================================
