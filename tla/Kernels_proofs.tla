--------------------------- MODULE Kernels_proofs ---------------------------
(***************************************************************************)
(* Theorems about the kernels: the convolving ones for every pair of       *)
(* lengths and every pair of block sizes, the counting ones for every      *)
(* buffer and every block size.                                            *)
(***************************************************************************)
EXTENDS ConvolveKernels, CountKernels, FiniteSetTheorems, TLAPS

\* While the output is cleared: the cells below k hold no product.
Clearing == pc = "zero" => \A x \in Cells : x < k => out[x] = <<>>

\* The rows added to cell x so far: those before i, and row i where the
\* current pass over it has come by.
RowsAdded(x) == IF i <= x /\ x < i + j THEN i + 1 ELSE i

Adding == pc = "rows" => \A x \in Cells : out[x] = Products(x, RowsAdded(x))

\* A loop is reached only with both inputs non-empty, and within its range.
Ranges ==
  /\ pc \in {"zero", "rows"} => na > 0 /\ nb > 0
  /\ pc = "entry" => k = 0 /\ i = 0 /\ j = 0
  /\ pc = "zero" => k <= nab /\ i = 0 /\ j = 0
  /\ pc = "rows" /\ i = na => j = 0

Inv ==
  /\ TypeOK
  /\ Ranges
  /\ InBounds
  /\ Clearing
  /\ Adding
  /\ SumsLikeScalar

-----------------------------------------------------------------------------

\* The blocks of a kernel hold at least one element.
LEMMA Steps ==
  ASSUME TypeOK
  PROVE  ZeroStep[kernel] \in Nat \ {0} /\ MulStep[kernel] \in Nat \ {0}
  BY KernelAssumption DEF TypeOK

\* Before its first row a cell has no products.
LEMMA NoProducts ==
  ASSUME TypeOK, Ranges, pc = "zero", NEW x \in Cells
  PROVE  Products(x, 0) = <<>>
<1>1. /\ x \in Nat
      /\ FirstRow(x) \in Nat
  BY DEF TypeOK, Ranges, Cells, nab, FirstRow
<1>2. 1..(0 - FirstRow(x)) = {}
  BY <1>1
<1>3. QED
  BY <1>1, <1>2 DEF Products

\* One more row appends its product, if it has one for the cell.
LEMMA OneMoreProduct ==
  ASSUME NEW x \in Nat, NEW r \in Nat, nb \in Nat,
         r <= x, x < r + nb
  PROVE  Products(x, r + 1) = Append(Products(x, r), <<r, x - r>>)
<1> DEFINE f == FirstRow(x)
           m == r - f
           P == [t \in 1..m |-> <<f + t - 1, x - (f + t - 1)>>]
           Q == [t \in 1..(m + 1) |-> <<f + t - 1, x - (f + t - 1)>>]
<1>1. f \in Nat /\ m \in Nat
  BY DEF FirstRow
<1>2. Products(x, r) = P
  BY DEF Products
<1>3. Products(x, r + 1) = Q
  <2>1. (IF r + 1 <= x THEN r + 1 ELSE x + 1) - f = m + 1
    BY <1>1
  <2>2. QED
    BY <2>1 DEF Products
<1>4. P \in Seq(Int \X Int) /\ Len(P) = m
  BY <1>1
<1>5. Q = Append(P, <<r, x - r>>)
  <2> HIDE DEF f
  <2>1. f + (m + 1) - 1 = r
    BY <1>1
  <2>2. Q[m + 1] = <<r, x - r>>
    BY <1>1, <2>1
  <2>3. \A t \in 1..m : Q[t] = P[t]
    BY <1>1
  <2>4. QED
    BY <1>1, <1>4, <2>2, <2>3
<1>6. QED
  BY <1>2, <1>3, <1>5

\* A row without a product for the cell adds nothing.
LEMMA NoMoreProduct ==
  ASSUME NEW x \in Nat, NEW r \in Nat, nb \in Nat,
         r > x \/ x >= r + nb
  PROVE  Products(x, r + 1) = Products(x, r)
<1>1. CASE r > x
  BY <1>1 DEF Products
<1>2. CASE x >= r + nb
  <2>1. /\ FirstRow(x) = x - nb + 1
        /\ FirstRow(x) >= r + 1
        /\ FirstRow(x) \in Nat
    BY <1>2 DEF FirstRow
  <2>2. /\ 1..(r + 1 - FirstRow(x)) = {}
        /\ 1..(r - FirstRow(x)) = {}
    BY <2>1
  <2> DEFINE pair(t) == <<FirstRow(x) + t - 1, x - (FirstRow(x) + t - 1)>>
  <2>3. CASE r + 1 <= x
    <3>1. /\ 1..((IF r + 1 <= x THEN r + 1 ELSE x + 1) - FirstRow(x)) = {}
          /\ 1..((IF r <= x THEN r ELSE x + 1) - FirstRow(x)) = {}
      BY <2>1, <2>2, <2>3
    <3>2. /\ Products(x, r + 1) = [t \in {} |-> pair(t)]
          /\ Products(x, r) = [t \in {} |-> pair(t)]
      BY <3>1 DEF Products
    <3>3. QED
      BY <3>2
  <2>4. CASE r + 1 > x
    BY <1>2, <2>1, <2>2, <2>4 DEF Products
  <2>5. QED
    BY <2>3, <2>4
<1>3. QED
  BY <1>1, <1>2

-----------------------------------------------------------------------------
(***************************************************************************)
(* One pass over the cells.                                                *)
(***************************************************************************)

\* A store that fits clears the cells it covers.
LEMMA ClearKeepsInv ==
  ASSUME Inv, pc = "zero", NEW width \in Nat \ {0},
         k + width <= nab, Clear(width)
  PROVE  Inv'
<1>1. Cells' = Cells /\ nab' = nab
  BY DEF Clear, Cells, nab, call
<1>2. TypeOK'
  BY <1>1 DEF Inv, TypeOK, Clear, call, nab
<1>3. Ranges' /\ InBounds' /\ Adding' /\ SumsLikeScalar'
  BY <1>1 DEF Inv, TypeOK, Ranges, InBounds, Adding, SumsLikeScalar, Clear,
              call, nab
<1>4. Clearing'
  <2> SUFFICES ASSUME NEW x \in Cells, x < k + width
               PROVE  out'[x] = <<>>
    BY <1>1 DEF Clearing, Clear
  <2>1. x \in Nat /\ k \in Nat
    BY DEF Inv, TypeOK, Ranges, Cells, nab
  <2>2. QED
    BY <2>1 DEF Inv, Clearing, Clear
<1>5. QED
  BY <1>2, <1>3, <1>4 DEF Inv

\* A store that fits the row adds the row's product to the cells it covers,
\* which are those of the row that the pass has not come by yet.
LEMMA MulAddKeepsInv ==
  ASSUME Inv, pc = "rows", i < na, NEW width \in Nat \ {0},
         j + width <= nb, MulAdd(width)
  PROVE  Inv'
<1>1. Cells' = Cells /\ nab' = nab /\ i' = i
  BY DEF MulAdd, Cells, nab, call
<1>2. TypeOK'
  BY <1>1 DEF Inv, TypeOK, MulAdd, call
<1>3. Ranges' /\ InBounds' /\ Clearing' /\ SumsLikeScalar'
  BY <1>1 DEF Inv, TypeOK, Ranges, InBounds, Clearing, SumsLikeScalar,
              MulAdd, call, nab
<1>4. Adding'
  <2> SUFFICES ASSUME NEW x \in Cells
               PROVE  out'[x] = Products(x, RowsAdded(x)')
    BY <1>1 DEF Adding, Products, FirstRow, MulAdd, call
  <2>1. x \in Nat /\ i \in Nat /\ j \in Nat /\ nb \in Nat
    BY DEF Inv, TypeOK, Ranges, Cells, nab
  <2>2. out[x] = Products(x, RowsAdded(x))
    BY DEF Inv, Adding
  <2>3. CASE x \in (i + j)..(i + j + width - 1)
    <3>1. /\ i <= x
          /\ x < i + nb
          /\ RowsAdded(x) = i
          /\ RowsAdded(x)' = i + 1
      BY <2>1, <2>3 DEF RowsAdded, MulAdd
    <3>2. out'[x] = Append(out[x], <<i, x - i>>)
      BY <2>3 DEF MulAdd
    <3>3. QED
      BY <2>1, <2>2, <3>1, <3>2, OneMoreProduct
  <2>4. CASE x \notin (i + j)..(i + j + width - 1)
    <3>1. RowsAdded(x)' = RowsAdded(x)
      BY <2>1, <2>4 DEF RowsAdded, MulAdd
    <3>2. out'[x] = out[x]
      BY <2>4 DEF MulAdd
    <3>3. QED
      BY <2>2, <3>1, <3>2
  <2>5. QED
    BY <2>3, <2>4
<1>5. QED
  BY <1>2, <1>3, <1>4 DEF Inv

-----------------------------------------------------------------------------

LEMMA StartRowsKeepsInv ==
  ASSUME Inv, StartRows
  PROVE  Inv'
<1>1. Cells' = Cells
  BY DEF StartRows, Cells, nab, call
<1>2. /\ TypeOK' /\ Ranges' /\ InBounds' /\ Clearing' /\ SumsLikeScalar'
      /\ na' = na /\ nb' = nb
  BY <1>1 DEF Inv, TypeOK, Ranges, InBounds, Clearing, SumsLikeScalar,
              StartRows, call
<1>3. Adding'
  <2> SUFFICES ASSUME NEW x \in Cells
               PROVE  out[x] = Products(x, RowsAdded(x)')
    BY <1>1, <1>2 DEF Adding, Products, FirstRow, StartRows
  <2>1. x \in Nat /\ x < nab
    BY DEF Inv, TypeOK, Ranges, Cells, nab, StartRows
  <2>2. RowsAdded(x)' = 0
    BY <2>1 DEF RowsAdded, StartRows, Inv, Ranges
  <2>3. out[x] = <<>>
    BY <2>1 DEF Inv, TypeOK, Clearing, StartRows, nab
  <2>4. QED
    BY <2>2, <2>3, NoProducts DEF Inv, StartRows
<1>4. QED
  BY <1>2, <1>3 DEF Inv

LEMMA NextRowKeepsInv ==
  ASSUME Inv, NextRow
  PROVE  Inv'
<1>1. Cells' = Cells
  BY DEF NextRow, Cells, nab, call
<1>2. /\ TypeOK' /\ Ranges' /\ InBounds' /\ Clearing' /\ SumsLikeScalar'
      /\ na' = na /\ nb' = nb
  BY <1>1 DEF Inv, TypeOK, Ranges, InBounds, Clearing, SumsLikeScalar,
              NextRow, call
<1>3. Adding'
  <2> SUFFICES ASSUME NEW x \in Cells
               PROVE  out[x] = Products(x, RowsAdded(x)')
    BY <1>1, <1>2 DEF Adding, Products, FirstRow, NextRow
  <2>1. x \in Nat /\ i \in Nat /\ nb \in Nat /\ j = nb
    BY DEF Inv, TypeOK, Ranges, Cells, nab, NextRow
  <2>2. RowsAdded(x)' = i + 1
    BY <2>1 DEF RowsAdded, NextRow
  <2>3. out[x] = Products(x, RowsAdded(x))
    BY DEF Inv, Adding, NextRow
  <2>4. CASE i <= x /\ x < i + nb
    BY <2>1, <2>2, <2>3, <2>4 DEF RowsAdded
  <2>5. CASE i > x \/ x >= i + nb
    <3>1. RowsAdded(x) = i
      BY <2>1, <2>5 DEF RowsAdded
    <3>2. QED
      BY <2>1, <2>2, <2>3, <2>5, <3>1, NoMoreProduct
  <2>6. QED
    BY <2>1, <2>4, <2>5
<1>4. QED
  BY <1>2, <1>3 DEF Inv

LEMMA ReturnKeepsInv ==
  ASSUME Inv, Return
  PROVE  Inv'
<1>1. Cells' = Cells
  BY DEF Return, Cells, nab, call
<1>2. TypeOK' /\ Ranges' /\ InBounds' /\ Clearing' /\ Adding'
  BY <1>1 DEF Inv, TypeOK, Ranges, InBounds, Clearing, Adding, Return, call
<1>3. SumsLikeScalar'
  <2> SUFFICES ASSUME NEW x \in Cells
               PROVE  out[x] = Products(x, na)
    BY <1>1 DEF SumsLikeScalar, Products, FirstRow, Return, call
  <2>1. x \in Nat /\ na \in Nat /\ nb \in Nat /\ x < na + nb /\ j \in Nat
    BY DEF Inv, TypeOK, Ranges, Cells, nab, Return
  <2>2. out[x] = Products(x, RowsAdded(x)) /\ i = na
    BY DEF Inv, Adding, Return
  <2>3. CASE RowsAdded(x) = na
    BY <2>2, <2>3
  <2>4. CASE RowsAdded(x) # na
    BY <2>1, <2>2, <2>4 DEF RowsAdded, Inv, Ranges, Return
  <2>5. QED
    BY <2>3, <2>4
<1>4. QED
  BY <1>2, <1>3 DEF Inv

-----------------------------------------------------------------------------

LEMMA InitInv == Init => Inv
<1> SUFFICES ASSUME Init PROVE Inv
  OBVIOUS
<1>1. na \in Nat /\ nb \in Nat
  BY LengthAssumption DEF Init
<1>2. TypeOK
  <2>1. stray \in BOOLEAN /\ DOMAIN out = Cells
    BY DEF Init
  <2>2. QED
    BY <1>1, <2>1 DEF Init, TypeOK
<1>3. QED
  BY <1>2
  DEF Init, Inv, Ranges, InBounds, Clearing, Adding, SumsLikeScalar

LEMMA NextInv ==
  ASSUME Inv, [Next]_vars
  PROVE  Inv'
<1>1. CASE ReturnEarly
  BY <1>1 DEF Inv, TypeOK, Ranges, InBounds, Clearing, Adding,
              SumsLikeScalar, ReturnEarly, Cells, call
<1>2. CASE Begin
  <2>1. Cells' = Cells
    BY <1>2 DEF Begin, Cells, nab, call
  <2>2. Clearing'
    BY <1>2, <2>1 DEF Inv, Ranges, Clearing, Begin, Cells
  <2>3. QED
    BY <1>2, <2>1, <2>2
    DEF Inv, TypeOK, Ranges, InBounds, Adding, SumsLikeScalar, Begin, nab,
        call
<1>3. CASE ZeroBlock
  BY <1>3, Steps, ClearKeepsInv DEF Inv, ZeroBlock
<1>4. CASE ZeroTail
  <2>1. k + 1 <= nab
    BY <1>4 DEF Inv, TypeOK, ZeroTail, nab
  <2>2. QED
    BY <1>4, <2>1, ClearKeepsInv DEF ZeroTail
<1>5. CASE StartRows
  BY <1>5, StartRowsKeepsInv
<1>6. CASE MulBlock
  BY <1>6, Steps, MulAddKeepsInv DEF Inv, MulBlock
<1>7. CASE MulTail
  <2>1. j + 1 <= nb
    BY <1>7 DEF Inv, TypeOK, MulTail
  <2>2. QED
    BY <1>7, <2>1, MulAddKeepsInv DEF MulTail
<1>8. CASE NextRow
  BY <1>8, NextRowKeepsInv
<1>9. CASE Return
  BY <1>9, ReturnKeepsInv
<1>10. CASE UNCHANGED vars
  BY <1>10 DEF Inv, TypeOK, Ranges, InBounds, Clearing, Adding,
               SumsLikeScalar, vars, call, Cells, nab, RowsAdded, Products,
               FirstRow
<1>11. QED
  BY <1>1, <1>2, <1>3, <1>4, <1>5, <1>6, <1>7, <1>8, <1>9, <1>10 DEF Next

LEMMA Invariance == Spec => []Inv
  BY InitInv, NextInv, PTL DEF Spec

(***************************************************************************)
(* No convolution kernel accesses anything beyond its buffers, whatever    *)
(* the lengths and the sizes of the blocks.                                *)
(***************************************************************************)
THEOREM KernelsStayInBounds == Spec => []InBounds
<1>1. Inv => InBounds
  BY DEF Inv
<1>2. QED
  BY <1>1, Invariance, PTL

(***************************************************************************)
(* Every convolution kernel adds the same products in the same order as    *)
(* the scalar one, whatever the lengths and the sizes of the blocks.       *)
(***************************************************************************)
THEOREM KernelsSumAlike == Spec => []SumsLikeScalar
<1>1. Inv => SumsLikeScalar
  BY DEF Inv
<1>2. QED
  BY <1>1, Invariance, PTL

-----------------------------------------------------------------------------
(***************************************************************************)
(* Steps a convolution still has to take, at most: one for each cell to    *)
(* clear and each product to add, one to leave each row, and three.        *)
(***************************************************************************)

RowSteps == (na - i) * (nb + 1) - j

CellsLeft == IF Cells = {} THEN 0 ELSE nab - k

Work ==
  IF pc = "done" THEN 0
  ELSE IF pc = "rows" THEN RowSteps + 1
  ELSE IF pc = "zero" THEN CellsLeft + RowSteps + 2
  ELSE CellsLeft + RowSteps + 3

BoundedWork == Work \in Nat /\ (Work = 0 <=> pc = "done")

WorkShrinks == [][Next => Work' < Work]_vars

LEMMA RowStepsLeft ==
  ASSUME TypeOK, i = na => j = 0
  PROVE  RowSteps \in Nat
<1>1. CASE i = na
  BY <1>1 DEF TypeOK, RowSteps
<1>2. CASE i < na
  <2>1. PICK d \in Nat : na - i = d + 1
    BY <1>2 DEF TypeOK
  <2>2. d * (nb + 1) \in Nat
    BY <2>1 DEF TypeOK
  <2>3. (d + 1) * (nb + 1) = d * (nb + 1) + (nb + 1)
    BY <2>1 DEF TypeOK
  <2>4. QED
    BY <2>1, <2>2, <2>3 DEF TypeOK, RowSteps
<1>3. QED
  BY <1>1, <1>2 DEF TypeOK

LEMMA WorkIsBounded == Inv => BoundedWork
<1> SUFFICES ASSUME Inv PROVE BoundedWork
  OBVIOUS
<1>1. TypeOK /\ Ranges
  BY DEF Inv
<1>2. pc # "done" => RowSteps \in Nat
  <2>1. CASE pc = "entry" /\ na = 0
    BY <1>1, <2>1, RowStepsLeft DEF Ranges
  <2>2. CASE pc # "done" /\ ~(pc = "entry" /\ na = 0)
    <3>1. i = na => j = 0
      BY <1>1, <2>2 DEF Ranges, TypeOK
    <3>2. QED
      BY <1>1, <3>1, RowStepsLeft
  <2>3. QED
    BY <2>1, <2>2
<1>3. pc \in {"entry", "zero"} => CellsLeft \in Nat
  <2>1. Cells # {} => na > 0 /\ nb > 0
    BY <1>1 DEF Cells, TypeOK
  <2>2. pc \in {"entry", "zero"} /\ Cells # {} => k <= nab
    BY <1>1, <2>1 DEF Ranges, TypeOK, nab
  <2>3. QED
    BY <1>1, <2>2 DEF CellsLeft, TypeOK, nab
<1>4. pc \in {"entry", "zero", "rows", "done"}
  BY <1>1 DEF TypeOK
<1>5. QED
  BY <1>2, <1>3, <1>4 DEF BoundedWork, Work

\* What one step takes off.
LEMMA OneStepLess == Inv /\ Next => Work' < Work
<1> SUFFICES ASSUME Inv, Next PROVE Work' < Work
  OBVIOUS
<1>1. TypeOK /\ Ranges /\ BoundedWork
  BY WorkIsBounded DEF Inv
<1>2. /\ ZeroStep[kernel] \in Nat \ {0}
      /\ MulStep[kernel] \in Nat \ {0}
  BY <1>1, Steps
<1>3. UNCHANGED <<na, nb>>
  BY DEF Next, ReturnEarly, Begin, ZeroBlock, ZeroTail, Clear, StartRows,
         MulBlock, MulTail, MulAdd, NextRow, Return, call
<1>4. Cells' = Cells /\ nab' = nab /\ nab \in Int
  BY <1>1, <1>3 DEF Cells, nab, TypeOK
<1>5. /\ (na - i) * (nb + 1) \in Int
      /\ na \in Nat /\ nb \in Nat /\ i \in Nat /\ j \in Nat /\ k \in Nat
  <2>1. na \in Nat /\ nb \in Nat /\ i \in Nat /\ j \in Nat /\ k \in Nat
    BY <1>1 DEF TypeOK
  <2>2. QED
    BY <2>1
<1>6. CASE ReturnEarly
  BY <1>1, <1>6 DEF ReturnEarly, BoundedWork, Work
<1>7. CASE Begin
  <2>1. CellsLeft' = CellsLeft /\ RowSteps' = RowSteps
    BY <1>3, <1>4, <1>7 DEF Begin, CellsLeft, RowSteps
  <2>2. CellsLeft \in Int /\ RowSteps \in Int
    BY <1>4, <1>5 DEF CellsLeft, RowSteps
  <2>3. QED
    BY <1>7, <2>1, <2>2 DEF Begin, Work
<1>8. ASSUME NEW width \in Nat \ {0}, pc = "zero", Clear(width)
      PROVE  Work' < Work
  <2>1. Cells # {}
    BY <1>1, <1>8 DEF Ranges, Cells, nab, TypeOK
  <2>2. /\ CellsLeft = nab - k
        /\ CellsLeft' = nab - (k + width)
        /\ RowSteps' = RowSteps
    BY <1>3, <1>4, <1>8, <2>1 DEF Clear, CellsLeft, RowSteps
  <2>3. RowSteps \in Int
    BY <1>5 DEF RowSteps
  <2>4. QED
    BY <1>4, <1>5, <1>8, <2>2, <2>3 DEF Clear, Work
<1>9. CASE StartRows
  <2>1. CellsLeft = 0
    BY <1>1, <1>4, <1>5, <1>9 DEF StartRows, CellsLeft, Ranges
  <2>2. RowSteps' = RowSteps /\ RowSteps \in Int
    BY <1>3, <1>5, <1>9 DEF StartRows, RowSteps
  <2>3. QED
    BY <1>9, <2>1, <2>2 DEF StartRows, Work
<1>10. ASSUME NEW width \in Nat \ {0}, pc = "rows", MulAdd(width)
       PROVE  Work' < Work
  <2>1. RowSteps' = RowSteps - width /\ RowSteps \in Int
    BY <1>3, <1>5, <1>10 DEF MulAdd, RowSteps
  <2>2. QED
    BY <1>10, <2>1 DEF MulAdd, Work
<1>11. CASE NextRow
  <2>1. j = nb /\ i' = i + 1 /\ j' = 0 /\ pc = "rows" /\ pc' = "rows"
    BY <1>1, <1>11 DEF NextRow, TypeOK
  <2>2. (na - i) * (nb + 1) = (na - (i + 1)) * (nb + 1) + (nb + 1)
    BY <1>5
  <2>3. (na - (i + 1)) * (nb + 1) \in Int
    BY <1>5
  <2>4. RowSteps' = RowSteps - 1 /\ RowSteps \in Int
    BY <1>3, <1>5, <2>1, <2>2, <2>3 DEF RowSteps
  <2>5. QED
    BY <2>1, <2>4 DEF Work
<1>12. CASE Return
  BY <1>1, <1>12 DEF Return, BoundedWork, Work
<1>13. QED
  BY <1>2, <1>6, <1>7, <1>8, <1>9, <1>10, <1>11, <1>12
  DEF Next, ZeroBlock, ZeroTail, MulBlock, MulTail

(***************************************************************************)
(* A convolution is over after at most one step for each cell, for each    *)
(* product and for each row, and three: whatever the block sizes are       *)
(* relative to the lengths, no loop of the kernels turns without advancing *)
(* (of KernelReturns what can be violated in finitely many steps).         *)
(***************************************************************************)
THEOREM ConvolutionsAreBounded == Spec => []BoundedWork /\ WorkShrinks
<1>1. Inv /\ [Next]_vars => [Next => Work' < Work]_vars
  BY OneStepLess
<1>2. QED
  BY <1>1, WorkIsBounded, Invariance, PTL DEF Spec, WorkShrinks

-----------------------------------------------------------------------------
(***************************************************************************)
(* The counting kernels.                                                   *)
(***************************************************************************)

\* The non-zero bytes among those looked at.
Seen == nonzero \cap (0..(at - 1))

CountInv ==
  /\ CountTypeOK
  /\ CountInBounds
  /\ acc = Cardinality(Seen)
  /\ phase = "done" => at = n

-----------------------------------------------------------------------------

\* Intervals are finite, and so are their subsets.
LEMMA FinitePart ==
  ASSUME NEW m \in Int, NEW l \in Int, NEW S \in SUBSET (m..l)
  PROVE  IsFiniteSet(S)
  BY FS_Interval, FS_Subset

\* A load adds to the bytes seen the non-zero ones it covers.
LEMMA SeenGrows ==
  ASSUME CountTypeOK, NEW width \in Nat, at' = at + width, nonzero' = nonzero
  PROVE  /\ Seen' = Seen \cup (Loaded(width) \cap nonzero)
         /\ Cardinality(Seen')
              = Cardinality(Seen) + Cardinality(Loaded(width) \cap nonzero)
<1>1. at \in Nat
  BY DEF CountTypeOK
<1>2. 0..(at' - 1) = (0..(at - 1)) \cup Loaded(width)
  BY <1>1 DEF Loaded
<1>3. Seen' = Seen \cup (Loaded(width) \cap nonzero)
  BY <1>2 DEF Seen
<1>4. Seen \cap (Loaded(width) \cap nonzero) = {}
  BY <1>1 DEF Seen, Loaded
<1>5. /\ IsFiniteSet(Seen)
      /\ IsFiniteSet(Loaded(width) \cap nonzero)
  <2>1. /\ Seen \in SUBSET (0..(at - 1))
        /\ Loaded(width) \cap nonzero \in SUBSET (at..(at + width - 1))
        /\ at - 1 \in Int
        /\ at + width - 1 \in Int
    BY <1>1 DEF Seen, Loaded
  <2>2. /\ IsFiniteSet(0..(at - 1))
        /\ IsFiniteSet(at..(at + width - 1))
    BY <1>1, <2>1, FS_Interval
  <2>3. IsFiniteSet(Seen) /\ IsFiniteSet(Loaded(width) \cap nonzero)
    BY <2>1, <2>2, FS_Subset
  <2>4. QED
    BY <2>3
<1>6. Cardinality(Seen \cup (Loaded(width) \cap nonzero))
        = Cardinality(Seen) + Cardinality(Loaded(width) \cap nonzero)
          - Cardinality({})
  BY <1>4, <1>5, FS_Union
<1>7. /\ Cardinality(Seen) \in Nat
      /\ Cardinality(Loaded(width) \cap nonzero) \in Nat
      /\ Cardinality({}) = 0
  BY <1>5, FS_CardinalityType, FS_EmptySet
<1>8. QED
  BY <1>3, <1>6, <1>7

\* What a comparison with zero leaves of a block is what is not zero in it.
LEMMA BlockCount ==
  ASSUME CountTypeOK, NEW width \in Nat
  PROVE  Cardinality(Loaded(width) \cap nonzero)
           = width - Cardinality(Loaded(width) \ nonzero)
<1>1. at \in Nat
  BY DEF CountTypeOK
<1>2. IsFiniteSet(Loaded(width)) /\ Cardinality(Loaded(width)) = width
  BY <1>1, FS_Interval DEF Loaded
<1>3. Cardinality(Loaded(width) \ nonzero)
        = Cardinality(Loaded(width))
          - Cardinality(Loaded(width) \cap nonzero)
  BY <1>2, FS_Difference
<1>4. Cardinality(Loaded(width) \cap nonzero) \in Nat
  BY <1>2, FS_Subset, FS_CardinalityType
<1>5. QED
  BY <1>2, <1>3, <1>4

\* The number of bytes seen is in range.
LEMMA CountInRange ==
  ASSUME CountTypeOK, NEW S \in SUBSET (0..(n - 1))
  PROVE  Cardinality(S) \in 0..n
<1>1. /\ IsFiniteSet(0..(n - 1))
      /\ Cardinality(0..(n - 1)) = n
  BY FS_Interval DEF CountTypeOK
<1>2. /\ Cardinality(S) <= Cardinality(0..(n - 1))
      /\ IsFiniteSet(S)
  BY <1>1, FS_Subset
<1>3. QED
  BY <1>1, <1>2, FS_CardinalityType DEF CountTypeOK

\* A load that stays in the buffer and is counted right keeps the invariant.
LEMMA AdvanceKeepsInv ==
  ASSUME CountInv, NEW width \in Nat, phase # "done", at + width <= n,
         Advance(width),
         acc' = acc + Cardinality(Loaded(width) \cap nonzero)
  PROVE  CountInv'
<1>1. /\ at' = at + width
      /\ UNCHANGED <<counter, n, nonzero, phase>>
  BY DEF Advance, countCall
<1>2. acc' = Cardinality(Seen')
  BY <1>1, SeenGrows DEF CountInv
<1>3. ~overran'
  BY DEF CountInv, CountTypeOK, CountInBounds, Advance, Loaded
<1>4. Seen' \subseteq 0..(n - 1)
  BY <1>1 DEF CountInv, CountTypeOK, Seen
<1>5. acc' \in 0..n
  BY <1>2, <1>4, CountInRange DEF CountInv
<1>6. CountTypeOK'
  <2>1. at' \in 0..n
    BY <1>1 DEF CountInv, CountTypeOK
  <2>2. overran' \in BOOLEAN
    BY DEF Advance
  <2>3. QED
    BY <1>1, <1>5, <2>1, <2>2 DEF CountInv, CountTypeOK
<1>7. QED
  BY <1>1, <1>2, <1>3, <1>6 DEF CountInv, CountInBounds

-----------------------------------------------------------------------------

LEMMA InitCountInv == CountInit => CountInv
<1> SUFFICES ASSUME CountInit PROVE CountInv
  OBVIOUS
<1>1. CountTypeOK
  <2>1. n \in Nat /\ nonzero \subseteq 0..(n - 1)
    BY InputAssumption DEF CountInit
  <2>2. overran \in BOOLEAN
    BY DEF CountInit
  <2>3. QED
    BY <2>1, <2>2 DEF CountInit, CountTypeOK
<1>2. Seen = {}
  BY DEF CountInit, Seen
<1>3. QED
  BY <1>1, <1>2, FS_EmptySet DEF CountInit, CountInv, CountInBounds

LEMMA NextCountInv ==
  ASSUME CountInv, [CountNext]_countVars
  PROVE  CountInv'
<1> DEFINE step == Step[counter]
<1>0. step \in Nat \ {0}
  BY CounterAssumption DEF CountInv, CountTypeOK
<1>1. CASE SkipBlock
  <2>1. Cardinality(Loaded(step) \cap nonzero) = 0
    BY <1>1, FS_EmptySet DEF SkipBlock
  <2>2. acc' = acc + Cardinality(Loaded(step) \cap nonzero)
    BY <1>1, <2>1 DEF SkipBlock, CountInv, CountTypeOK
  <2>3. QED
    BY <1>0, <1>1, <2>2, AdvanceKeepsInv DEF SkipBlock, HasRoom
<1>2. CASE CountBlock
  <2>1. Cardinality(Loaded(step) \ nonzero) \in Nat
    <3>1. Loaded(step) \ nonzero \in SUBSET (at..(at + step - 1))
      BY DEF Loaded
    <3>2. at \in Int /\ at + step - 1 \in Int
      BY <1>0 DEF CountInv, CountTypeOK
    <3>3. QED
      BY <3>1, <3>2, FinitePart, FS_CardinalityType
  <2>2. acc' = acc + Cardinality(Loaded(step) \cap nonzero)
    BY <1>0, <1>2, <2>1, BlockCount DEF CountBlock, CountInv, CountTypeOK
  <2>3. QED
    BY <1>0, <1>2, <2>2, AdvanceKeepsInv DEF CountBlock, HasRoom
<1>3. CASE StartTail
  BY <1>3 DEF StartTail, CountInv, CountTypeOK, CountInBounds, Seen, countCall
<1>4. CASE CountByte
  <2>1. Loaded(1) \cap nonzero = IF at \in nonzero THEN {at} ELSE {}
    BY DEF Loaded, CountInv, CountTypeOK
  <2>2. acc' = acc + Cardinality(Loaded(1) \cap nonzero)
    BY <1>4, <2>1, FS_EmptySet, FS_Singleton DEF CountByte
  <2>3. at + 1 <= n
    BY <1>4 DEF CountByte, CountInv, CountTypeOK
  <2>4. QED
    BY <1>4, <2>2, <2>3, AdvanceKeepsInv DEF CountByte
<1>5. CASE CountReturn
  BY <1>5 DEF CountReturn, CountInv, CountTypeOK, CountInBounds, Seen, countCall
<1>6. CASE UNCHANGED countVars
  BY <1>6 DEF countVars, CountInv, CountTypeOK, CountInBounds, Seen, countCall
<1>7. QED
  BY <1>1, <1>2, <1>3, <1>4, <1>5, <1>6 DEF CountNext

LEMMA CountInvariance == CountSpec => []CountInv
  BY InitCountInv, NextCountInv, PTL DEF CountSpec

(***************************************************************************)
(* No counting kernel reads beyond its buffer.                             *)
(***************************************************************************)
THEOREM CountersStayInBounds == CountSpec => []CountInBounds
<1>1. CountInv => CountInBounds
  BY DEF CountInv
<1>2. QED
  BY <1>1, CountInvariance, PTL

(***************************************************************************)
(* Every counting kernel returns the number of non-zero bytes, whatever    *)
(* the buffer and the size of its blocks.                                  *)
(***************************************************************************)
THEOREM CountersCountAlike == CountSpec => []CountsEveryByte
<1>1. CountInv => CountsEveryByte
  <2> SUFFICES ASSUME CountInv, phase = "done" PROVE acc = Cardinality(nonzero)
    BY DEF CountsEveryByte
  <2>1. Seen = nonzero
    BY DEF CountInv, CountTypeOK, Seen
  <2>2. QED
    BY <2>1 DEF CountInv
<1>2. QED
  BY <1>1, CountInvariance, PTL

\* Steps a count still has to take, at most.
CountWork ==
  IF phase = "done" THEN 0
  ELSE IF phase = "tail" THEN n - at + 1
  ELSE n - at + 2

BoundedCount == CountWork \in 0..(n + 2) /\ (CountWork = 0 <=> phase = "done")

CountShrinks == [][CountNext => CountWork' < CountWork]_countVars

(***************************************************************************)
(* A count is over after at most two steps more than the buffer has bytes, *)
(* whatever the size of the blocks and whether zero blocks are skipped.    *)
(***************************************************************************)
THEOREM CountsAreBounded == CountSpec => []BoundedCount /\ CountShrinks
<1>1. CountInv => BoundedCount
  BY DEF CountInv, CountTypeOK, BoundedCount, CountWork
<1>2. CountInv /\ [CountNext]_countVars
        => [CountNext => CountWork' < CountWork]_countVars
  <2> SUFFICES ASSUME CountInv, CountNext PROVE CountWork' < CountWork
    OBVIOUS
  <2>1. /\ n \in Nat /\ at \in Nat
        /\ Step[counter] \in Nat \ {0}
    BY CounterAssumption DEF CountInv, CountTypeOK
  <2>2. ASSUME NEW width \in Nat \ {0}, phase # "done", Advance(width)
        PROVE  CountWork' < CountWork
    BY <2>1, <2>2 DEF Advance, countCall, CountWork
  <2>3. CASE SkipBlock \/ CountBlock
    BY <2>1, <2>2, <2>3 DEF SkipBlock, CountBlock
  <2>4. CASE StartTail
    BY <2>1, <2>4 DEF StartTail, countCall, CountWork
  <2>5. CASE CountByte
    BY <2>2, <2>5 DEF CountByte
  <2>6. CASE CountReturn
    <3>1. n - at + 1 > 0
      BY <2>1 DEF CountInv, CountTypeOK
    <3>2. QED
      BY <2>6, <3>1 DEF CountReturn, CountWork
  <2>7. QED
    BY <2>3, <2>4, <2>5, <2>6 DEF CountNext
<1>3. QED
  BY <1>1, <1>2, CountInvariance, PTL DEF CountSpec, CountShrinks

=============================================================================
