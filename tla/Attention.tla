------------------------------ MODULE Attention ------------------------------
(***************************************************************************)
(* Which K/V a query of a model step reads and where it puts its own: the  *)
(* query layouts of layout.py, the paged metadata, and the three back ends *)
(* that consume them (dense tensors, pages with torch, pages with Triton). *)
(*                                                                         *)
(* What a back end knows of a request is its row                           *)
(*   [table, computed, layout, reserved, readonly],                        *)
(* a batch is a function from requests to rows.  Positions start from 0,   *)
(* queries from 1, and layout[q] is the parent of query q, 0 for none.     *)
(* Heads, head sizes and the arithmetic of softmax are left out.           *)
(***************************************************************************)
EXTENDS DraftTrees

CONSTANT BlockSize   \* tokens of a page

ASSUME AttentionAssumption == BlockSize \in Nat \ {0}

Queries(row) == DOMAIN row.layout
Position(row, q) == row.computed + q - 1
Pages(n) == (n + BlockSize - 1) \div BlockSize

-----------------------------------------------------------------------------
(* layout.py *)

LinearLayout(n) == [q \in 1..n |-> q - 1]

\* The input as a chain, the draft's roots below its end.
DraftLayout(numInput, tree) ==
  LinearLayout(numInput)
    \o [i \in 1 .. Size(tree) |-> numInput + tree.parents[i]]

\* query_visibility: a query sees itself and its ancestors.
Visibility(layout) ==
  LET seen[q \in DOMAIN layout] ==
        {q} \union IF layout[q] = 0 THEN {} ELSE seen[layout[q]]
  IN  seen

\* semantic_positions: the depth along the parents, after the cached prefix.
SemanticPositions(row) ==
  LET position[q \in Queries(row)] ==
        IF row.layout[q] = 0 THEN row.computed ELSE position[row.layout[q]] + 1
  IN  position

-----------------------------------------------------------------------------
(* PagedAttentionMetadata *)

\* The physical slot of a position.
Slot(table, position) == <<table[position \div BlockSize + 1], position % BlockSize>>

SlotMapping(row) == [q \in Queries(row) |-> Slot(row.table, Position(row, q))]

\* validate_block_tables: a page has one owner, or is a read-only page of the
\* same part of several prompts.
ValidTables(batch) ==
  /\ \A r \in DOMAIN batch :
       LET row == batch[r]
       IN  /\ Len(row.table) = Pages(row.computed + row.reserved)
           /\ row.readonly * BlockSize <= row.computed
           /\ IsInjective(row.table)
  /\ \A r, o \in DOMAIN batch :
       \A i \in DOMAIN batch[r].table, j \in DOMAIN batch[o].table :
         r # o /\ batch[r].table[i] = batch[o].table[j] =>
           i = j /\ i <= batch[r].readonly /\ i <= batch[o].readonly

OnlyLinear(batch) ==
  \A r \in DOMAIN batch : batch[r].layout = LinearLayout(Len(batch[r].layout))

VisiblePositions(row) ==
  LET seen == Visibility(row.layout)
  IN  [q \in Queries(row) |->
         (0 .. row.computed - 1) \union { Position(row, k) : k \in seen[q] }]

-----------------------------------------------------------------------------
(* The positions each query attends to *)

\* TorchDenseAttention.forward: the whole tensor of a request, then the batch.
DenseReads(row, length) ==
  LET seen == Visibility(row.layout)
  IN  [q \in Queries(row) |->
         (0 .. length - 1) \union { length + k - 1 : k \in seen[q] }]

\* TorchPagedAttention.forward: what it can see, one page after the other.
TorchReads(row) ==
  LET seen == VisiblePositions(row)
      ofPage(q, page) == { p \in seen[q] : p \div BlockSize = page }
  IN  [q \in Queries(row) |->
         UNION { ofPage(q, page) : page \in { p \div BlockSize : p \in seen[q] } }]

\* The kernels scan as many positions for every request as the longest has.
Scanned(batch) ==
  0 .. Max({ batch[r].computed + Len(batch[r].layout) : r \in DOMAIN batch }) - 1

\* The mask of a kernel, for one head or grouped: a query's own step by its
\* offset when all layouts are linear, by the visibility tensor otherwise.
TokenMask(row, linear, seen, q, position) ==
  LET key == position - row.computed + 1
  IN  \/ position < row.computed
      \/ key \in Queries(row) /\ IF linear THEN key <= q ELSE key \in seen[q]

Masked(batch, r, linear) ==
  LET seen == Visibility(batch[r].layout)
      scanned == Scanned(batch)
  IN  [q \in Queries(batch[r]) |->
         { p \in scanned : TokenMask(batch[r], linear, seen, q, p) }]

\* Variant: the kernel for linear layouts is taken when one request is linear.
SomeLinearReads(batch, r) ==
  Masked(batch, r, \E o \in DOMAIN batch : OnlyLinear([x \in {o} |-> batch[o]]))

\* TritonPagedAttention.forward: one kernel for the whole batch.
TritonReads(batch, r) == Masked(batch, r, OnlyLinear(batch))
=============================================================================
