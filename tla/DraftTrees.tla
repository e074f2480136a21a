----------------------------- MODULE DraftTrees -----------------------------
(***************************************************************************)
(* Draft trees of speculative decoding: the two N-gram proposers and the   *)
(* acceptance of speculative.py.                                           *)
(*                                                                         *)
(* A tree is [tokens, parents]: nodes in the order of their indices, from  *)
(* 1, and the index of each node's parent, 0 for a root (-1 in the code).  *)
(* While it is built, a node is named by its path, the tokens from a root  *)
(* to the node.                                                            *)
(***************************************************************************)
EXTENDS Integers, FiniteSets, Sequences, SequencesExt, FiniteSetsExt

CONSTANTS MinMatch, MaxMatch,   \* min_match_length, max_match_length
          MaxDepth,             \* max_depth of the trie
          MaxBranching          \* max_branching of the trie

ASSUME DraftTreesAssumption ==
  /\ MinMatch \in Nat \ {0} /\ MaxMatch \in Nat /\ MaxMatch >= MinMatch
  /\ {MaxDepth, MaxBranching} \subseteq Nat \ {0}

NoDraft == [tokens |-> <<>>, parents |-> <<>>]
Size(tree) == Len(tree.tokens)
Least(a, b) == IF a < b THEN a ELSE b

-----------------------------------------------------------------------------
(* _matching_starts: the longest suffix that occurred before, and where *)

Occurrences(context, n) ==
  { s \in 0 .. Len(context) - n - 1 :
      SubSeq(context, s + 1, s + n) = SubSeq(context, Len(context) - n + 1, Len(context)) }

MatchLength(context) ==
  Max({0} \union { n \in MinMatch .. Least(MaxMatch, Len(context) - 1) :
                     Occurrences(context, n) # {} })

Starts(context) ==
  IF MatchLength(context) = 0 THEN {} ELSE Occurrences(context, MatchLength(context))

\* What followed the suffix when it occurred at s, at most n tokens of it.
Continuation(context, s, n) ==
  LET from == s + MatchLength(context)
  IN  SubSeq(context, from + 1, Least(Len(context), from + n))

-----------------------------------------------------------------------------
(* NGramChainProposer.propose: the latest continuation, as a chain *)

Chain(context, maxNodes) ==
  IF maxNodes = 0 \/ Starts(context) = {} THEN NoDraft
  ELSE LET drafts == Continuation(context, Max(Starts(context)), maxNodes)
       IN  [tokens |-> drafts, parents |-> [i \in DOMAIN drafts |-> i - 1]]

-----------------------------------------------------------------------------
(* NGramTrieProposer.propose: all continuations, the best nodes of the trie *)

\* Occurrences that run through the node at path: _TrieNode.observe.
Through(context, path) ==
  { s \in Starts(context) : IsPrefix(path, Continuation(context, s, MaxDepth)) }
Frequency(context, path) == Cardinality(Through(context, path))
LastOccurrence(context, path) == Max(Through(context, path))

Paths(context) ==
  UNION { LET c == Continuation(context, s, MaxDepth)
          IN  { SubSeq(c, 1, d) : d \in 1 .. Len(c) } : s \in Starts(context) }

\* The sort key of ranked(): frequency, then recency, then the token.
Better(context, p, q) ==
  \/ Frequency(context, p) > Frequency(context, q)
  \/ /\ Frequency(context, p) = Frequency(context, q)
     /\ \/ LastOccurrence(context, p) > LastOccurrence(context, q)
        \/ /\ LastOccurrence(context, p) = LastOccurrence(context, q)
           /\ Last(p) < Last(q)

Ranked(context, parent) ==
  LET children == { p \in Paths(context) : p # <<>> /\ Front(p) = parent }
  IN  { p \in children :
          Cardinality({ q \in children : Better(context, q, p) }) < MaxBranching }

\* The roots in their order, then best first what hangs below a chosen node.
Frontier(context, chosen) ==
  LET roots == Ranked(context, <<>>) \ ToSet(chosen)
      below == (UNION { Ranked(context, p) : p \in ToSet(chosen) }) \ ToSet(chosen)
  IN  IF roots # {} THEN roots ELSE below

ParentOf(order, p) ==
  IF Len(p) = 1 THEN 0 ELSE CHOOSE i \in DOMAIN order : order[i] = Front(p)

Beats(context, chosen, p, q) ==
  \/ Better(context, p, q)
  \/ ~Better(context, q, p) /\ ParentOf(chosen, p) < ParentOf(chosen, q)

Best(context, chosen) ==
  CHOOSE p \in Frontier(context, chosen) :
    \A q \in Frontier(context, chosen) \ {p} : Beats(context, chosen, p, q)

Chosen(context, maxNodes) ==
  LET chosen[n \in 0..maxNodes] ==
        IF n = 0 THEN <<>>
        ELSE LET before == chosen[n - 1]
             IN  IF Frontier(context, before) = {} THEN before
                 ELSE Append(before, Best(context, before))
  IN  chosen[maxNodes]

\* Variant: the nodes stay in the order in which they were chosen.
InChosenOrder(chosen, p, q) ==
  (CHOOSE i \in DOMAIN chosen : chosen[i] = p) < (CHOOSE i \in DOMAIN chosen : chosen[i] = q)

\* append_subtree: p comes before q in depth-first order.
DepthFirst(chosen, p, q) ==
  LET index(path) == CHOOSE i \in DOMAIN chosen : chosen[i] = path
      split == { d \in 1 .. Least(Len(p), Len(q)) : p[d] # q[d] }
  IN  IF split = {} THEN Len(p) < Len(q)
      ELSE index(SubSeq(p, 1, Min(split))) < index(SubSeq(q, 1, Min(split)))

Flatten(chosen) ==
  [i \in DOMAIN chosen |->
     CHOOSE p \in ToSet(chosen) :
       Cardinality({ q \in ToSet(chosen) : DepthFirst(chosen, q, p) }) = i - 1]

Trie(context, maxNodes) ==
  LET order == Flatten(Chosen(context, maxNodes))
  IN  [tokens |-> [i \in DOMAIN order |-> Last(order[i])],
       parents |-> [i \in DOMAIN order |-> ParentOf(order, order[i])]]

-----------------------------------------------------------------------------
(* Trees *)

\* DraftTree: what its constructor accepts.
IsTree(tree) ==
  /\ tree.tokens \in Seq(Nat) /\ tree.parents \in Seq(Nat)
  /\ Len(tree.tokens) = Len(tree.parents)
  /\ \A i \in DOMAIN tree.parents : tree.parents[i] \in 0 .. i - 1
  /\ \A i, j \in DOMAIN tree.parents :
       tree.parents[i] = tree.parents[j] /\ tree.tokens[i] = tree.tokens[j] => i = j

\* The tokens of a tree's node and of its ancestors, from the root.
PathTo(tree, node) ==
  LET path[i \in DOMAIN tree.tokens] ==
        (IF tree.parents[i] = 0 THEN <<>> ELSE path[tree.parents[i]]) \o <<tree.tokens[i]>>
  IN  path[node]

-----------------------------------------------------------------------------
(* GreedyTreeAcceptanceSampler.accept: follow the target's tokens down the   *)
(* tree.  target[1] is predicted after the input, target[i + 1] after node i *)

Child(tree, parent, token) ==
  { i \in DOMAIN tree.tokens : tree.parents[i] = parent /\ tree.tokens[i] = token }

\* One turn of its loop; a path has at most as many nodes as the tree.
Extended(tree, target, path) ==
  LET node == IF path = <<>> THEN 0 ELSE Last(path)
      next == Child(tree, node, target[node + 1])
  IN  IF next = {} THEN path ELSE Append(path, CHOOSE i \in next : TRUE)

AcceptedPath(tree, target) ==
  LET path[n \in 0 .. Size(tree)] ==
        IF n = 0 THEN <<>> ELSE Extended(tree, target, path[n - 1])
  IN  path[Size(tree)]

Accept(tree, target) ==
  LET accepted == AcceptedPath(tree, target)
      nodes == <<0>> \o accepted
  IN  [accepted |-> accepted, output |-> [i \in DOMAIN nodes |-> target[nodes[i] + 1]]]
=============================================================================
