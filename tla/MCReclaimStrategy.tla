------------------------- MODULE MCReclaimStrategy -------------------------
(* Instances of ReclaimStrategy for TLC.                                   *)
EXTENDS ReclaimStrategy, TLC

CONSTANTS a1, a2, p1, p2, p3

\* p1 and p2 are alike.
Symmetry == Permutations({p1, p2})

McOwnerOf == (p1 :> a1) @@ (p2 :> a1) @@ (p3 :> a2)

\* DefaultMultiAccountStrategy's priorities of an active and an inactive account.
McPriorities == {-50, 50}

Leaf(name, v) == [name |-> name, type |-> "element", value |-> <<v>>, kids |-> <<>>]
Elem(name, kids) == [name |-> name, type |-> "element", value |-> <<>>, kids |-> kids]
Comment == [name |-> "comment", type |-> "comment", value |-> <<>>, kids |-> <<>>]

Zswapd(min, max, ratio) ==
  Elem("ZswapdParam", <<Leaf("minScore", min), Leaf("maxScore", max), Leaf("mem2zramRatio", ratio)>>)
Buffers(avail, min, high) ==
  Elem("availBufferConfig", <<Leaf("availBuffer", avail), Leaf("minAvailBuffer", min),
                              Leaf("highAvailBuffer", high)>>)

\* Two sections of ranges that meet at 50, the first with a ratio out of range, the second
\* with a comment after the range and one in the parameter that follows; buffers in the wrong
\* order and an unknown section before the ranges, which leaves none.
McDocuments ==
  {<<Buffers(100, 50, 150), Elem("reclaimConfig", <<Zswapd(0, 50, 101)>>),
     Elem("reclaimConfig", <<Zswapd(50, 2000, 70), Comment, Elem("ZswapdParam", <<Comment>>)>>)>>,
   <<Buffers(100, 150, 50), Elem("nandlife", <<>>), Elem("reclaimConfig", <<Zswapd(0, 1000, 0)>>)>>}
=============================================================================
