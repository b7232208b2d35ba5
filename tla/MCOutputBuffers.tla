-------------------------- MODULE MCOutputBuffers --------------------------
(* A group of pipelines of every configuration, among them two that share  *)
(* a destination, two destinations of one product, and a mere count:       *)
(*                                                                         *)
(*    A <- ..   A <- .. with block_group   {A, B} <- ..   B <- ..          *)
(*    count C <- ..                                                        *)
(*                                                                         *)
(* and a group of two pipelines with one destination, one a product.       *)
EXTENDS OutputBuffers

CONSTANTS A, B, C

Pipeline(heads) == [heads |-> heads, countOnly |-> FALSE, blockGroup |-> FALSE,
                    product |-> FALSE]
Count(heads) == [Pipeline(heads) EXCEPT !.countOnly = TRUE]
BlockGroup(heads) == [Pipeline(heads) EXCEPT !.blockGroup = TRUE]

Product(heads) == [Pipeline(heads) EXCEPT !.product = TRUE]

Mixed == <<Pipeline(<<A>>), BlockGroup(<<A>>), Product(<<A, B>>), Pipeline(<<B>>), Count(<<C>>)>>

(* A grid has two threads, more with more keys.  Sizes give none, one or   *)
(* several results to a thread; a pipeline with a block group has no more  *)
(* keys than fit the smallest grid.                                        *)
MixedSizes == <<{<<0, 0>>, <<2, 1>>, <<3, 3>>}, {<<0, 0>>, <<2, 2>>, <<2, 3>>},
                {<<1, 0>>, <<2, 3>>}, {<<0, 0>>, <<1, 1>>}, {<<2, 2>>}>>

(* The theorems of OutputBuffers_proofs speak of this group.               *)
ASSUME MixedIsSupported == Pipelines = Mixed => GroupSupported

(* The relation the product is taken with may be empty.                    *)
WithProduct == <<Pipeline(<<A>>), Product(<<A>>), Pipeline(<<B>>)>>
WithProductSizes == <<{<<0, 0>>, <<2, 1>>, <<3, 3>>}, {<<0, 0>>, <<2, 0>>, <<2, 2>>},
                      {<<0, 0>>, <<3, 4>>}>>
=============================================================================
