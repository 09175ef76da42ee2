------------------------------- MODULE MCWire -------------------------------
(***************************************************************************)
(* Instances of Wire: two and three frames in every chunking, and values   *)
(* on both sides of every bound.                                           *)
(***************************************************************************)
EXTENDS Wire

L(items) == [kind |-> "list", items |-> items]
Wide == [kind |-> "wide", items |-> <<Scalar>>]
Unsafe == [kind |-> "object", items |-> <<>>]

Values ==
  {Scalar, L(<<>>), L(<<Scalar>>), L(<<Scalar, Scalar>>), L(<<Scalar, Scalar, Scalar>>),
   L(<<Scalar, Scalar, Scalar, Scalar>>), L(<<L(<<>>)>>), L(<<L(<<Scalar>>)>>),
   L(<<L(<<L(<<Scalar>>)>>)>>), L(<<L(<<Scalar>>), L(<<Scalar>>)>>), Wide, Unsafe, L(<<Unsafe>>)}

MCScripts ==
  {[values |-> <<v>>, crash |-> c] : v \in Values, c \in BOOLEAN}
  \cup {[values |-> <<v, w>>, crash |-> c] :
          v, w \in Values, c \in BOOLEAN}
  \cup {[values |-> <<Scalar, L(<<Scalar>>), v>>, crash |-> FALSE] : v \in {Scalar, Wide}}
=============================================================================
