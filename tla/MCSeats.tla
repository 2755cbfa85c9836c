------------------------------ MODULE MCSeats ------------------------------
EXTENDS Seats

Facts(f, w, b, g) == [family |-> f, write |-> w, built |-> b, gateway |-> g]

TheRegistry ==
    [a1 |-> Facts("A", TRUE, TRUE, FALSE), a2 |-> Facts("A", TRUE, TRUE, TRUE),
     b1 |-> Facts("B", TRUE, TRUE, FALSE), bt |-> Facts("B", FALSE, TRUE, FALSE),
     c1 |-> Facts("C", TRUE, FALSE, FALSE), gw |-> Facts("", TRUE, TRUE, TRUE),
     br |-> Facts("", FALSE, TRUE, FALSE)]

TheOrder == <<"a1", "b1", "c1">>

Manifest(ci, cr, pi, pr, d, pairs, sens, barred) ==
    [chain |-> [r \in Roles |-> IF r = Impl THEN ci ELSE cr],
     pin |-> [r \in Roles |-> IF r = Impl THEN pi ELSE pr],
     default |-> d, pairs |-> pairs, sensitive |-> sens, barred |-> barred]

Pair == {{Impl, Review}}
\* Both seats chained over the same two vendors; a chained implementer under a pinned
\* reviewer; pins, one to a gateway; the default with a sensitive class; refusals.
ThePolicies == {
    Manifest(<<"a1", "b1">>, <<"b1", "a2">>, None, None, "a1", Pair, FALSE, {}),
    Manifest(<<"a1", "b1">>, <<>>, None, "bt", "a1", Pair, TRUE, {}),
    Manifest(<<>>, <<"a2", "b1">>, "a1", None, None, {}, TRUE, {}),
    Manifest(<<>>, <<>>, "gw", "a1", "typo", {}, FALSE, {}),
    Manifest(<<"a1", "a2">>, <<>>, None, None, "c1", Pair, FALSE, {}),
    Manifest(<<"a1", "typo">>, <<>>, "bt", None, "a1", Pair, FALSE, {}),
    Manifest(<<>>, <<>>, None, "br", "a1", Pair, FALSE, {"b1"})}

\* Where the chain of the one seat and the partner in the other both move.
ChainsOnly == {Manifest(<<"a1", "b1">>, <<"b1", "a2">>, None, None, "a1", Pair, FALSE, {})}
=============================================================================
