------------------------ MODULE MCCoupledDefinition ------------------------
(* Two contexts of two ranks, one that sends to the other, or each to the    *)
(* other; b may send back what it makes of what it receives.                 *)
EXTENDS CoupledDefinition

C2 == {"a", "b"}
R2 == {0, 1}
OneWayOuts == [a |-> <<"b">>, b |-> <<>>]
OneWayIns == [a |-> <<>>, b |-> <<"a">>]
BothWays == [a |-> <<"b">>, b |-> <<"a">>]
SentBack == {<<"b", "a", "a">>}
=============================================================================
