--------------------------- MODULE MCPegWithdraw ---------------------------
(***************************************************************************)
(* Three fractions.  In the wallet addresses 1 and 2 spend, 3 receives, 4  *)
(* burns: payments from two inputs to two outputs; the same with a notary  *)
(* at the place of an input; frozen and cold inputs; coinstakes.           *)
(*                                                                         *)
(* The exchange has three coins at addresses 1 and 2 and prepares up to    *)
(* two withdrawals from any of them, where books and coins differ, so that *)
(* the level is shifted by part of a fraction in some of the sessions.     *)
(***************************************************************************)
EXTENDS PegWithdraw, TLC

Vec(a, b, c) == (0 :> a) @@ (1 :> b) @@ (2 :> c)

Coins(a, f) == [address |-> a, fractions |-> f, mark |-> "", locked |-> FALSE, pass |-> FALSE, home |-> 0]
Tx(vin, vout) == [vin |-> vin, vout |-> vout, reward |-> Null]

Inflows == {Vec(1, 2, 1), Vec(2, 0, 3)}
Inputs == {Coins(a, f) : a \in {1, 2}, f \in Inflows}
Pairs == {<<x, y>> : x, y \in Inputs}
Outputs(values) == {Pay(a, v) : a \in {1, 2, 3, 4}, v \in values}

Payments == {Tx(p, <<a, b>>) : p \in Pairs, a, b \in Outputs({0, 2, 5})}
Notarised == {Tx(p, <<Notary(k, 0, r), a, b>>) :
                p \in Pairs, k \in {"F", "V", "L", "C", "Z"}, r \in {<<2>>, <<2, 3>>, <<3, 2>>},
                a \in {Pay(x, v) : x \in {1, 3}, v \in {1, 2}}, b \in {Pay(2, 3), Pay(3, 1), Pay(4, 2), Pay(1, 4)}}
\* Both inputs have a notary at their place; bad references too
Twice == {Tx(<<x, Coins(2, Vec(1, 2, 1))>>, <<Notary(k, 0, <<3>>), Notary(l, 0, r), Pay(3, 2), Pay(1, 1)>>) :
            x \in Inputs, k, l \in {"F", "V", "L", "C"}, r \in {<<3>>, <<4>>, <<2>>, <<>>, <<4, 4>>, <<3, 4>>}}
Marked == {[Coins(1, f) EXCEPT !.mark = m, !.locked = l, !.pass = p, !.home = h] :
             f \in {Vec(1, 2, 1), Vec(2, 0, 3)}, m \in {"F", "V", "C"}, l, p \in BOOLEAN, h \in {1, 3}}
Movable == {x \in Marked : ~ x.locked /\ ~ x.pass /\ (x.mark = "C" \/ x.home = 1)}
Frozen == {Tx(<<x, Coins(2, Vec(1, 2, 1))>>, <<a, b>>) :
             x \in Marked, a \in Outputs({2, 3}) \union {Notary("F", 0, <<2>>)}, b \in Outputs({2, 3})}
FrozenLater == {Tx(<<Coins(2, Vec(1, 2, 1)), x>>, <<Notary(k, 0, <<2>>), a>>) :
                  x \in Marked, k \in {"F", "L"}, a \in Outputs({0, 1})}
\* A notary after a cold input, at the place of the second input
Claimed == {Tx(<<x, y>>, <<a, Notary(k, 0, r), b>>) :
              x \in Movable, y \in {Coins(2, Vec(2, 0, 3)), Coins(1, Vec(0, 1, 2))}, k \in {"F", "V", "L"},
              r \in {<<1>>, <<1, 3>>, <<3>>}, a \in Outputs({0, 2}), b \in {Pay(2, 3), Pay(3, 1)}}
Stakes == {[vin |-> <<x>>, vout |-> <<Pay(0, 0), a, b, c>>, reward |-> Vec(1, 1, 1)] :
             x \in Movable, a \in Outputs({0, 1, 4, 5, 6}), b \in {Pay(1, 5), Pay(1, 1), Pay(3, 4)}, c \in {Pay(3, 0), Pay(1, 1)}}

WalletCases == {Payments, Notarised, Twice, Frozen, FrozenLater, Claimed, Stakes}

Coin(a, f) == [address |-> a, fractions |-> f]
SomeCoins == {<<Coin(a, f), Coin(b, g), Coin(2, Vec(3, 7, 10))>> :
                a, b \in {1, 2}, f \in {Vec(8, 4, 7), Vec(0, 6, 13)}, g \in {Vec(5, 7, 8)}}
             \union {<<Coin(1, Vec(3, 0, 0)), Coin(2, Vec(9, 0, 2)), Coin(5, Vec(2, 9, 19))>>}
SomeBooks == {Vec(14, 17, 28), Vec(29, 17, 13), Vec(14, 9, 21)}
SomeBalances == {Vec(11, 13, 9), Vec(14, 9, 13)}
SomeMaxInputs == [L |-> 3, R |-> 3]
SomeLevels == {[nSupply |-> 1, nSupplyNext |-> x, nBuffer |-> b] : x \in {1, 2}, b \in {0, 1}}
=============================================================================
