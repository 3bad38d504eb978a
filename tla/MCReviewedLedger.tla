-------------------------- MODULE MCReviewedLedger --------------------------
(* Four small households for ReviewedLedger: one with transfers between two *)
(* bank accounts and a card, one with exchanges, one whose purchases are    *)
(* learned and remembered, and one that names a pair by hand.               *)
EXTENDS ReviewedLedger

ASSUME ExchangeSearch == ExactUpTo(3)

\* Of a statement: its account, institution, type of account and currency.
Statements ==
    [BA |-> <<"bankA", "X", "bank", "HKD">>, BB |-> <<"bankB", "X", "bank", "HKD">>,
     CC |-> <<"card", "Y", "credit_card", "HKD">>,
     HK |-> <<"hkd", "X", "bank", "HKD">>, US |-> <<"usd", "X", "bank", "USD">>,
     S1 |-> <<"card", "Y", "credit_card", "HKD">>, S2 |-> <<"card", "Y", "credit_card", "HKD">>,
     P1 |-> <<"cash", "X", "bank", "HKD">>, P2 |-> <<"cash", "X", "bank", "HKD">>]

\* Of a row: its statement, amount, day and description.
Movements ==
    [a1 |-> <<"BA", -10, 1, "shop">>, a2 |-> <<"BA", -10, 3, "move">>,
     b1 |-> <<"BB", 10, 2, "move">>, c1 |-> <<"CC", 10, 3, "card payment">>,
     h1 |-> <<"HK", -78, 1, "exchange">>, h2 |-> <<"HK", -160, 1, "exchange">>,
     h3 |-> <<"HK", -80, 1, "exchange">>, h4 |-> <<"HK", -78, 5, "exchange">>,
     u1 |-> <<"US", 10, 1, "deposit">>, u2 |-> <<"US", 20, 1, "deposit">>,
     u3 |-> <<"US", 10, 1, "deposit">>, u4 |-> <<"US", 10, 5, "deposit">>,
     r1 |-> <<"S1", -5, 1, "shop">>, r2 |-> <<"S1", -5, 2, "shop">>,
     r3 |-> <<"S2", -8, 3, "shop">>, r4 |-> <<"S2", -5, 3, "shop">>,
     p1 |-> <<"P1", -6, 1, "rent">>, p2 |-> <<"P1", 6, 2, "refund">>,
     p3 |-> <<"P2", 6, 3, "interest">>, p4 |-> <<"P2", -3, 3, "atm">>]
MCRows == DOMAIN Movements

Row(x, movement, statement) ==
    [stmt |-> movement[1], acct |-> statement[1], inst |-> statement[2], type |-> statement[3],
     ccy |-> statement[4], amt |-> movement[2], day |-> movement[3], word |-> movement[4],
     owner |-> IF x = "p4" THEN "Unknown" ELSE "A", amb |-> x = "r4"]
MCFact == [x \in MCRows |-> Row(x, Movements[x], Statements[Movements[x][1]])]

MCDrawers == {{"BA", "BB", "CC"}, {"HK", "US"}, {"S1", "S2"}, {"P1", "P2"}}
MCVersions ==
    [BA |-> {{"a1", "a2"}, {"a2"}}, BB |-> {{"b1"}}, CC |-> {{"c1"}},
     HK |-> {{"h1", "h2", "h4"}, {"h1", "h3", "h4"}, {"h1"}},
     US |-> {{"u1", "u2", "u4"}, {"u1", "u3", "u4"}, {"u1"}},
     S1 |-> {{"r1", "r2"}, {"r1"}}, S2 |-> {{"r3"}, {"r4"}},
     P1 |-> {{"p1", "p2"}, {"p1"}}, P2 |-> {{"p3", "p4"}}]

\* A rate is configured for day 5 only.
MCRate == [ccy \in {"USD"}, day \in 1..5 |-> IF day = 5 THEN {<<8, 1>>} ELSE {}]
MCBalance ==
    [BA |-> [opening |-> {50}, closing |-> {30}], BB |-> [opening |-> {}, closing |-> {10}],
     CC |-> [opening |-> {30}, closing |-> {20}], HK |-> [opening |-> {}, closing |-> {}],
     US |-> [opening |-> {5}, closing |-> {15, 25}], S1 |-> [opening |-> {0}, closing |-> {10}],
     S2 |-> [opening |-> {0}, closing |-> {-8}], P1 |-> [opening |-> {9}, closing |-> {9}],
     P2 |-> [opening |-> {1}, closing |-> {4}]]

MCManualRules ==
    {[managed |-> FALSE, prio |-> 0, pos |-> 1, word |-> "rent", acct |-> None, dir |-> None,
      amount |-> None, cat |-> "Rent", flow |-> None],
     [managed |-> FALSE, prio |-> 5, pos |-> 2, word |-> "rent", acct |-> None, dir |-> "outflow",
      amount |-> None, cat |-> "Internal Transfer", flow |-> "internal_transfer"]}

MCFilePatches ==
    [x \in MCRows |->
        CASE Movements[x][1] \in {"S1", "S2"} ->
                {[cat |-> "Dining", needs |-> FALSE], [cat |-> "Travel", needs |-> FALSE]}
          [] x = "p2" -> {[owner |-> "B"]}
          [] x = "p4" -> {[reasons |-> {"source"}, needs |-> TRUE, cat |-> "Cash"]}
          [] OTHER -> {}]
MCDecisions ==
    [x \in MCRows |->
        CASE x = "a1" -> {"internal-transfer"}
          [] x = "a2" -> {"expense", "internal-transfer"}
          [] x = "b1" -> {"unresolved", "internal-transfer"}
          [] x \in {"h1", "r1"} -> {"expense"}
          [] x = "u3" -> {"income"}
          [] x = "p1" -> {"expense"}
          [] OTHER -> {}]

MCSpending == {"Dining", "Travel", "Rent", "Cash"}
MCGeneric == {"move", "card payment"}
=============================================================================
