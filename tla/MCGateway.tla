------------------------------- MODULE MCGateway -------------------------------
(* The instance TLC checks: who the users are, and what may happen to them: *)
(* one of them after everything the gateway answers, with a service in      *)
(* trouble; one reading a list while the other changes it; or both at the   *)
(* same order.                                                              *)
EXTENDS Gateway

CONSTANTS technician, manager

MCRoleOf == [u \in {technician, manager} |-> IF u = manager THEN "manager" ELSE "technician"]

Asking(route) ==
    [route |-> route, uuid |-> TRUE, id |-> 1, valid |-> TRUE, next |-> "cancelled",
     filter |-> None]

Circumstances(trouble, times, asking, managing, asks, forged) ==
    [down |-> trouble, createdAt |-> times,
     wants |-> [u \in {technician, manager} |-> IF u = manager THEN managing ELSE asking],
     asks |-> [u \in {technician, manager} |-> IF u = manager THEN asks ELSE 1],
     ids |-> IF forged THEN InboundIds ELSE {},
     names |-> IF forged THEN {technician, manager} ELSE {}]

Distinct == [n \in Serials |-> n]

\* The two newest of the first rows share their created_at, and so do those inserted.
Shared == [n \in Serials |-> IF n = 1 THEN 1 ELSE IF n <= InitialRows THEN 2 ELSE 3]

PropertiesInTrouble ==
    Circumstances({"properties"}, Distinct,
        {Asking("summary"), Asking("assign"), Asking("updateStatus")},
        {Asking("createOrder"), [Asking("createOrder") EXCEPT !.valid = FALSE],
         Asking("activity"), [Asking("assign") EXCEPT !.id = 0],
         [Asking("getProperty") EXCEPT !.uuid = FALSE]},
        1, TRUE)

OrdersInTrouble ==
    Circumstances({"work-orders"}, Distinct,
        {Asking("summary"), Asking("updateStatus")}, {Asking("createOrder")}, 1, FALSE)

SameOrder ==
    Circumstances({}, Distinct, {Asking("updateStatus")},
                  {Asking("assign"), Asking("updateStatus")}, 2, TRUE)

\* One reads the orders, all or the open ones, while the other takes one out of
\* the filter or inserts some -- late, if the service is in trouble.
Changes(times) ==
    Circumstances({}, times,
        {Asking("listOrders"), [Asking("listOrders") EXCEPT !.filter = "open"]},
        {Asking("createOrder"), [Asking("updateStatus") EXCEPT !.id = InitialRows]},
        2, FALSE)

LateInserts ==
    Circumstances({"work-orders"}, Distinct, {Asking("listOrders")},
                  {Asking("createOrder")}, 1, FALSE)

MCScenarios ==
    {PropertiesInTrouble, OrdersInTrouble, SameOrder,
     Changes(Distinct), Changes(Shared), LateInserts}

=============================================================================
