---------------------------- MODULE GatewayProofs ----------------------------
(***************************************************************************)
(* Proofs about Gateway, for any number of users, rows and rows to a page, *)
(* any times of creation, any wishes, and any services in trouble: who a   *)
(* change is recorded for, what an answer promises, how far an outage      *)
(* reaches, what reading a list page by page may miss or repeat, and that  *)
(* all of it keeps its type.                                               *)
(***************************************************************************)
EXTENDS Gateway, NumberSets, TLAPS

-----------------------------------------------------------------------------
(* The routes                                                               *)

Ops == ChangingOps \cup {"list", "get", "feed"}

Tables == {"work-orders", "properties"}

ListService(wish) ==
    IF wish.route = "listOrders" THEN "work-orders" ELSE "properties"

LEMMA RouteNames ==
    Route = {"createOrder", "listOrders", "getOrder", "assign", "updateStatus",
             "createProperty", "listProperties", "getProperty", "summary", "activity"}
BY DEF Route, WorkOrdersController, PropertiesController,
       PropertySummaryController, ActivityController

LEMMA RouteCalls ==
    /\ Calls("createOrder") = {<<"work-orders", "create">>}
    /\ Calls("listOrders") = {<<"work-orders", "list">>}
    /\ Calls("getOrder") = {<<"work-orders", "get">>}
    /\ Calls("assign") = {<<"work-orders", "assign">>}
    /\ Calls("updateStatus") = {<<"work-orders", "updateStatus">>}
    /\ Calls("createProperty") = {<<"properties", "create">>}
    /\ Calls("listProperties") = {<<"properties", "list">>}
    /\ Calls("getProperty") = {<<"properties", "get">>}
    /\ Calls("summary") = {<<"properties", "get">>, <<"work-orders", "list">>}
    /\ Calls("activity") = {<<"audit", "feed">>}
BY DEF Calls, Routes, Route, WorkOrdersController, PropertiesController,
       PropertySummaryController, ActivityController

\* Every call of a route goes to a service, and the route requires some service.
LEMMA CallTypes ==
    ASSUME NEW route \in Route
    PROVE  /\ Calls(route) \subseteq Services \X Ops
           /\ \A c \in Calls(route) : c[2] # "feed" => c[1] \in Tables
           /\ Required(route) \subseteq Services
           /\ Required(route) # {}
<1>1. CASE route = "summary"
    BY <1>1, RouteCalls DEF Services, Ops, ChangingOps, Required, Tables
<1>2. CASE route # "summary"
    <2>1. \E s \in Services, op \in Ops :
             Calls(route) = {<<s, op>>} /\ (op # "feed" => s \in Tables)
        BY <1>2, RouteNames, RouteCalls DEF Services, Ops, ChangingOps, Tables
    <2> QED
        BY <1>2, <2>1 DEF Required
<1> QED
    BY <1>1, <1>2

\* A route that changes something makes one call, and no other route changes
\* anything.
LEMMA ChangingRoutes ==
    ASSUME NEW route \in Route
    PROVE  /\ route \in Changing =>
                  \E s \in Tables, op \in ChangingOps :
                      Calls(route) = {<<s, op>>} /\ Required(route) = {s}
           /\ route \notin Changing => \A c \in Calls(route) : c[2] \notin ChangingOps
<1>1. CASE route \in Changing
    <2>1. \E s \in Tables, op \in ChangingOps : Calls(route) = {<<s, op>>}
        BY <1>1, RouteCalls DEF Changing, Tables, ChangingOps
    <2>2. route # "summary"
        BY <1>1 DEF Changing
    <2> QED
        BY <1>1, <2>1, <2>2 DEF Required
<1>2. CASE route \notin Changing
    BY <1>2, RouteNames, RouteCalls DEF Changing, ChangingOps
<1> QED
    BY <1>1, <1>2

LEMMA ListRoutes ==
    ASSUME NEW wish, IsList(wish)
    PROVE  /\ Calls(wish.route) = {<<ListService(wish), "list">>}
           /\ Required(wish.route) = {ListService(wish)}
           /\ ListService(wish) \in Tables
           /\ wish.route \notin Changing
<1>1. Calls(wish.route) = {<<ListService(wish), "list">>} /\ ListService(wish) \in Tables
    BY RouteCalls DEF IsList, ListService, Tables
<1>2. wish.route # "summary" /\ wish.route \notin Changing
    BY DEF IsList, Changing
<1> QED
    BY <1>1, <1>2 DEF Required

-----------------------------------------------------------------------------
(* What a state of the gateway consists of                                  *)

RequestId == Identity \cup InboundIds

Reading == [page : Nat \ {0}, start : SUBSET Nat, seen : SUBSET Nat,
            repeats : Nat, more : BOOLEAN, entered : Nat, left : Nat]

Request ==
    [pc : {"arrived", "authenticated", "waiting", "answered"}, of : Identity,
     wish : Wish, walk : Reading, ctx : Context,
     outcome : [Services -> Codes], answer : Codes]

Write ==
    [of : Identity, route : Route, row : Services \X Nat, echo : RequestId,
     requestId : RequestId, userId : Users \cup {None}]

Job ==
    [of : Identity, service : Services, op : Ops, wish : Wish, page : Nat \ {0},
     echo : RequestId, ctx : Context,
     pc : {"queued", "counting", "running", "loaded", "replied"}, at : Nat,
     before : SUBSET Write, code : Codes, rows : SUBSET Nat, more : BOOLEAN]

\* The tables may hold any finite number of rows.
StateInv ==
    /\ token \in [Users -> BOOLEAN]
    /\ request \in [Users -> Request]
    /\ jobs \subseteq Job
    /\ \A j \in jobs : IsFiniteSet(j.rows)
    /\ tables \in [Tables -> SUBSET Nat]
    /\ \A s \in Tables : IsFiniteSet(tables[s])
    /\ serial \in Nat
    /\ writes \subseteq Write
    /\ entered \in [Lists -> Nat] /\ left \in [Lists -> Nat]
    /\ scenario \in Scenario

\* Behind the guard a request goes by the identity of its user.
RequestInv(u) ==
    /\ request[u].of[1] = u
    /\ request[u].pc \in {"authenticated", "waiting"} => request[u].ctx.userId = u

\* A call is one of those its route makes, on behalf of a user who may use the
\* route, and says so to the service.
CallInv(j) ==
    /\ <<j.service, j.op>> \in Calls(j.wish.route)
    /\ RoleOf[j.of[1]] \in Routes[j.wish.route].roles
    /\ j.ctx.requestId = j.echo
    /\ j.ctx.userId = j.of[1]
    /\ j.pc = "running" => j.op = "create"
    /\ j.pc = "counting" => j.op = "list"
    /\ j.pc = "loaded" => j.op \in {"assign", "updateStatus"}
    /\ j.code = 0 <=> j.pc # "replied"

GatewayInv ==
    /\ StateInv
    /\ \A u \in Users : RequestInv(u)
    /\ \A j \in jobs : CallInv(j)
    /\ WritesAreAttributedAndAllowed

-----------------------------------------------------------------------------
(* Steps, by what they do to the request of a user and to the calls         *)

\* The request of u becomes r.
Becomes(u, r) ==
    /\ r \in Request
    /\ request' = [request EXCEPT ![u] = r]
    /\ token' \in [Users -> BOOLEAN]
    /\ UNCHANGED <<database, scenario>>

SameQuestion(u, r) == r.of = request[u].of /\ r.wish = request[u].wish

Onward(u, r) ==
    SameQuestion(u, r) /\ r.ctx = request[u].ctx /\ r.answer = request[u].answer

\* u asks for something, asks once more, or asks for the next page.
NewQuestion(u, r) ==
    /\ request[u].of[2] < MaxIntents
    /\ r.of = <<u, request[u].of[2] + 1, 1>>
    /\ r.wish \in Wish
    /\ r.walk = StartWalk(r.wish)

SecondAttempt(u, r) ==
    /\ request[u].answer >= 500
    /\ request[u].of[3] < MaxAttempts
    /\ r.of = <<u, request[u].of[2], request[u].of[3] + 1>>
    /\ r.wish = request[u].wish
    /\ r.walk = request[u].walk

Continuation(u, r) ==
    /\ request[u].answer = 200
    /\ request[u].walk.more
    /\ SameQuestion(u, r)
    /\ r.walk = [request[u].walk EXCEPT !.page = @ + 1]

Asks(u, r) ==
    /\ Becomes(u, r)
    /\ request[u].pc = "answered"
    /\ NewQuestion(u, r) \/ SecondAttempt(u, r) \/ Continuation(u, r)
    /\ r.pc = "arrived"
    /\ r.outcome = Unanswered
    /\ r.answer = 0
    /\ jobs' = jobs

Passes(u, r) ==
    /\ Becomes(u, r)
    /\ request[u].pc = "arrived"
    /\ SameQuestion(u, r)
    /\ r.ctx = [request[u].ctx EXCEPT !.userId = u]
    /\ r.walk = request[u].walk /\ r.outcome = request[u].outcome
    /\ r.answer = request[u].answer
    /\ r.pc = "authenticated"
    /\ jobs' = jobs

\* A guard or a pipe turns the request away.
TurnedAway(u, r) ==
    /\ request[u].pc \in {"arrived", "authenticated"}
    /\ r.answer \in {400, 401, 403}

\* The answer of a service that the route requires becomes that of the gateway.
PassedThrough(u, r) ==
    /\ request[u].pc = "waiting"
    /\ \E s \in Required(request[u].wish.route) : r.answer = request[u].outcome[s]
    /\ r.answer # 0

Ends(u, r) ==
    /\ Becomes(u, r)
    /\ SameQuestion(u, r)
    /\ r.walk = request[u].walk /\ r.outcome = request[u].outcome
    /\ r.pc = "answered"
    /\ TurnedAway(u, r) \/ PassedThrough(u, r)
    /\ jobs' = jobs

Forwards(u, r) ==
    /\ Becomes(u, r)
    /\ request[u].pc = "authenticated"
    /\ Permitted(u)
    /\ Onward(u, r)
    /\ r.walk = request[u].walk /\ r.outcome = request[u].outcome
    /\ r.pc = "waiting"
    /\ jobs' = jobs \cup {Call(u, c) : c \in Calls(request[u].wish.route)}

Receives(u, r, j) ==
    /\ Becomes(u, r)
    /\ Awaits(u, j.service)
    /\ IsAnswerTo(j, u)
    /\ j.pc = "replied"
    /\ Onward(u, r)
    /\ r.pc = "waiting"
    /\ r.outcome = [request[u].outcome EXCEPT ![j.service] = j.code]
    /\ r.walk = IF IsList(request[u].wish) /\ j.code = 200
                THEN Read(request[u].walk, j) ELSE request[u].walk
    /\ jobs' = jobs \ {j}

GivesUp(u, r, s) ==
    /\ Becomes(u, r)
    /\ s \in down
    /\ Awaits(u, s)
    /\ Onward(u, r)
    /\ r.pc = "waiting" /\ r.walk = request[u].walk
    /\ \E code \in {500, 502, 504} :
          r.outcome = [request[u].outcome EXCEPT ![s] = code]
    /\ jobs' = jobs \ Void(u, s)

Turns(u, r) ==
    \/ Asks(u, r) \/ Passes(u, r) \/ Ends(u, r) \/ Forwards(u, r)
    \/ \E j \in jobs : Receives(u, r, j)
    \/ \E s \in Services : GivesUp(u, r, s)

\* The call j goes on as r, or is forgotten if nobody waits for it.
SameCall(r, j) ==
    /\ r.of = j.of /\ r.service = j.service /\ r.op = j.op /\ r.wish = j.wish
    /\ r.page = j.page /\ r.echo = j.echo /\ r.ctx = j.ctx

GoesOn(j, r) ==
    /\ r \in Job
    /\ IsFiniteSet(r.rows)
    /\ SameCall(r, j)
    /\ j.pc # "replied" /\ r.pc # "queued"
    /\ r.code = 0 <=> r.pc # "replied"
    /\ r.pc = "running" => r.op = "create"
    /\ r.pc = "counting" => r.op = "list"
    /\ r.pc = "loaded" => r.op \in {"assign", "updateStatus"}
    /\ jobs' \in {jobs \ {j}, (jobs \ {j}) \cup {r}}
    /\ IF r.pc = "counting"
       THEN j.pc = "queued" /\ r.rows \in Pages(ListOf(j.wish), j.page)
       ELSE r.rows = j.rows
    /\ IF r.pc = "running"
       THEN j.pc = "queued" /\ r.at = serial /\ serial' = serial + 1
       ELSE serial' = serial
    /\ UNCHANGED <<token, request, scenario>>

\* Another request was assigning the order.
Clashes(j) ==
    /\ j.op \in {"assign", "updateStatus"}
    /\ j.pc = "loaded"
    /\ \E w \in writes : w.row = Target(j) /\ w.route = "assign"

\* Nothing is changed: the call is under way, or a reply says so.
Leaves(j, r) ==
    /\ r.code \in {0, 400, 404, 409, 500} \/ j.op \notin ChangingOps
    /\ r.code >= 500 => j.service \in down \/ (r.code = 500 /\ Clashes(j))
    /\ r.code = 200 /\ r.op = "list" =>
           /\ j.pc = "counting"
           /\ r.more <=> j.page * Limit < Cardinality(Rows(ListOf(j.wish)))
    /\ UNCHANGED <<tables, progress, writes, entered, left>>

\* Something is changed, and the reply says so.
Alters(j, r) ==
    /\ j.op \in ChangingOps
    /\ r.pc = "replied"
    /\ r.code \in {200, 201}
    /\ \/ /\ j.pc = "running"
          /\ tables' = [tables EXCEPT ![j.service] = @ \cup {j.at}]
          /\ progress' = progress
       \/ /\ tables' = tables
          /\ \/ progress' = progress
             \/ \E s \in Status : progress' = [progress EXCEPT ![j.wish.id] = s]
    /\ Tally
    /\ writes' = writes \cup {Written(j)}

LEMMA ListTypes ==
    ASSUME StateInv, NEW wish \in Wish
    PROVE  /\ ListOf(wish) \in Lists /\ ListOf(wish)[1] \in Tables
           /\ Rows(ListOf(wish)) \subseteq tables[ListOf(wish)[1]]
           /\ Rows(ListOf(wish)) \in SUBSET Nat
           /\ IsFiniteSet(Rows(ListOf(wish)))
           /\ Cardinality(Rows(ListOf(wish))) \in Nat
<1>1. ListOf(wish) \in Lists /\ ListOf(wish)[1] \in Tables
    BY DEF ListOf, Lists, Wish, Tables
<1>2. Rows(ListOf(wish)) \subseteq tables[ListOf(wish)[1]]
    BY DEF Rows
<1>3. tables[ListOf(wish)[1]] \in SUBSET Nat /\ IsFiniteSet(tables[ListOf(wish)[1]])
    BY <1>1 DEF StateInv
<1> QED
    BY <1>1, <1>2, <1>3, FS_Subset, FS_CardinalityType

LEMMA SlicesWithin ==
    ASSUME NEW T, NEW skip, NEW take, NEW P \in Slices(T, skip, take)
    PROVE  P \subseteq T
BY DEF Slices, FirstRows

LEMMA Served ==
    ASSUME StateInv, NEW j \in jobs, CallInv(j), Serve(j) \/ Fail(j)
    PROVE  \E r \in Job : GoesOn(j, r) /\ (Leaves(j, r) \/ Alters(j, r))
<1>1. j \in Job /\ IsFiniteSet(j.rows) /\ j.wish \in Wish
    BY DEF StateInv, Job
\* A reply is kept or forgotten.
<1>2. ASSUME NEW r \in Job, Replies(j, r), SameCall(r, j), j.pc # "replied",
             r.pc = "replied", r.code # 0, r.rows = j.rows,
             UNCHANGED <<token, request, serial, scenario>>, Leaves(j, r) \/ Alters(j, r)
      PROVE  \E x \in Job : GoesOn(j, x) /\ (Leaves(j, x) \/ Alters(j, x))
    <2>1. jobs' \in {jobs \ {j}, (jobs \ {j}) \cup {r}}
        BY <1>2 DEF Replies
    <2>2. IsFiniteSet(r.rows)
        BY <1>1, <1>2
    <2>3. GoesOn(j, r)
        BY <1>2, <2>1, <2>2 DEF GoesOn
    <2> QED
        BY <1>2, <2>3
<1>4. ASSUME NEW code \in Codes
      PROVE  /\ Reply(j, code) \in Job
             /\ SameCall(Reply(j, code), j)
             /\ Reply(j, code).pc = "replied" /\ Reply(j, code).code = code
             /\ Reply(j, code).rows = j.rows
    BY <1>1 DEF Job, SameCall, Reply
<1>5. {200, 201, 400, 404, 409, 500} \subseteq Codes
    BY DEF Codes
<1>6. CASE SelectPage(j)
    <2>1. PICK rows \in Pages(ListOf(j.wish), j.page) :
             jobs' = (jobs \ {j}) \cup {[j EXCEPT !.pc = "counting", !.rows = rows]}
        BY <1>6 DEF SelectPage
    <2>2. rows \in SUBSET Nat /\ IsFiniteSet(rows)
        <3>1. rows \subseteq Rows(ListOf(j.wish))
            BY <2>1, SlicesWithin DEF Pages
        <3> QED
            BY <1>1, <3>1, ListTypes, FS_Subset
    <2>3. PICK r \in Job : /\ r = [j EXCEPT !.pc = "counting", !.rows = rows]
                           /\ SameCall(r, j) /\ r.pc = "counting" /\ r.code = j.code
                           /\ r.rows = rows
        <3>1. [j EXCEPT !.pc = "counting", !.rows = rows] \in Job
            BY <1>1, <2>2 DEF Job
        <3> QED
            BY <1>1, <3>1 DEF Job, SameCall
    <2>4. j.pc = "queued" /\ j.op = "list" /\ j.code = 0
        BY <1>6 DEF SelectPage, Handles, CallInv
    <2>5. UNCHANGED <<token, request, scenario>> /\ UNCHANGED database
        BY <1>6 DEF SelectPage
    <2>6. GoesOn(j, r)
        BY <2>1, <2>2, <2>3, <2>4, <2>5 DEF GoesOn, SameCall, database
    <2>7. Leaves(j, r)
        BY <2>3, <2>4, <2>5 DEF Leaves, database
    <2> QED
        BY <2>6, <2>7
<1>7. CASE CountRows(j)
    <2> DEFINE more == j.page * Limit < Cardinality(Rows(ListOf(j.wish)))
    <2>1. more \in BOOLEAN
        BY SMT
    <2>2. PICK q \in Job : /\ q = Reply(j, 200) /\ SameCall(q, j)
                           /\ q.pc = "replied" /\ q.code = 200 /\ q.rows = j.rows
        BY <1>4, <1>5
    <2>3. Replies(j, [q EXCEPT !.more = more])
        BY <1>7, <2>2, Zenon DEF CountRows
    <2>4. /\ j.pc = "counting" /\ j.op = "list"
          /\ UNCHANGED <<token, request, scenario>> /\ UNCHANGED database
        BY <1>7 DEF CountRows, CallInv
    <2>5. PICK x \in BOOLEAN : x = more
        BY <2>1
    <2>6. PICK r \in Job : /\ r = [q EXCEPT !.more = x]
                           /\ SameCall(r, q) /\ r.pc = q.pc /\ r.code = q.code
                           /\ r.rows = q.rows /\ r.more = x
        <3>1. [q EXCEPT !.more = x] \in Job
            BY Zenon DEF Job
        <3>2. \A f \in DOMAIN q : f # "more" => [q EXCEPT !.more = x][f] = q[f]
            OBVIOUS
        <3> QED
            BY <3>1, <3>2, Zenon DEF Job, SameCall
    <2>7. Replies(j, r)
        BY <2>3, <2>5, <2>6, Zenon
    <2>8. SameCall(r, j) /\ r.pc = "replied" /\ r.code = 200 /\ r.rows = j.rows
        BY <2>2, <2>6 DEF SameCall
    <2>9. r.more <=> j.page * Limit < Cardinality(Rows(ListOf(j.wish)))
        BY <2>5, <2>6
    <2>10. Leaves(j, r)
        BY <2>4, <2>8, <2>9 DEF Leaves, database, ChangingOps
    <2> QED
        BY <1>2, <2>4, <2>7, <2>8, <2>10 DEF database
<1>8. CASE FindOne(j) \/ Invalid(j) \/ Refuse(j) \/ Violates(j) \/ Fail(j)
    <2>1. \E code \in {200, 400, 404, 409, 500} :
             /\ Replies(j, Reply(j, code))
             /\ code = 200 => j.op \in {"get", "feed"}
             /\ code = 500 => j.service \in down \/ Clashes(j)
        <3>1. CASE FindOne(j)
            BY <3>1 DEF FindOne, Handles
        <3>2. CASE Refuse(j)
            BY <3>2 DEF Refuse
        <3>3. CASE Violates(j)
            BY <3>3 DEF Violates, Clashes, OnTheRow, CallInv
        <3> QED
            BY <1>8, <3>1, <3>2, <3>3 DEF Invalid, Fail
    <2>2. j.pc # "replied" /\ UNCHANGED <<token, request, database, scenario>>
        BY <1>8 DEF FindOne, Invalid, Refuse, Violates, Fail, Handles
    <2>3. PICK code \in {200, 400, 404, 409, 500} :
             /\ Replies(j, Reply(j, code))
             /\ code = 200 => j.op \in {"get", "feed"}
             /\ code = 500 => j.service \in down \/ Clashes(j)
        BY <2>1
    <2>4. PICK r \in Job : /\ r = Reply(j, code) /\ SameCall(r, j)
                           /\ r.pc = "replied" /\ r.code = code /\ r.rows = j.rows
        BY <1>4, <1>5, <2>3
    <2>5. Leaves(j, r)
        BY <2>2, <2>3, <2>4 DEF Leaves, database, ChangingOps, SameCall
    <2> QED
        BY <1>2, <2>2, <2>3, <2>4, <2>5 DEF database
<1>9. CASE BeginCreate(j)
    <2>1. PICK r \in Job : /\ r = [j EXCEPT !.pc = "running", !.at = serial]
                           /\ SameCall(r, j) /\ r.pc = "running" /\ r.code = j.code
                           /\ r.rows = j.rows /\ r.at = serial
        <3>1. [j EXCEPT !.pc = "running", !.at = serial] \in Job
            BY <1>1 DEF Job, StateInv
        <3> QED
            BY <1>1, <3>1 DEF Job, SameCall
    <2>2. j.pc = "queued" /\ j.op = "create" /\ j.code = 0
        BY <1>9 DEF BeginCreate, Handles, CallInv
    <2>3. /\ jobs' = (jobs \ {j}) \cup {r} /\ serial' = serial + 1
          /\ UNCHANGED <<token, request, tables, progress, writes, entered, left, scenario>>
        BY <1>9, <2>1 DEF BeginCreate
    <2>4. GoesOn(j, r)
        BY <1>1, <2>1, <2>2, <2>3 DEF GoesOn, SameCall
    <2>5. Leaves(j, r)
        BY <2>1, <2>2, <2>3 DEF Leaves
    <2> QED
        BY <2>4, <2>5
<1>10. CASE Load(j)
    <2>1. PICK r \in Job : /\ r = [j EXCEPT !.pc = "loaded", !.before = OnTheRow(j)]
                           /\ SameCall(r, j) /\ r.pc = "loaded" /\ r.code = j.code
                           /\ r.rows = j.rows
        <3>1. OnTheRow(j) \in SUBSET Write
            BY DEF OnTheRow, StateInv
        <3>2. [j EXCEPT !.pc = "loaded", !.before = OnTheRow(j)] \in Job
            BY <1>1, <3>1 DEF Job
        <3> QED
            BY <1>1, <3>2 DEF Job, SameCall
    <2>2. j.pc = "queued" /\ j.op \in {"assign", "updateStatus"} /\ j.code = 0
        BY <1>10 DEF Load, Handles, CallInv
    <2>3. /\ jobs' = (jobs \ {j}) \cup {r}
          /\ UNCHANGED <<token, request, scenario>> /\ UNCHANGED database
        BY <1>10, <2>1 DEF Load
    <2>4. GoesOn(j, r)
        BY <1>1, <2>1, <2>2, <2>3 DEF GoesOn, SameCall, database
    <2>5. Leaves(j, r)
        BY <2>1, <2>2, <2>3 DEF Leaves, database
    <2> QED
        BY <2>4, <2>5
<1>11. CASE CommitCreate(j) \/ Save(j)
    <2>1. PICK code \in {200, 201} : Replies(j, Reply(j, code))
        BY <1>11 DEF CommitCreate, Save
    <2>2. PICK r \in Job : /\ r = Reply(j, code) /\ SameCall(r, j)
                           /\ r.pc = "replied" /\ r.code = code /\ r.rows = j.rows
        BY <1>4, <1>5, <2>1
    <2>3. /\ j.pc # "replied" /\ j.op \in ChangingOps
          /\ UNCHANGED <<token, request, serial, scenario>>
          /\ Tally /\ writes' = writes \cup {Written(j)}
        BY <1>11 DEF CommitCreate, Save, CallInv, ChangingOps
    <2>4. \/ /\ j.pc = "running"
             /\ tables' = [tables EXCEPT ![j.service] = @ \cup {j.at}]
             /\ progress' = progress
          \/ /\ tables' = tables
             /\ \/ progress' = progress
                \/ \E s \in Status : progress' = [progress EXCEPT ![j.wish.id] = s]
        <3>1. CASE CommitCreate(j)
            BY <3>1 DEF CommitCreate
        <3>2. CASE Save(j)
            <4>1. "assigned" \in Status /\ j.wish.next \in Status
                BY <1>1 DEF Status, Wish
            <4> QED
                BY <3>2, <4>1 DEF Save
        <3> QED
            BY <1>11, <3>1, <3>2
    <2>5. Alters(j, r)
        BY <2>2, <2>3, <2>4 DEF Alters
    <2> QED
        BY <1>2, <2>1, <2>3, <2>2, <2>5
<1> QED
    BY <1>6, <1>7, <1>8, <1>9, <1>10, <1>11 DEF Serve

\* How u's request is read off, and how it is changed.
LEMMA RequestOf ==
    ASSUME StateInv, NEW u \in Users
    PROVE  /\ request[u] \in Request
           /\ request[u].of \in Identity /\ request[u].wish \in Wish
           /\ request[u].walk \in Reading /\ request[u].ctx \in Context
           /\ request[u].outcome \in [Services -> Codes] /\ request[u].answer \in Codes
           /\ request[u].pc \in {"arrived", "authenticated", "waiting", "answered"}
BY DEF StateInv, Request

LEMMA StartTyped ==
    ASSUME StateInv, NEW wish \in Wish
    PROVE  StartWalk(wish) \in Reading
<1>1. NoWalk \in Reading
    BY DEF NoWalk, Reading
<1>2. CASE IsList(wish)
    <2>1. PICK start \in SUBSET Nat : start = Rows(ListOf(wish))
        BY ListTypes
    <2>2. PICK in \in Nat, out \in Nat :
             in = entered[ListOf(wish)] /\ out = left[ListOf(wish)]
        BY ListTypes DEF StateInv
    <2>3. StartWalk(wish) = [page |-> 1, start |-> start, seen |-> {}, repeats |-> 0,
                             more |-> TRUE, entered |-> in, left |-> out]
        BY <1>2, <2>1, <2>2 DEF StartWalk, NoWalk
    <2> QED
        BY <2>3 DEF Reading
<1>3. CASE ~IsList(wish)
    BY <1>1, <1>3 DEF StartWalk
<1> QED
    BY <1>2, <1>3

LEMMA Asked ==
    ASSUME StateInv, NEW u \in Users, RequestInv(u), Ask(u) \/ Retry(u) \/ NextPage(u)
    PROVE  \E r \in Request : Asks(u, r)
<1>1. ASSUME NEW n \in Nat, NEW attempt \in Nat, NEW wish \in Wish, NEW walk \in Reading,
             Sends(u, n, attempt, wish, walk)
      PROVE  \E r \in Request :
                /\ Becomes(u, r)
                /\ r.of = <<u, n, attempt>> /\ r.wish = wish /\ r.walk = walk
                /\ r.pc = "arrived"
                /\ r.outcome = Unanswered /\ r.answer = 0
                /\ jobs' = jobs
    <2>1. PICK header \in Users \cup {None}, id \in InboundIds \cup {<<u, n, attempt>>} :
             request' = [request EXCEPT ![u] =
                            Arriving(<<u, n, attempt>>, wish, walk, id, header)]
        BY <1>1 DEF Sends, StateInv, Scenario
    <2> DEFINE r == Arriving(<<u, n, attempt>>, wish, walk, id, header)
    <2>2. <<u, n, attempt>> \in Identity
        BY DEF Identity
    <2>3. Unanswered \in [Services -> Codes] /\ 0 \in Codes
        BY DEF Unanswered, Codes
    <2>4. [requestId |-> id, userId |-> header] \in Context
        BY <2>2 DEF Context
    <2>5. r \in Request
        BY <2>2, <2>3, <2>4 DEF Request, Arriving
    <2>6. /\ r.of = <<u, n, attempt>> /\ r.wish = wish /\ r.walk = walk
          /\ r.pc = "arrived"
          /\ r.outcome = Unanswered /\ r.answer = 0
        BY DEF Arriving
    <2>7. Becomes(u, r) /\ jobs' = jobs
        BY <1>1, <2>1, <2>5 DEF Becomes, Sends, StateInv
    <2> QED
        BY <2>5, <2>6, <2>7
<1>2. PICK n \in Nat, attempt \in Nat : request[u].of = <<u, n, attempt>>
    BY RequestOf DEF RequestInv, Identity
<1>3. request[u].of[2] = n /\ request[u].of[3] = attempt
    BY <1>2
<1>4. PICK wish0 \in Wish, walk0 \in Reading :
         request[u].wish = wish0 /\ request[u].walk = walk0
    BY RequestOf
<1>5. CASE Ask(u)
    <2>1. PICK wish \in scenario.wants[u] : Sends(u, n + 1, 1, wish, StartWalk(wish))
        BY <1>3, <1>5 DEF Ask
    <2>2. wish \in Wish /\ StartWalk(wish) \in Reading
        BY StartTyped DEF StateInv, Scenario
    <2>3. n + 1 \in Nat /\ 1 \in Nat
        OBVIOUS
    <2>4. PICK r \in Request :
             /\ Becomes(u, r)
             /\ r.of = <<u, n + 1, 1>> /\ r.wish = wish /\ r.walk = StartWalk(wish)
             /\ r.pc = "arrived"
             /\ r.outcome = Unanswered /\ r.answer = 0
             /\ jobs' = jobs
        BY <1>1, <2>1, <2>2, <2>3
    <2>5. n < MaxIntents
        <3>1. scenario.asks[u] \in 0 .. MaxIntents /\ n < scenario.asks[u]
            BY <1>3, <1>5 DEF Ask, StateInv, Scenario
        <3> QED
            BY <3>1, BoundsAssumption
    <2> QED
        BY <1>3, <1>5, <2>2, <2>4, <2>5 DEF Asks, NewQuestion, Ask
<1>6. CASE Retry(u)
    <2>1. Sends(u, n, attempt + 1, wish0, walk0) /\ attempt + 1 \in Nat
        BY <1>3, <1>4, <1>6 DEF Retry
    <2>2. PICK r \in Request :
             /\ Becomes(u, r)
             /\ r.of = <<u, n, attempt + 1>> /\ r.wish = wish0 /\ r.walk = walk0
             /\ r.pc = "arrived"
             /\ r.outcome = Unanswered /\ r.answer = 0
             /\ jobs' = jobs
        BY <1>1, <2>1
    <2> QED
        BY <1>3, <1>4, <1>6, <2>2 DEF Asks, SecondAttempt, Retry
<1>7. CASE NextPage(u)
    <2>1. PICK walk : walk = [walk0 EXCEPT !.page = @ + 1]
        OBVIOUS
    <2>2. Sends(u, n, attempt, wish0, walk)
        BY <1>3, <1>4, <1>7, <2>1 DEF NextPage
    <2>3. walk \in Reading
        <3>1. walk0.page + 1 \in Nat \ {0}
            BY DEF Reading
        <3> QED
            BY <2>1, <3>1 DEF Reading
    <2>4. PICK r \in Request :
             /\ Becomes(u, r)
             /\ r.of = <<u, n, attempt>> /\ r.wish = wish0 /\ r.walk = walk
             /\ r.pc = "arrived"
             /\ r.outcome = Unanswered /\ r.answer = 0
             /\ jobs' = jobs
        BY <1>1, <2>2, <2>3
    <2> QED
        BY <1>2, <1>4, <1>7, <2>1, <2>4 DEF Asks, Continuation, SameQuestion, NextPage
<1> QED
    BY <1>5, <1>6, <1>7

\* What Read makes of a reading.
LEMMA ReadTyped ==
    ASSUME NEW walk \in Reading, NEW j \in Job, IsFiniteSet(j.rows)
    PROVE  /\ Read(walk, j) \in Reading
           /\ Read(walk, j).page = walk.page
           /\ Read(walk, j).start = walk.start
           /\ Read(walk, j).seen = walk.seen \cup j.rows
           /\ Read(walk, j).repeats = walk.repeats + Cardinality(walk.seen \cap j.rows)
           /\ Read(walk, j).more = j.more
           /\ Read(walk, j).entered = walk.entered
           /\ Read(walk, j).left = walk.left
<1>1. PICK seen \in SUBSET Nat : seen = walk.seen \cup j.rows
    BY DEF Reading, Job
<1>2. PICK repeats \in Nat : repeats = walk.repeats + Cardinality(walk.seen \cap j.rows)
    <2>1. Cardinality(walk.seen \cap j.rows) \in Nat
        BY FS_Subset, FS_CardinalityType
    <2> QED
        BY <2>1 DEF Reading
<1>3. PICK more \in BOOLEAN : more = j.more
    BY DEF Job
<1>4. Read(walk, j) = [walk EXCEPT !.seen = seen, !.repeats = repeats, !.more = more]
    BY <1>1, <1>2, <1>3, Zenon DEF Read
<1>5. PICK new : new = [walk EXCEPT !.seen = seen, !.repeats = repeats, !.more = more]
    OBVIOUS
<1>6. new \in Reading
    BY <1>5, Zenon DEF Reading
<1>7. /\ new.page = walk.page /\ new.start = walk.start
      /\ new.entered = walk.entered /\ new.left = walk.left
      /\ new.seen = seen /\ new.repeats = repeats /\ new.more = more
    BY <1>5, Zenon DEF Reading
<1> QED
    BY <1>1, <1>2, <1>3, <1>4, <1>5, <1>6, <1>7, Zenon

\* The steps of the gateway that concern u.
LEMMA Attended ==
    ASSUME StateInv, NEW u \in Users, RequestInv(u),
           GatewayStep(u) \/ \E s \in Services : Unreachable(u, s)
    PROVE  \E r \in Request : Turns(u, r)
<1>1. PICK old \in Request : old = request[u]
    BY RequestOf
<1>2. ASSUME NEW r \in Request, request' = [request EXCEPT ![u] = r],
             token' \in [Users -> BOOLEAN], UNCHANGED <<database, scenario>>
      PROVE  Becomes(u, r)
    BY <1>2 DEF Becomes
<1>3. token \in [Users -> BOOLEAN] /\ request \in [Users -> Request]
    BY DEF StateInv
\* An answer, and the end of the context.
<1> DEFINE Answers(r, code) ==
        /\ Answered(u, code) = [request EXCEPT ![u] = r]
        /\ r.of = old.of /\ r.wish = old.wish /\ r.walk = old.walk
        /\ r.outcome = old.outcome /\ r.pc = "answered" /\ r.answer = code
<1>4. ASSUME NEW code \in Codes
       PROVE  \E r \in Request : Answers(r, code)
    <2>1. PICK ctx \in Context : ctx = [requestId |-> old.of, userId |-> None]
        BY DEF Request, Context
    <2> DEFINE r == [old EXCEPT !.pc = "answered", !.answer = code, !.ctx = ctx]
    <2>2. r \in Request
        BY DEF Request
    <2>3. Answered(u, code) = [request EXCEPT ![u] = r]
        BY <1>1, <1>3, <2>1 DEF Request, Answered
    <2>4. /\ r.of = old.of /\ r.wish = old.wish /\ r.walk = old.walk
          /\ r.outcome = old.outcome /\ r.pc = "answered" /\ r.answer = code
        BY DEF Request
    <2> QED
        BY <2>2, <2>3, <2>4
<1>5. ASSUME NEW code \in {400, 401, 403}, request[u].pc \in {"arrived", "authenticated"},
             request' = Answered(u, code), token' \in [Users -> BOOLEAN],
             UNCHANGED <<jobs, database, scenario>>
      PROVE  \E r \in Request : Turns(u, r)
    <2>1. code \in Codes
        BY DEF Codes
    <2>2. PICK r \in Request : Answers(r, code)
        BY <1>1, <2>1, <1>4
    <2>3. request' = [request EXCEPT ![u] = r]
        BY <1>5, <2>2
    <2>4. /\ r.of = old.of /\ r.wish = old.wish /\ r.walk = old.walk
          /\ r.outcome = old.outcome /\ r.pc = "answered" /\ r.answer = code
        BY <2>2
    <2>5. Becomes(u, r)
        BY <1>2, <1>5, <2>3
    <2>6. Ends(u, r)
        BY <1>1, <1>5, <2>4, <2>5 DEF Ends, SameQuestion, TurnedAway
    <2> QED
        BY <2>6 DEF Turns
<1>6. CASE Authenticate(u)
    <2> DEFINE r == [old EXCEPT !.pc = "authenticated", !.ctx = [@ EXCEPT !.userId = u]]
    <2>1. [old.ctx EXCEPT !.userId = u] \in Context
        BY DEF Request, Context
    <2>2. r \in Request
        BY <2>1 DEF Request
    <2>3. request' = [request EXCEPT ![u] = r]
        BY <1>1, <1>3, <1>6 DEF Authenticate, Request
    <2>4. /\ r.of = old.of /\ r.wish = old.wish /\ r.walk = old.walk
          /\ r.ctx = [old.ctx EXCEPT !.userId = u] /\ r.outcome = old.outcome
          /\ r.pc = "authenticated" /\ r.answer = old.answer
        BY DEF Request
    <2>5. Becomes(u, r) /\ request[u].pc = "arrived" /\ jobs' = jobs
        BY <1>2, <1>3, <1>6, <2>2, <2>3 DEF Authenticate
    <2> QED
        BY <1>1, <2>2, <2>4, <2>5 DEF Turns, Passes, SameQuestion
<1>7. CASE Unauthorized(u)
    <2>1. /\ request' = Answered(u, 401) /\ request[u].pc = "arrived"
          /\ token' \in [Users -> BOOLEAN] /\ UNCHANGED <<jobs, database, scenario>>
        BY <1>3, <1>7 DEF Unauthorized
    <2> QED
        BY <1>5, <2>1
<1>8. CASE Forbidden(u) \/ BadPath(u)
    <2>1. /\ request' = Answered(u, 403) \/ request' = Answered(u, 400)
          /\ request[u].pc = "authenticated"
          /\ token' \in [Users -> BOOLEAN] /\ UNCHANGED <<jobs, database, scenario>>
        BY <1>3, <1>8 DEF Forbidden, BadPath
    <2> QED
        BY <1>5, <2>1
<1>9. CASE Forward(u)
    <2> DEFINE r == [old EXCEPT !.pc = "waiting"]
    <2>1. r \in Request /\ request' = [request EXCEPT ![u] = r]
        BY <1>1, <1>3, <1>9 DEF Request, Forward
    <2>2. /\ r.of = old.of /\ r.wish = old.wish /\ r.ctx = old.ctx /\ r.walk = old.walk
          /\ r.outcome = old.outcome /\ r.pc = "waiting" /\ r.answer = old.answer
        BY DEF Request
    <2>3. /\ Becomes(u, r) /\ request[u].pc = "authenticated" /\ Permitted(u)
          /\ jobs' = jobs \cup {Call(u, c) : c \in Calls(request[u].wish.route)}
        BY <1>2, <1>3, <1>9, <2>1 DEF Forward
    <2> QED
        BY <1>1, <2>1, <2>2, <2>3 DEF Turns, Forwards, Onward, SameQuestion
<1>10. ASSUME NEW j \in jobs, Receive(u, j)
      PROVE  \E r \in Request : Turns(u, r)
    <2>1. j \in Job /\ IsFiniteSet(j.rows)
        BY DEF StateInv
    <2>2. PICK walk \in Reading :
             walk = IF IsList(old.wish) /\ j.code = 200 THEN Read(old.walk, j) ELSE old.walk
        BY <1>1, <2>1, RequestOf, ReadTyped
    <2>3. PICK outcome \in [Services -> Codes] :
             outcome = [old.outcome EXCEPT ![j.service] = j.code]
        BY <2>1 DEF Request, Job
    <2> DEFINE r == [old EXCEPT !.outcome = outcome, !.walk = walk]
    <2>4. r \in Request
        BY DEF Request
    <2>5. request' = [request EXCEPT ![u] = r]
        BY <1>1, <1>3, <1>10, <2>2, <2>3 DEF Receive, Request
    <2>6. /\ r.of = old.of /\ r.wish = old.wish /\ r.ctx = old.ctx /\ r.walk = walk
          /\ r.outcome = outcome /\ r.pc = old.pc /\ r.answer = old.answer
        BY DEF Request
    <2>7. /\ Becomes(u, r) /\ Awaits(u, j.service) /\ IsAnswerTo(j, u) /\ j.pc = "replied"
          /\ request[u].pc = "waiting" /\ jobs' = jobs \ {j}
        BY <1>2, <1>3, <1>10, <2>4, <2>5 DEF Receive, Awaits
    <2>8. Receives(u, r, j)
        BY <1>1, <2>2, <2>3, <2>6, <2>7 DEF Receives, Onward, SameQuestion
    <2> QED
        BY <2>4, <2>8 DEF Turns
<1>11. ASSUME NEW s \in Services, Timeout(u, s) \/ Unreachable(u, s)
       PROVE  \E r \in Request : Turns(u, r)
    <2>1. PICK code \in {500, 502, 504} : request' = [request EXCEPT ![u].outcome[s] = code]
        BY <1>11 DEF Timeout, Unreachable
    <2>2. PICK outcome \in [Services -> Codes] : outcome = [old.outcome EXCEPT ![s] = code]
        <3>1. code \in Codes
            BY DEF Codes
        <3> QED
            BY <3>1 DEF Request
    <2> DEFINE r == [old EXCEPT !.outcome = outcome]
    <2>3. r \in Request
        BY DEF Request
    <2>4. request' = [request EXCEPT ![u] = r]
        BY <1>1, <1>3, <2>1, <2>2 DEF Request
    <2>5. /\ r.of = old.of /\ r.wish = old.wish /\ r.ctx = old.ctx /\ r.walk = old.walk
          /\ r.outcome = outcome /\ r.pc = old.pc /\ r.answer = old.answer
        BY DEF Request
    <2>6. /\ s \in down /\ Awaits(u, s) /\ jobs' = jobs \ Void(u, s)
          /\ UNCHANGED <<token, database, scenario>>
        BY <1>11 DEF Timeout, Unreachable
    <2>7. Becomes(u, r) /\ request[u].pc = "waiting"
        BY <1>2, <1>3, <2>3, <2>4, <2>6 DEF Awaits
    <2>8. GivesUp(u, r, s)
        BY <1>1, <2>2, <2>5, <2>6, <2>7 DEF GivesUp, Onward, SameQuestion
    <2> QED
        BY <2>3, <2>8 DEF Turns
<1>12. CASE Respond(u)
    <2>1. PICK s \in Required(request[u].wish.route) :
             /\ request[u].outcome[s] # 0
             /\ request' = Answered(u, request[u].outcome[s])
        <3>1. request[u].wish.route \in Route
            BY <1>1, RequestOf DEF Wish
        <3>2. Required(request[u].wish.route) # {}
            BY <3>1, CallTypes
        <3>3. (CHOOSE s \in Required(request[u].wish.route) : TRUE)
                  \in Required(request[u].wish.route)
            BY <3>2
        <3> QED
            BY <1>12, <3>3 DEF Respond
    <2>2. PICK code \in Codes : code = request[u].outcome[s]
        <3>1. s \in Services
            BY <1>1, RequestOf, CallTypes DEF Wish
        <3> QED
            BY <3>1, RequestOf
    <2>3. PICK r \in Request : Answers(r, code)
        BY <1>4
    <2>4. /\ r.of = old.of /\ r.wish = old.wish /\ r.walk = old.walk
          /\ r.outcome = old.outcome /\ r.pc = "answered" /\ r.answer = code
          /\ request' = [request EXCEPT ![u] = r]
        BY <2>1, <2>2, <2>3
    <2>5. /\ Becomes(u, r) /\ request[u].pc = "waiting" /\ jobs' = jobs
        BY <1>2, <1>3, <1>12, <2>4 DEF Respond
    <2>6. PassedThrough(u, r)
        BY <2>1, <2>2, <2>4, <2>5 DEF PassedThrough
    <2> QED
        BY <1>1, <2>4, <2>5, <2>6 DEF Turns, Ends, SameQuestion
<1> QED
    BY <1>6, <1>7, <1>8, <1>9, <1>10, <1>11, <1>12 DEF GatewayStep

\* Every step is one of these; Login only hands out a token.
LEMMA Moves ==
    ASSUME GatewayInv, [Next]_vars
    PROVE  \/ /\ token' \in [Users -> BOOLEAN]
              /\ UNCHANGED <<request, jobs, database, scenario>>
           \/ \E u \in Users, r \in Request : Turns(u, r)
           \/ \E j \in jobs, r \in Job : GoesOn(j, r) /\ (Leaves(j, r) \/ Alters(j, r))
<1>1. CASE UNCHANGED vars
    BY <1>1 DEF vars, GatewayInv, StateInv
<1>2. ASSUME NEW u \in Users, Login(u)
      PROVE  /\ token' \in [Users -> BOOLEAN]
             /\ UNCHANGED <<request, jobs, database, scenario>>
    BY <1>2 DEF Login, GatewayInv, StateInv
<1>3. ASSUME NEW u \in Users, Ask(u) \/ Retry(u) \/ NextPage(u)
      PROVE  \E r \in Request : Turns(u, r)
    BY <1>3, Asked DEF GatewayInv, Turns
<1>4. ASSUME NEW u \in Users, GatewayStep(u) \/ \E s \in Services : Unreachable(u, s)
      PROVE  \E r \in Request : Turns(u, r)
    BY <1>4, Attended DEF GatewayInv
<1>5. ASSUME NEW j \in jobs, Serve(j) \/ Fail(j)
      PROVE  \E r \in Job : GoesOn(j, r) /\ (Leaves(j, r) \/ Alters(j, r))
    BY <1>5, Served DEF GatewayInv
<1>6. CASE Next
    BY <1>2, <1>3, <1>4, <1>5, <1>6 DEF Next
<1> QED
    BY <1>1, <1>6

\* Whatever u's request becomes, the others are what they were.
LEMMA Others ==
    ASSUME StateInv, NEW u \in Users, NEW r \in Request, Becomes(u, r)
    PROVE  /\ request' \in [Users -> Request]
           /\ request'[u] = r
           /\ \A v \in Users \ {u} : request'[v] = request[v]
BY DEF StateInv, Becomes

\* The calls of a route, on behalf of u.
LEMMA NewCalls ==
    ASSUME StateInv, NEW u \in Users, RequestInv(u), Permitted(u),
           request[u].pc = "authenticated",
           NEW c \in Calls(request[u].wish.route)
    PROVE  /\ Call(u, c) \in Job /\ CallInv(Call(u, c))
           /\ Call(u, c).rows = {} /\ Call(u, c).of = request[u].of
           /\ Call(u, c).wish = request[u].wish /\ Call(u, c).op = c[2]
           /\ Call(u, c).page = request[u].walk.page
           /\ Call(u, c).pc = "queued" /\ Call(u, c).code = 0
<1>1. request[u].wish.route \in Route
    BY RequestOf DEF Wish
<1>2. c \in Services \X Ops
    BY <1>1, CallTypes
<1>3. c[1] \in Services /\ c[2] \in Ops /\ c = <<c[1], c[2]>>
    BY <1>2
<1>4. request[u].walk.page \in Nat \ {0}
    BY RequestOf DEF Reading
<1>5. Call(u, c) \in Job
    <2>1. request[u].ctx.requestId \in RequestId /\ request[u].ctx \in Context
        BY RequestOf DEF Context, RequestId
    <2> QED
        BY <1>3, <1>4, <2>1, RequestOf DEF Call, CurrentContext, Job, Codes
<1>6. CallInv(Call(u, c))
    BY <1>3 DEF CallInv, Call, CurrentContext, RequestInv, Permitted
<1> QED
    BY <1>5, <1>6 DEF Call

LEMMA GatewayInvInit == Init => GatewayInv
<1> SUFFICES ASSUME Init
             PROVE  GatewayInv
    OBVIOUS
<1>1. ASSUME NEW u \in Users
      PROVE  NoRequest(u) \in Request
    <2>1. Unanswered \in [Services -> Codes] /\ 0 \in Codes
        BY DEF Unanswered, Codes
    <2>2. [route |-> "activity", uuid |-> TRUE, id |-> 0, valid |-> TRUE,
           next |-> "open", filter |-> None] \in Wish
        BY RouteNames DEF Wish, Status
    <2>3. NoWalk \in Reading
        BY DEF NoWalk, Reading
    <2>4. <<u, 0, 1>> \in Identity
        BY DEF Identity
    <2>5. [requestId |-> <<u, 0, 1>>, userId |-> None] \in Context
        BY <2>4 DEF Context
    <2> QED
        BY <2>1, <2>2, <2>3, <2>4, <2>5 DEF NoRequest, Arriving, Request
<1>2. request \in [Users -> Request]
    BY <1>1 DEF Init
<1>3. \A u \in Users : RequestInv(u)
    BY DEF Init, RequestInv, NoRequest, Arriving
<1>4. 1 .. InitialRows \in SUBSET Nat /\ IsFiniteSet(1 .. InitialRows)
    <2>1. InitialRows \in Int /\ 1 \in Int
        BY BoundsAssumption
    <2> QED
        BY <2>1, BoundsAssumption, FS_Interval
<1>5. tables \in [Tables -> SUBSET Nat] /\ \A s \in Tables : IsFiniteSet(tables[s])
    BY <1>4 DEF Init, Tables
<1>6. StateInv
    BY <1>2, <1>5, BoundsAssumption, UsersAssumption DEF Init, StateInv
<1> QED
    BY <1>3, <1>6 DEF Init, GatewayInv, WritesAreAttributedAndAllowed

LEMMA GatewayInvNext == GatewayInv /\ [Next]_vars => GatewayInv'
<1> SUFFICES ASSUME GatewayInv, [Next]_vars
             PROVE  GatewayInv'
    OBVIOUS
<1>1. StateInv
    BY DEF GatewayInv
<1>2. CASE token' \in [Users -> BOOLEAN] /\ UNCHANGED <<request, jobs, database, scenario>>
    BY <1>2 DEF GatewayInv, StateInv, RequestInv, CallInv, database,
                WritesAreAttributedAndAllowed
<1>3. ASSUME NEW u \in Users, NEW r \in Request, Turns(u, r)
      PROVE  GatewayInv'
    <2>1. Becomes(u, r)
        BY <1>3 DEF Turns, Asks, Passes, Ends, Forwards, Receives, GivesUp
    <2>2. /\ request' \in [Users -> Request] /\ request'[u] = r
          /\ \A v \in Users \ {u} : request'[v] = request[v]
        BY <1>1, <2>1, Others
    <2>3. RequestInv(u)
        BY DEF GatewayInv
    <2>4. \A v \in Users : RequestInv(v)'
        <3>1. /\ r.of[1] = u
              /\ r.pc \in {"authenticated", "waiting"} => r.ctx.userId = u
            <4>1. CASE Asks(u, r)
                BY <2>3, <4>1 DEF Asks, NewQuestion, SecondAttempt, Continuation,
                                 SameQuestion, RequestInv
            <4>2. CASE Passes(u, r)
                <5>1. request[u].ctx \in Context
                    BY <1>1, RequestOf
                <5> QED
                    BY <2>3, <4>2, <5>1 DEF Passes, SameQuestion, RequestInv, Context
            <4>3. CASE Ends(u, r)
                BY <2>3, <4>3 DEF Ends, SameQuestion, RequestInv
            <4>4. Onward(u, r) /\ request[u].pc \in {"authenticated", "waiting"}
                     => r.of[1] = u /\ r.ctx.userId = u
                BY <2>3 DEF Onward, SameQuestion, RequestInv
            <4> QED
                BY <1>3, <4>1, <4>2, <4>3, <4>4 DEF Turns, Forwards, Receives, GivesUp, Awaits
        <3> QED
            BY <2>2, <3>1 DEF GatewayInv, RequestInv
    <2>5. \A j \in jobs' : j \in Job /\ IsFiniteSet(j.rows) /\ CallInv(j)
        <3>1. \A j \in jobs : j \in Job /\ IsFiniteSet(j.rows) /\ CallInv(j)
            BY DEF GatewayInv, StateInv
        <3>2. CASE Forwards(u, r)
            <4>1. ASSUME NEW c \in Calls(request[u].wish.route)
                  PROVE  /\ Call(u, c) \in Job /\ CallInv(Call(u, c))
                         /\ Call(u, c).rows = {}
                BY <1>1, <2>3, <3>2, NewCalls DEF Forwards
            <4> QED
                BY <3>1, <3>2, <4>1, FS_EmptySet DEF Forwards
        <3>3. CASE ~Forwards(u, r)
            <4>1. jobs' \subseteq jobs
                BY <1>3, <3>3 DEF Turns, Asks, Passes, Ends, Receives, GivesUp
            <4> QED
                BY <3>1, <4>1
        <3> QED
            BY <3>2, <3>3
    <2>6. token' \in [Users -> BOOLEAN] /\ UNCHANGED <<database, scenario>>
          /\ UNCHANGED <<tables, serial, writes, entered, left>>
        BY <2>1 DEF Becomes, database
    <2>7. StateInv'
        BY <1>1, <2>2, <2>5, <2>6 DEF StateInv
    <2>8. WritesAreAttributedAndAllowed'
        BY <2>6 DEF GatewayInv, WritesAreAttributedAndAllowed
    <2>9. \A j \in jobs' : CallInv(j)'
        BY <2>5 DEF CallInv
    <2> QED
        BY <2>4, <2>7, <2>8, <2>9 DEF GatewayInv
<1>4. ASSUME NEW j \in jobs, NEW r \in Job, GoesOn(j, r), Leaves(j, r) \/ Alters(j, r)
      PROVE  GatewayInv'
    <2>1. j \in Job /\ CallInv(j) /\ IsFiniteSet(r.rows) /\ SameCall(r, j)
        BY <1>4 DEF GatewayInv, StateInv, GoesOn
    <2>2. CallInv(r)
        BY <1>4, <2>1 DEF GoesOn, CallInv, SameCall
    <2>3. UNCHANGED <<token, request, scenario>> /\ jobs' \subseteq jobs \cup {r}
        BY <1>4 DEF GoesOn
    <2>4. jobs' \subseteq Job /\ \A k \in jobs' : IsFiniteSet(k.rows) /\ CallInv(k)
        BY <2>1, <2>2, <2>3 DEF GatewayInv, StateInv
    <2>5. serial' \in Nat
        BY <1>1, <1>4 DEF GoesOn, StateInv
    <2>6. tables' \in [Tables -> SUBSET Nat] /\ \A s \in Tables : IsFiniteSet(tables'[s])
        <3>1. CASE tables' = tables
            BY <1>1, <3>1 DEF StateInv
        <3>2. CASE tables' = [tables EXCEPT ![j.service] = @ \cup {j.at}]
            <4>1. j.at \in Nat
                BY <2>1 DEF Job
            <4>2. ASSUME NEW s \in Tables
                  PROVE  IsFiniteSet(tables[s]) /\ IsFiniteSet(tables[s] \cup {j.at})
                BY <1>1, FS_AddElement DEF StateInv
            <4> QED
                BY <1>1, <3>2, <4>1, <4>2 DEF StateInv
        <3> QED
            BY <1>4, <3>1, <3>2 DEF Leaves, Alters
    <2>7. entered' \in [Lists -> Nat] /\ left' \in [Lists -> Nat]
        <3>1. CASE UNCHANGED <<entered, left>>
            BY <1>1, <3>1 DEF StateInv
        <3>2. CASE Tally
            <4>1. ASSUME NEW list \in Lists
                  PROVE  /\ Cardinality(Rows(list)' \ Rows(list)) \in Nat
                         /\ Cardinality(Rows(list) \ Rows(list)') \in Nat
                <5>1. list[1] \in Tables
                    BY DEF Lists, Tables
                <5>2. Rows(list) \subseteq tables[list[1]] /\ Rows(list)' \subseteq tables'[list[1]]
                    BY DEF Rows
                <5>3. IsFiniteSet(tables[list[1]]) /\ IsFiniteSet(tables'[list[1]])
                    BY <1>1, <2>6, <5>1 DEF StateInv
                <5>4. /\ Rows(list)' \ Rows(list) \subseteq tables'[list[1]]
                      /\ Rows(list) \ Rows(list)' \subseteq tables[list[1]]
                    BY <5>2
                <5> QED
                    BY <5>3, <5>4, FS_Subset, FS_CardinalityType
            <4>2. ASSUME NEW list \in Lists
                  PROVE  entered'[list] \in Nat /\ left'[list] \in Nat
                <5>1. /\ entered'[list] = entered[list] + Cardinality(Rows(list)' \ Rows(list))
                      /\ left'[list] = left[list] + Cardinality(Rows(list) \ Rows(list)')
                    BY <3>2, Zenon DEF Tally
                <5>2. entered[list] \in Nat /\ left[list] \in Nat
                    BY <1>1 DEF StateInv
                <5> QED
                    BY <4>1, <5>1, <5>2
            <4>3. DOMAIN entered' = Lists /\ DOMAIN left' = Lists
                BY <3>2, Zenon DEF Tally
            <4>4. entered' = [x \in DOMAIN entered' |-> entered'[x]] /\ left' = [x \in DOMAIN left' |-> left'[x]]
                BY <3>2, Zenon DEF Tally
            <4> QED
                BY <4>2, <4>3, <4>4
        <3> QED
            BY <1>4, <3>1, <3>2 DEF Leaves, Alters
    <2>8. writes' \subseteq Write /\ WritesAreAttributedAndAllowed'
        <3>1. CASE UNCHANGED writes
            BY <3>1 DEF GatewayInv, StateInv, WritesAreAttributedAndAllowed
        <3>2. CASE writes' = writes \cup {Written(j)}
            <4>1. Written(j) \in Write
                <5>1. Target(j) \in Services \X Nat
                    BY <2>1 DEF Target, Job, Wish
                <5>2. j.ctx.requestId \in RequestId /\ j.ctx.userId \in Users \cup {None}
                    BY <2>1 DEF Job, Context, RequestId
                <5> QED
                    BY <2>1, <5>1, <5>2 DEF Written, Write, Job, Wish
            <4>2. /\ Written(j).requestId = Written(j).echo
                  /\ Written(j).userId = Written(j).of[1]
                  /\ RoleOf[Written(j).of[1]] \in Routes[Written(j).route].roles
                BY <2>1 DEF Written, CallInv
            <4> QED
                BY <3>2, <4>1, <4>2 DEF GatewayInv, StateInv, WritesAreAttributedAndAllowed
        <3> QED
            BY <1>4, <3>1, <3>2 DEF Leaves, Alters
    <2>9. StateInv'
        BY <1>1, <2>3, <2>4, <2>5, <2>6, <2>8, <2>7 DEF StateInv
    <2>10. \A u \in Users : RequestInv(u)'
        BY <2>3 DEF GatewayInv, RequestInv
    <2>11. \A k \in jobs' : CallInv(k)'
        BY <2>4 DEF CallInv
    <2> QED
        BY <2>8, <2>9, <2>10, <2>11 DEF GatewayInv
<1> QED
    BY <1>2, <1>3, <1>4, Moves

\* Every change is recorded under the id that the request it came from is answered
\* with and in the name of the user who sent it, whatever headers came with it,
\* whoever else was being served and under whatever id, and that user's role allows
\* the route.
THEOREM ChangesHaveAnAuthor == Spec => []WritesAreAttributedAndAllowed
<1>1. GatewayInv => WritesAreAttributedAndAllowed
    BY DEF GatewayInv
<1> QED
    BY <1>1, GatewayInvInit, GatewayInvNext, PTL DEF Spec

-----------------------------------------------------------------------------
(* A request and what is done for it                                        *)

\* The identity a is not younger than b, of the same user.
UpTo(a, b) == a[2] < b[2] \/ (a[2] = b[2] /\ a[3] <= b[3])

Unsent(r) == r.pc \in {"arrived", "authenticated"}

\* Nobody works for a request that is still to come; those who work for this one
\* do what it asks for, up to its page; and only what it asks for was changed.
FreshInv(u) ==
    LET r == request[u]
    IN  /\ \A j \in jobs : j.of[1] = u => UpTo(j.of, r.of)
        /\ \A j \in jobs :
              j.of = r.of =>
                  /\ j.wish = r.wish
                  /\ j.page <= r.walk.page
                  /\ Unsent(r) => j.page < r.walk.page
        /\ \A w \in writes : w.of[1] = u => UpTo(w.of, r.of)
        /\ \A w \in writes :
              w.of = r.of =>
                  w.route = r.wish.route /\ r.wish.route \in Changing /\ ~Unsent(r)
        /\ r.walk.more = TRUE \/ r.walk.page > 1 => IsList(r.wish)
        /\ r.answer # 0 => r.pc = "answered"

AllFresh == \A u \in Users : FreshInv(u)

LEMMA FreshInit == Init => AllFresh
BY DEF Init, AllFresh, FreshInv, NoRequest, NoWalk, Arriving

LEMMA TurnJobs ==
    ASSUME NEW u \in Users, NEW r \in Request, Turns(u, r)
    PROVE  /\ Becomes(u, r)
           /\ Forwards(u, r) \/ jobs' \subseteq jobs
BY DEF Turns, Asks, Passes, Ends, Forwards, Receives, GivesUp

\* The numbers of a request.
LEMMA Numbers ==
    ASSUME StateInv, NEW u \in Users
    PROVE  /\ request[u].of[2] \in Nat /\ request[u].of[3] \in Nat
           /\ request[u].walk.page \in Nat \ {0}
           /\ \A j \in jobs : /\ j \in Job /\ j.wish \in Wish /\ j.wish.route \in Route
                              /\ j.of[1] \in Users /\ j.of[2] \in Nat /\ j.of[3] \in Nat
                              /\ j.page \in Nat \ {0}
           /\ \A w \in writes : w.of[2] \in Nat /\ w.of[3] \in Nat
<1>1. request[u].of \in Identity /\ request[u].walk \in Reading
    BY RequestOf
<1>2. \A j \in jobs : j \in Job
    BY DEF StateInv
<1>3. \A w \in writes : w \in Write
    BY DEF StateInv
<1>4. \A o \in Identity : o[1] \in Users /\ o[2] \in Nat /\ o[3] \in Nat
    BY DEF Identity
<1>5. \A j \in jobs : j.of \in Identity /\ j.wish \in Wish /\ j.page \in Nat \ {0}
    BY <1>2 DEF Job
<1>6. \A j \in jobs : j.wish.route \in Route
    BY <1>5 DEF Wish
<1>7. \A w \in writes : w.of \in Identity
    BY <1>3 DEF Write
<1> QED
    BY <1>1, <1>2, <1>4, <1>5, <1>6, <1>7 DEF Reading

\* A call that changes something belongs to a route that does.
LEMMA ChangingCalls ==
    ASSUME GatewayInv, NEW j \in jobs
    PROVE  j.op \in ChangingOps <=> j.wish.route \in Changing
<1>1. CallInv(j) /\ j.wish.route \in Route
    BY DEF GatewayInv, StateInv, Job, Wish
<1>2. PICK c \in Calls(j.wish.route) : c = <<j.service, j.op>>
    BY <1>1 DEF CallInv
<1>3. c[2] = j.op
    BY <1>2
<1>4. CASE j.wish.route \in Changing
    BY <1>1, <1>3, <1>4, ChangingRoutes
<1>5. CASE j.wish.route \notin Changing
    BY <1>1, <1>3, <1>5, ChangingRoutes
<1> QED
    BY <1>4, <1>5

LEMMA FreshNext == GatewayInv /\ AllFresh /\ [Next]_vars => AllFresh'
<1> SUFFICES ASSUME GatewayInv, AllFresh, [Next]_vars
             PROVE  AllFresh'
    OBVIOUS
<1>1. StateInv
    BY DEF GatewayInv
<1>2. CASE token' \in [Users -> BOOLEAN] /\ UNCHANGED <<request, jobs, database, scenario>>
    BY <1>2 DEF AllFresh, FreshInv, database
<1>3. ASSUME NEW u \in Users, NEW r \in Request, Turns(u, r)
      PROVE  AllFresh'
    <2>1. Becomes(u, r) /\ (Forwards(u, r) \/ jobs' \subseteq jobs)
        BY <1>3, TurnJobs
    <2>2. /\ request'[u] = r /\ \A v \in Users \ {u} : request'[v] = request[v]
          /\ writes' = writes
        BY <1>1, <2>1, Others DEF Becomes, database
    <2>3. RequestInv(u) /\ FreshInv(u)
        BY DEF GatewayInv, AllFresh
    <2>4. \A j \in jobs' : j \in jobs \/ j.of = request[u].of
        <3>1. CASE Forwards(u, r)
            BY <1>1, <2>3, <3>1, NewCalls DEF Forwards
        <3> QED
            BY <2>1, <3>1
    <2>5. ASSUME NEW v \in Users \ {u}
          PROVE  FreshInv(v)'
        <3>1. FreshInv(v) /\ request[v].of[1] = v /\ request[u].of[1] = u
            BY DEF AllFresh, GatewayInv, RequestInv
        <3>2. \A j \in jobs' : j.of[1] = v \/ j.of = request[v].of => j \in jobs
            BY <2>4, <3>1
        <3> QED
            BY <2>2, <3>1, <3>2 DEF FreshInv
    <2>6. PICK old \in Request : old = request[u]
        BY <1>1, RequestOf
    <2>7. /\ old.of[2] \in Nat /\ old.of[3] \in Nat /\ old.walk.page \in Nat \ {0}
          /\ \A j \in jobs : j.of[2] \in Nat /\ j.of[3] \in Nat /\ j.page \in Nat \ {0}
          /\ \A w \in writes : w.of[2] \in Nat /\ w.of[3] \in Nat
        BY <1>1, <2>6, Numbers
    <2>8. /\ \A j \in jobs : j.of[1] = u => UpTo(j.of, old.of)
          /\ \A j \in jobs :
                j.of = old.of =>
                    /\ j.wish = old.wish /\ j.page <= old.walk.page
                    /\ Unsent(old) => j.page < old.walk.page
          /\ \A w \in writes : w.of[1] = u => UpTo(w.of, old.of)
          /\ \A w \in writes :
                w.of = old.of => /\ w.route = old.wish.route
                                 /\ old.wish.route \in Changing
                                 /\ ~Unsent(old)
          /\ old.walk.more = TRUE \/ old.walk.page > 1 => IsList(old.wish)
          /\ old.answer # 0 => old.pc = "answered"
        BY <2>3, <2>6 DEF FreshInv
    <2>9. ASSUME Asks(u, r) /\ ~Continuation(u, r)
          PROVE  FreshInv(u)'
        <3>1. jobs' = jobs /\ r.answer = 0
            BY <2>9 DEF Asks
        <3>2. /\ r.of[1] = u /\ r.of[2] \in Nat /\ r.of[3] \in Nat
              /\ \/ r.of[2] = old.of[2] + 1
                 \/ r.of[2] = old.of[2] /\ r.of[3] = old.of[3] + 1
            BY <2>6, <2>7, <2>9 DEF Asks, NewQuestion, SecondAttempt
        <3>3. /\ \A j \in jobs : j.of[1] = u => UpTo(j.of, r.of) /\ j.of # r.of
              /\ \A w \in writes : w.of[1] = u => UpTo(w.of, r.of) /\ w.of # r.of
            BY <2>7, <2>8, <3>2 DEF UpTo
        <3>4. r.walk.more = TRUE \/ r.walk.page > 1 => IsList(r.wish)
            <4>1. CASE NewQuestion(u, r)
                BY <4>1 DEF NewQuestion, StartWalk, NoWalk
            <4>2. CASE SecondAttempt(u, r)
                BY <2>6, <2>8, <4>2 DEF SecondAttempt
            <4> QED
                BY <2>9, <4>1, <4>2 DEF Asks
        <3>5. (\A j \in jobs : j.of # r.of) /\ (\A w \in writes : w.of # r.of)
            BY <3>2, <3>3
        <3> QED
            BY <2>2, <3>1, <3>3, <3>4, <3>5 DEF FreshInv
    <2>10. ASSUME Asks(u, r) /\ Continuation(u, r)
           PROVE  FreshInv(u)'
        <3>1. /\ jobs' = jobs /\ r.answer = 0 /\ r.of = old.of /\ r.wish = old.wish
              /\ old.walk.more = TRUE
            BY <2>6, <2>10 DEF Asks, Continuation, SameQuestion
        <3>2. r.walk.page = old.walk.page + 1
            <4>1. old.walk \in Reading
                BY DEF Request
            <4> QED
                BY <2>6, <2>10, <4>1 DEF Continuation, Reading
        <3>3. IsList(old.wish) /\ old.wish.route \notin Changing
            BY <2>8, <3>1, ListRoutes
        <3>4. \A j \in jobs : j.of = r.of => j.wish = r.wish /\ j.page < r.walk.page
            BY <2>7, <2>8, <3>1, <3>2
        <3>5. \A w \in writes : w.of # r.of
            BY <2>8, <3>1, <3>3
        <3>6. \A j \in jobs : j.of = r.of => j.page <= r.walk.page
            BY <2>7, <3>2, <3>4
        <3>7. /\ \A j \in jobs : j.of[1] = u => UpTo(j.of, r.of)
              /\ \A w \in writes : w.of[1] = u => UpTo(w.of, r.of)
            BY <2>8, <3>1
        <3> QED
            BY <2>2, <3>1, <3>3, <3>4, <3>5, <3>6, <3>7 DEF FreshInv
    <2>11. ASSUME ~Asks(u, r)
           PROVE  FreshInv(u)'
        <3>1. /\ r.of = old.of /\ r.wish = old.wish /\ r.walk.page = old.walk.page
              /\ r.walk.more = TRUE => old.walk.more = TRUE \/ IsList(old.wish)
              /\ r.answer # 0 => r.pc = "answered"
            <4>1. ASSUME NEW j \in jobs, Receives(u, r, j), IsList(old.wish), j.code = 200
                  PROVE  r.walk.page = old.walk.page
                <5>1. j \in Job /\ IsFiniteSet(j.rows) /\ old.walk \in Reading
                    BY <1>1 DEF StateInv, Request
                <5>2. r.walk = Read(old.walk, j)
                    BY <2>6, <4>1 DEF Receives
                <5>3. Read(old.walk, j).page = old.walk.page
                    BY DEF Read
                <5> QED
                    BY <5>2, <5>3
            <4>2. CASE Passes(u, r) \/ Ends(u, r) \/ Forwards(u, r)
                BY <2>6, <2>8, <4>2 DEF Passes, Ends, Forwards, Onward, SameQuestion
            <4>3. ASSUME NEW j \in jobs, Receives(u, r, j)
                  PROVE  /\ SameQuestion(u, r) /\ r.answer = 0
                         /\ IsList(old.wish) \/ r.walk = old.walk
                         /\ r.walk.page = old.walk.page
                <5>1. SameQuestion(u, r) /\ r.answer = 0
                    BY <2>6, <2>8, <4>3 DEF Receives, Onward, Awaits
                <5>2. (IsList(old.wish) /\ j.code = 200) \/ r.walk = old.walk
                    BY <2>6, <4>3 DEF Receives
                <5> QED
                    BY <4>1, <4>3, <5>1, <5>2
            <4>4. ASSUME NEW s \in Services, GivesUp(u, r, s)
                  PROVE  SameQuestion(u, r) /\ r.answer = 0 /\ r.walk = old.walk
                BY <2>6, <2>8, <4>4 DEF GivesUp, Onward, Awaits
            <4>5. CASE \E j \in jobs : Receives(u, r, j)
                BY <2>6, <4>3, <4>5 DEF SameQuestion
            <4>6. CASE \E s \in Services : GivesUp(u, r, s)
                BY <2>6, <4>4, <4>6 DEF SameQuestion
            <4> QED
                BY <1>3, <2>11, <4>2, <4>5, <4>6 DEF Turns
        <3>2. /\ Unsent(r) => Unsent(old)
              /\ Unsent(r) => jobs' \subseteq jobs
            BY <1>3, <2>1, <2>6, <2>11 DEF Turns, Passes, Ends, Forwards, Receives, GivesUp,
               Unsent
        <3>3. \A j \in jobs' : \/ j \in jobs
                               \/ /\ j.of = old.of /\ j.wish = old.wish
                                  /\ j.page = old.walk.page
            <4>1. CASE Forwards(u, r)
                BY <1>1, <2>3, <2>6, <4>1, NewCalls DEF Forwards
            <4> QED
                BY <2>1, <4>1
        <3>4. UpTo(old.of, old.of)
            BY <2>7 DEF UpTo
        <3>5. \A j \in jobs' : j.of[1] = u => UpTo(j.of, r.of)
            BY <2>8, <3>1, <3>3, <3>4
        <3>6. \A j \in jobs' : j.of = r.of => j.wish = r.wish /\ j.page <= r.walk.page
            BY <2>7, <2>8, <3>1, <3>3
        <3>7. Unsent(r) => \A j \in jobs' : j.of = r.of => j.page < r.walk.page
            BY <2>8, <3>1, <3>2
        <3>8. \A w \in writes :
                 /\ w.of[1] = u => UpTo(w.of, r.of)
                 /\ w.of = r.of => /\ w.route = r.wish.route
                                   /\ r.wish.route \in Changing
                                   /\ ~Unsent(r)
            BY <2>8, <3>1, <3>2
        <3>9. r.walk.more = TRUE \/ r.walk.page > 1 => IsList(r.wish)
            BY <2>8, <3>1
        <3> QED
            BY <2>2, <3>1, <3>5, <3>6, <3>7, <3>8, <3>9 DEF FreshInv
    <2> QED
        BY <2>5, <2>9, <2>10, <2>11 DEF AllFresh
<1>4. ASSUME NEW j \in jobs, NEW r \in Job, GoesOn(j, r), Leaves(j, r) \/ Alters(j, r)
      PROVE  AllFresh'
    <2>1. /\ UNCHANGED request /\ jobs' \subseteq jobs \cup {r}
          /\ r.of = j.of /\ r.wish = j.wish /\ r.page = j.page
        BY <1>4 DEF GoesOn, SameCall
    <2>2. ASSUME NEW v \in Users
          PROVE  FreshInv(v)'
        <3>1. FreshInv(v)
            BY DEF AllFresh
        <3>2. \A k \in jobs' : \E i \in jobs : k.of = i.of /\ k.wish = i.wish /\ k.page = i.page
            BY <2>1
        <3>3. CASE UNCHANGED writes
            BY <2>1, <3>1, <3>2, <3>3 DEF FreshInv
        <3>4. CASE writes' = writes \cup {Written(j)} /\ j.op \in ChangingOps
            <4>1. Written(j).of = j.of /\ Written(j).route = j.wish.route
                BY DEF Written
            <4>2. j.wish.route \in Changing
                BY <3>4, ChangingCalls
            <4>3. j.of = request[v].of => j.wish = request[v].wish /\ ~Unsent(request[v])
                <5>1. SUFFICES ASSUME j.of = request[v].of, Unsent(request[v])
                               PROVE  FALSE
                    BY <3>1 DEF FreshInv
                <5>2. j.page < request[v].walk.page /\ j.wish = request[v].wish
                    BY <3>1, <5>1 DEF FreshInv
                <5>3. request[v].walk.page > 1
                    BY <1>1, <5>2, Numbers
                <5> QED
                    BY <3>1, <4>2, <5>2, <5>3, ListRoutes DEF FreshInv
            <4>4. j.of[1] = v => UpTo(j.of, request[v].of)
                BY <3>1 DEF FreshInv
            <4> QED
                BY <2>1, <3>1, <3>2, <3>4, <4>1, <4>2, <4>3, <4>4 DEF FreshInv
        <3> QED
            BY <1>4, <3>3, <3>4 DEF Leaves, Alters
    <2> QED
        BY <2>2 DEF AllFresh
<1> QED
    BY <1>2, <1>3, <1>4, Moves

-----------------------------------------------------------------------------
(* Answers                                                                  *)

Made(o) == {w \in writes : w.of = o}

Done(o) == \E w \in writes : Made(o) = {w}

\* It is not done and nobody will do it any more.
Unmade(o) == Made(o) = {} /\ \A j \in jobs : j.of = o => j.op \notin ChangingOps

\* One call at most is to change something for a request; before it replies it
\* has not, and the reply says whether it did.
OnceInv(j) ==
    j.op \in ChangingOps =>
        /\ \A k \in jobs : k.op \in ChangingOps /\ k.of = j.of => k = j
        /\ j.pc # "replied" => Made(j.of) = {}
        /\ j.pc = "replied" /\ j.code < 300 => Done(j.of)
        /\ j.pc = "replied" /\ j.code \in 400 .. 499 => Made(j.of) = {}

\* What the gateway has been told is what it will answer.
OutcomeInv(u) ==
    LET r == request[u]
    IN  /\ Unsent(r) => r.outcome = Unanswered
        /\ r.pc = "waiting" /\ r.wish.route \in Changing =>
               \A s \in Services :
                   /\ r.outcome[s] \in 1 .. 299 => Done(r.of)
                   /\ r.outcome[s] \in 400 .. 499 => Unmade(r.of)

AnswerInv(u) ==
    LET r == request[u]
    IN  r.pc = "answered" /\ r.answer > 0 =>
            /\ r.answer < 300 /\ r.wish.route \in Changing => Done(r.of)
            /\ r.answer \in 400 .. 499 => Unmade(r.of)

HonestyInv ==
    /\ \A j \in jobs : OnceInv(j)
    /\ \A u \in Users : OutcomeInv(u) /\ AnswerInv(u)

LEMMA HonestyInit == Init => HonestyInv
<1> SUFFICES ASSUME Init
             PROVE  HonestyInv
    OBVIOUS
<1>1. \A u \in Users : /\ request[u].pc = "answered" /\ request[u].answer = 0
                       /\ ~Unsent(request[u])
    BY DEF Init, NoRequest, Arriving, Unsent
<1>2. jobs = {}
    BY DEF Init
<1> QED
    BY <1>1, <1>2 DEF HonestyInv, OutcomeInv, AnswerInv

\* Nothing is changed for a request that has not been sent on, or whose route
\* changes nothing.
LEMMA NothingMade ==
    ASSUME GatewayInv, AllFresh, NEW u \in Users,
           Unsent(request[u]) \/ request[u].wish.route \notin Changing
    PROVE  Unmade(request[u].of)
<1>1. FreshInv(u)
    BY DEF AllFresh
<1>2. Made(request[u].of) = {}
    BY <1>1 DEF FreshInv, Made
<1>3. ASSUME NEW j \in jobs, j.of = request[u].of
      PROVE  j.op \notin ChangingOps
    <2>1. j.wish = request[u].wish
        BY <1>1, <1>3 DEF FreshInv
    <2>2. CASE request[u].wish.route \notin Changing
        BY <2>1, <2>2, ChangingCalls
    <2>3. CASE Unsent(request[u])
        <3>1. j.page < request[u].walk.page
            BY <1>1, <1>3, <2>3 DEF FreshInv
        <3>2. request[u].walk.page > 1
            BY <3>1, Numbers DEF GatewayInv
        <3>3. request[u].wish.route \notin Changing
            BY <1>1, <3>2, ListRoutes DEF FreshInv
        <3> QED
            BY <2>1, <3>3, ChangingCalls
    <2> QED
        BY <2>2, <2>3
<1> QED
    BY <1>2, <1>3 DEF Unmade

LEMMA HonestyNext == GatewayInv /\ AllFresh /\ HonestyInv /\ [Next]_vars => HonestyInv'
<1> SUFFICES ASSUME GatewayInv, AllFresh, HonestyInv, [Next]_vars
             PROVE  HonestyInv'
    OBVIOUS
<1>1. StateInv
    BY DEF GatewayInv
<1>2. CASE token' \in [Users -> BOOLEAN] /\ UNCHANGED <<request, jobs, database, scenario>>
    BY <1>2 DEF HonestyInv, OnceInv, OutcomeInv, AnswerInv, Made, Done, Unmade, database
<1>3. ASSUME NEW u \in Users, NEW r \in Request, Turns(u, r)
      PROVE  HonestyInv'
    <2>1. Becomes(u, r) /\ (Forwards(u, r) \/ jobs' \subseteq jobs)
        BY <1>3, TurnJobs
    <2>2. /\ request'[u] = r /\ \A v \in Users \ {u} : request'[v] = request[v]
          /\ writes' = writes
        BY <1>1, <2>1, Others DEF Becomes, database
    <2>3. \A o : (Made(o)' = Made(o)) /\ (Done(o)' <=> Done(o))
        BY <2>2 DEF Made, Done
    <2>4. RequestInv(u) /\ FreshInv(u)
        BY DEF GatewayInv, AllFresh
    <2>5. PICK old \in Request : old = request[u]
        BY <1>1, RequestOf
    <2>6. \A j \in jobs' : \/ j \in jobs
                           \/ /\ Forwards(u, r)
                              /\ j.of = old.of /\ j.pc = "queued"
                              /\ \E c \in Calls(old.wish.route) :
                                    j = Call(u, c) /\ j.op = c[2]
        <3>1. CASE Forwards(u, r)
            BY <1>1, <2>4, <2>5, <3>1, NewCalls DEF Forwards
        <3> QED
            BY <2>1, <3>1
    <2>7. ASSUME NEW o, o # old.of, Unmade(o)
          PROVE  Unmade(o)'
        BY <2>3, <2>6, <2>7 DEF Unmade
    <2>8. ASSUME NEW j \in jobs'
          PROVE  OnceInv(j)'
        <3>1. CASE Forwards(u, r)
            <4>1. old.wish.route \in Route /\ Unsent(old)
                BY <1>1, <2>5, <3>1, RequestOf DEF Wish, Forwards, Unsent
            <4>2. Made(old.of) = {} /\ \A k \in jobs : k.of = old.of => k.op \notin ChangingOps
                BY <2>5, <4>1, NothingMade DEF Unmade
            <4>3. \A c, d \in Calls(old.wish.route) : c[2] \in ChangingOps => c = d
                BY <4>1, ChangingRoutes
            <4>4. CASE j \in jobs
                <5>1. OnceInv(j)
                    BY <4>4 DEF HonestyInv
                <5>2. j.op \in ChangingOps => j.of # old.of
                    BY <4>2, <4>4
                <5>3. \A k \in jobs' : k.op \in ChangingOps /\ k.of = j.of
                                          /\ j.op \in ChangingOps => k \in jobs
                    BY <2>6, <5>2
                <5> QED
                    BY <2>3, <5>1, <5>3 DEF OnceInv
            <4>5. CASE j \notin jobs
                <5>1. /\ j.of = old.of /\ j.pc = "queued"
                      /\ \E c \in Calls(old.wish.route) : j = Call(u, c) /\ j.op = c[2]
                    BY <2>6, <4>5
                <5>2. \A k \in jobs' : k.op \in ChangingOps /\ k.of = j.of => k = j
                    BY <2>6, <4>2, <4>3, <5>1
                <5> QED
                    BY <2>3, <4>2, <5>1, <5>2 DEF OnceInv
            <4> QED
                BY <4>4, <4>5
        <3>2. CASE jobs' \subseteq jobs
            <4>1. OnceInv(j) /\ j \in jobs
                BY <3>2 DEF HonestyInv
            <4> QED
                BY <2>3, <3>2, <4>1 DEF OnceInv
        <3> QED
            BY <2>1, <3>1, <3>2
    <2>9. ASSUME NEW v \in Users \ {u}
          PROVE  OutcomeInv(v)' /\ AnswerInv(v)'
        <3>1. PICK x : x = request[v]
            OBVIOUS
        <3>2. x.of # old.of /\ request'[v] = x
            BY <2>2, <2>5, <3>1 DEF GatewayInv, RequestInv
        <3>3. (Done(x.of)' <=> Done(x.of)) /\ (Unmade(x.of) => Unmade(x.of)')
            BY <2>3, <2>7, <3>2
        <3>4. OutcomeInv(v) /\ AnswerInv(v)
            BY DEF HonestyInv
        <3> QED
            BY <3>1, <3>2, <3>3, <3>4 DEF OutcomeInv, AnswerInv
    <2>10. ASSUME ~Forwards(u, r), NEW o, Unmade(o)
           PROVE  Unmade(o)'
        BY <2>1, <2>3, <2>10 DEF Unmade
    <2>11. /\ Unsent(old) => old.outcome = Unanswered
           /\ old.pc = "waiting" /\ old.wish.route \in Changing =>
                  \A s \in Services :
                      /\ old.outcome[s] \in 1 .. 299 => Done(old.of)
                      /\ old.outcome[s] \in 400 .. 499 => Unmade(old.of)
        BY <2>5 DEF HonestyInv, OutcomeInv
    <2>12. /\ Unsent(r) => r.outcome = Unanswered
           /\ r.pc = "waiting" /\ r.wish.route \in Changing =>
                  \A s \in Services :
                      /\ r.outcome[s] \in 1 .. 299 => Done(r.of)'
                      /\ r.outcome[s] \in 400 .. 499 => Unmade(r.of)'
        <3>1. CASE Asks(u, r) \/ Passes(u, r) \/ Ends(u, r)
            BY <2>5, <2>11, <3>1 DEF Asks, Passes, Ends, Unsent
        <3>2. CASE Forwards(u, r)
            BY <2>5, <2>11, <3>2 DEF Forwards, Unsent, Unanswered
        <3>3. ASSUME NEW j \in jobs, Receives(u, r, j), r.wish.route \in Changing,
                     NEW s \in Services
              PROVE  /\ r.outcome[s] \in 1 .. 299 => Done(r.of)'
                     /\ r.outcome[s] \in 400 .. 499 => Unmade(r.of)'
            <4>1. /\ r.of = old.of /\ r.wish = old.wish /\ j.of = old.of
                  /\ j.pc = "replied" /\ jobs' = jobs \ {j}
                  /\ r.outcome = [old.outcome EXCEPT ![j.service] = j.code]
                  /\ old.pc = "waiting"
                BY <2>5, <3>3 DEF Receives, Onward, SameQuestion, IsAnswerTo, Awaits
            <4>2. j.wish = old.wish /\ OnceInv(j)
                BY <2>4, <2>5, <4>1 DEF FreshInv, HonestyInv
            <4>3. j.op \in ChangingOps
                BY <3>3, <4>1, <4>2, ChangingCalls
            <4>4. j.code < 300 => Done(old.of)
                BY <4>1, <4>2, <4>3 DEF OnceInv
            <4>5. j.code \in 400 .. 499 => Unmade(old.of)'
                BY <2>3, <4>1, <4>2, <4>3 DEF OnceInv, Unmade
            <4>6. CASE s = j.service
                <5>1. r.outcome[s] = j.code
                    BY <4>1, <4>6 DEF Request
                <5> QED
                    BY <2>3, <4>1, <4>4, <4>5, <5>1
            <4>7. CASE s # j.service
                <5>1. r.outcome[s] = old.outcome[s]
                    BY <4>1, <4>7 DEF Request
                <5>2. Unmade(old.of) => Unmade(old.of)'
                    BY <2>3, <4>1 DEF Unmade
                <5> QED
                    BY <2>3, <2>11, <3>3, <4>1, <5>1, <5>2
            <4> QED
                BY <4>6, <4>7
        <3>4. ASSUME NEW t \in Services, GivesUp(u, r, t), r.wish.route \in Changing,
                     NEW s \in Services
              PROVE  /\ r.outcome[s] \in 1 .. 299 => Done(r.of)'
                     /\ r.outcome[s] \in 400 .. 499 => Unmade(r.of)'
            <4>1. r.of = old.of /\ r.wish = old.wish /\ old.pc = "waiting"
                BY <2>5, <3>4 DEF GivesUp, Onward, SameQuestion, Awaits
            <4>2. r.outcome[s] \in {500, 502, 504} \/ r.outcome[s] = old.outcome[s]
                BY <2>5, <3>4 DEF GivesUp, Request
            <4>3. Unmade(old.of) => Unmade(old.of)'
                BY <2>3, <3>4 DEF Unmade, GivesUp
            <4>4. CASE r.outcome[s] \in {500, 502, 504}
                BY <4>4
            <4>5. CASE r.outcome[s] = old.outcome[s]
                BY <2>3, <2>11, <3>4, <4>1, <4>3, <4>5
            <4> QED
                BY <4>2, <4>4, <4>5
        <3>5. CASE (\E j \in jobs : Receives(u, r, j)) \/ (\E t \in Services : GivesUp(u, r, t))
            <4>1. ~Unsent(r)
                BY <3>5 DEF Receives, GivesUp, Unsent
            <4> QED
                BY <3>3, <3>4, <3>5, <4>1
        <3> QED
            BY <1>3, <3>1, <3>2, <3>5 DEF Turns
    <2>13. OutcomeInv(u)'
        BY <2>2, <2>12 DEF OutcomeInv
    <2>14. r.pc = "answered" /\ r.answer > 0 =>
               /\ r.answer < 300 /\ r.wish.route \in Changing => Done(r.of)'
               /\ r.answer \in 400 .. 499 => Unmade(r.of)'
        <3>1. CASE Ends(u, r)
            <4>1. r.of = old.of /\ r.wish = old.wish /\ ~Forwards(u, r)
                BY <2>5, <3>1 DEF Ends, SameQuestion, Forwards
            <4>2. CASE TurnedAway(u, r)
                <5>1. r.answer \in {400, 401, 403} /\ Unsent(old)
                    BY <2>5, <4>2 DEF TurnedAway, Unsent
                <5>2. Unmade(old.of)
                    BY <2>5, <5>1, NothingMade
                <5> QED
                    BY <2>10, <4>1, <5>1, <5>2
            <4>3. CASE PassedThrough(u, r)
                <5>1. PICK s \in Services : r.answer = old.outcome[s] /\ old.pc = "waiting"
                    BY <1>1, <2>5, <4>3, RequestOf, CallTypes DEF PassedThrough, Wish
                <5>2. CASE old.wish.route \in Changing
                    <6>1. r.answer \in Nat
                        BY DEF Request, Codes
                    <6>2. r.answer > 0 /\ r.answer < 300 => r.answer \in 1 .. 299
                        BY <6>1
                    <6> QED
                        BY <2>3, <2>10, <2>11, <4>1, <5>1, <5>2, <6>2
                <5>3. CASE old.wish.route \notin Changing
                    <6>1. Unmade(old.of)
                        BY <2>5, <5>3, NothingMade
                    <6> QED
                        BY <2>10, <4>1, <5>3, <6>1
                <5> QED
                    BY <5>2, <5>3
            <4> QED
                BY <3>1, <4>2, <4>3 DEF Ends
        <3>2. CASE ~Ends(u, r)
            BY <1>3, <3>2 DEF Turns, Asks, Passes, Forwards, Receives, GivesUp
        <3> QED
            BY <3>1, <3>2
    <2>15. AnswerInv(u)'
        BY <2>2, <2>14 DEF AnswerInv
    <2> QED
        BY <2>8, <2>9, <2>13, <2>15 DEF HonestyInv
<1>4. ASSUME NEW j \in jobs, NEW r \in Job, GoesOn(j, r), Leaves(j, r) \/ Alters(j, r)
      PROVE  HonestyInv'
    <2>1. /\ UNCHANGED request /\ jobs' \subseteq (jobs \ {j}) \cup {r}
          /\ r.of = j.of /\ r.op = j.op /\ j.pc # "replied"
          /\ r.pc = "replied" => r.code # 0
        BY <1>4 DEF GoesOn, SameCall
    <2>2. OnceInv(j)
        BY DEF HonestyInv
    <2>3. \A o : Made(o) = {} /\ o # j.of => Made(o)' = {}
        <3>1. Written(j).of = j.of
            BY DEF Written
        <3> QED
            BY <1>4, <3>1 DEF Leaves, Alters, Made
    <2>4. \A o : o # j.of \/ Leaves(j, r) => Made(o)' = Made(o) /\ (Done(o) => Done(o)')
        <3>1. Written(j).of = j.of
            BY DEF Written
        <3> QED
            BY <1>4, <3>1 DEF Leaves, Alters, Made, Done
    <2>5. ASSUME NEW o, Done(o)
          PROVE  Done(o)'
        <3>1. CASE o = j.of /\ Alters(j, r)
            <4>1. Made(o) = {}
                BY <2>1, <2>2, <3>1 DEF OnceInv, Alters
            <4> QED
                BY <2>5, <4>1 DEF Done
        <3> QED
            BY <1>4, <2>4, <2>5, <3>1
    <2>6. ASSUME NEW o, Unmade(o)
          PROVE  Unmade(o)'
        <3>1. \A k \in jobs' : k.of = o => k.op \notin ChangingOps
            BY <2>1, <2>6 DEF Unmade
        <3>2. o # j.of \/ Leaves(j, r)
            BY <1>4, <2>6 DEF Unmade, Alters
        <3> QED
            BY <2>4, <2>6, <3>1, <3>2 DEF Unmade
    <2>7. ASSUME NEW u \in Users
          PROVE  OutcomeInv(u)' /\ AnswerInv(u)'
        <3>1. PICK x : x = request[u]
            OBVIOUS
        <3>2. (Done(x.of) => Done(x.of)') /\ (Unmade(x.of) => Unmade(x.of)') /\ request'[u] = x
            BY <2>1, <2>5, <2>6, <3>1
        <3>3. OutcomeInv(u) /\ AnswerInv(u)
            BY DEF HonestyInv
        <3> QED
            BY <3>1, <3>2, <3>3 DEF OutcomeInv, AnswerInv
    <2>8. ASSUME NEW k \in jobs', k # r, k.op \in ChangingOps
          PROVE  OnceInv(k)'
        <3>1. k \in jobs /\ k # j /\ OnceInv(k)
            BY <2>1, <2>8 DEF HonestyInv
        <3>2. j.op \in ChangingOps => k.of # j.of
            BY <2>2, <2>8, <3>1 DEF OnceInv
        <3>3. k.of # j.of \/ Leaves(j, r)
            BY <1>4, <3>2 DEF Alters
        <3>4. \A i \in jobs' : i.op \in ChangingOps /\ i.of = k.of => i = k
            BY <2>1, <2>8, <3>1, <3>2 DEF OnceInv
        <3>5. (Made(k.of)' = Made(k.of)) /\ (Done(k.of) => Done(k.of)')
            BY <2>4, <3>3
        <3> QED
            BY <2>8, <3>1, <3>4, <3>5 DEF OnceInv
    <2>9. ASSUME r \in jobs', r.op \in ChangingOps
          PROVE  OnceInv(r)'
        <3>1. Made(j.of) = {}
            BY <2>1, <2>2, <2>9 DEF OnceInv
        <3>2. \A k \in jobs' : k.op \in ChangingOps /\ k.of = r.of => k = r
            BY <2>1, <2>2, <2>9 DEF OnceInv
        <3>3. CASE Leaves(j, r)
            <4>1. Made(r.of)' = {}
                BY <2>1, <2>4, <3>1, <3>3
            <4>2. r.pc = "replied" => ~(r.code < 300)
                BY <2>1, <2>9, <3>3 DEF Leaves
            <4> QED
                BY <3>2, <4>1, <4>2 DEF OnceInv
        <3>4. CASE Alters(j, r)
            <4>1. Written(j).of = j.of
                BY DEF Written
            <4>2. Made(r.of)' = {Written(j)} /\ Written(j) \in writes'
                BY <2>1, <3>1, <3>4, <4>1 DEF Made, Alters
            <4>3. Done(r.of)'
                BY <4>2 DEF Done
            <4>4. r.pc = "replied" /\ r.code \in {200, 201}
                BY <3>4 DEF Alters
            <4> QED
                BY <3>2, <4>3, <4>4 DEF OnceInv
        <3> QED
            BY <1>4, <3>3, <3>4
    <2>10. \A k \in jobs' : OnceInv(k)'
        BY <2>8, <2>9 DEF OnceInv
    <2> QED
        BY <2>7, <2>10 DEF HonestyInv
<1> QED
    BY <1>2, <1>3, <1>4, Moves

\* An answer below 500 is the truth for good: 2xx means that the change was made,
\* once, and 4xx that it was not and never will be, although a service may go on
\* after the gateway has answered 5xx and the user has asked again.
THEOREM AnswersStayHonest == Spec => []AnswersAreHonest
<1>1. HonestyInv => AnswersAreHonest
    BY DEF HonestyInv, AnswerInv, AnswersAreHonest, Done, Unmade, Made, ChangesOf
<1> QED
    BY <1>1, GatewayInvInit, GatewayInvNext, FreshInit, FreshNext, HonestyInit,
       HonestyNext, PTL DEF Spec

-----------------------------------------------------------------------------
(* Outages                                                                  *)

\* Another request has assigned the order that this one is about.
Assigned(of, wish) ==
    \E w \in writes : w.row = <<"work-orders", wish.id>> /\ w.route = "assign" /\ w.of # of

\* What makes a call fail, or a route.
Excuse(code, services, of, wish) ==
    code >= 500 => services \cap down # {} \/ (code = 500 /\ Assigned(of, wish))

\* Only a service in trouble is answered for with a code of 500 or more, or one
\* that was to save an order that another request has assigned.
OutageInv ==
    /\ \A j \in jobs : Excuse(j.code, {j.service}, j.of, j.wish)
    /\ \A u \in Users, s \in Services :
          Excuse(request[u].outcome[s], {s}, request[u].of, request[u].wish)
    /\ \A u \in Users :
          Excuse(request[u].answer, Required(request[u].wish.route),
                 request[u].of, request[u].wish)

LEMMA OutageInvInit == Init => OutageInv
BY DEF Init, OutageInv, Excuse, NoRequest, Arriving, Unanswered

LEMMA OutageInvNext ==
    GatewayInv /\ AllFresh /\ HonestyInv /\ OutageInv /\ [Next]_vars => OutageInv'
<1> SUFFICES ASSUME GatewayInv, AllFresh, HonestyInv, OutageInv, [Next]_vars
             PROVE  OutageInv'
    OBVIOUS
<1>1. StateInv
    BY DEF GatewayInv
\* What excuses a code now will excuse it then.
<1>2. ASSUME UNCHANGED scenario, writes \subseteq writes', NEW code, NEW services, NEW of,
             NEW wish, Excuse(code, services, of, wish)
      PROVE  Excuse(code, services, of, wish)'
    BY <1>2 DEF Excuse, Assigned, down
<1>3. CASE token' \in [Users -> BOOLEAN] /\ UNCHANGED <<request, jobs, database, scenario>>
    <2>1. UNCHANGED <<request, jobs, scenario>> /\ writes \subseteq writes'
        BY <1>3 DEF database
    <2> QED
        BY <1>2, <2>1 DEF OutageInv
<1>4. ASSUME NEW u \in Users, NEW r \in Request, Turns(u, r)
      PROVE  OutageInv'
    <2>1. Becomes(u, r) /\ (Forwards(u, r) \/ jobs' \subseteq jobs)
        BY <1>4, TurnJobs
    <2>2. /\ request'[u] = r /\ \A v \in Users \ {u} : request'[v] = request[v]
          /\ UNCHANGED scenario /\ writes \subseteq writes'
        BY <1>1, <2>1, Others DEF Becomes, database
    <2>3. PICK old \in Request : old = request[u]
        BY <1>1, RequestOf
    <2>4. ASSUME NEW j \in jobs'
          PROVE  Excuse(j.code, {j.service}, j.of, j.wish)
        <3>1. CASE j \in jobs
            BY <3>1 DEF OutageInv
        <3>2. CASE j \notin jobs
            <4>1. Forwards(u, r)
                BY <2>1, <3>2
            <4>2. j.code = 0
                BY <3>2, <4>1 DEF Forwards, Call
            <4> QED
                BY <4>2 DEF Excuse
        <3> QED
            BY <3>1, <3>2
    <2>5. /\ \A s \in Services : Excuse(old.outcome[s], {s}, old.of, old.wish)
          /\ Excuse(old.answer, Required(old.wish.route), old.of, old.wish)
        BY <2>3 DEF OutageInv
    <2>6. ASSUME NEW s \in Services
          PROVE  Excuse(r.outcome[s], {s}, r.of, r.wish)
        <3>1. CASE Asks(u, r)
            BY <3>1 DEF Asks, Unanswered, Excuse
        <3>2. CASE r.of = old.of /\ r.wish = old.wish /\ r.outcome[s] = old.outcome[s]
            BY <2>5, <3>2
        <3>3. ASSUME NEW j \in jobs, Receives(u, r, j), s = j.service
              PROVE  Excuse(r.outcome[s], {s}, r.of, r.wish)
            <4>1. j.of = old.of /\ r.of = old.of /\ r.wish = old.wish
                BY <2>3, <3>3 DEF Receives, IsAnswerTo, Onward, SameQuestion
            <4>2. j.wish = old.wish
                BY <2>3, <4>1 DEF AllFresh, FreshInv
            <4>3. r.outcome[s] = j.code
                BY <2>3, <3>3 DEF Receives, Request
            <4>4. Excuse(j.code, {j.service}, j.of, j.wish)
                BY DEF OutageInv
            <4> QED
                BY <3>3, <4>1, <4>2, <4>3, <4>4
        <3>4. ASSUME NEW j \in jobs, Receives(u, r, j), s # j.service
              PROVE  r.of = old.of /\ r.wish = old.wish /\ r.outcome[s] = old.outcome[s]
            BY <2>3, <3>4 DEF Receives, Onward, SameQuestion, Request
        <3>5. ASSUME NEW t \in Services, GivesUp(u, r, t), s = t
              PROVE  Excuse(r.outcome[s], {s}, r.of, r.wish)
            BY <3>5 DEF GivesUp, Excuse
        <3>6. ASSUME NEW t \in Services, GivesUp(u, r, t), s # t
              PROVE  r.of = old.of /\ r.wish = old.wish /\ r.outcome[s] = old.outcome[s]
            BY <2>3, <3>6 DEF GivesUp, Onward, SameQuestion, Request
        <3>7. CASE Passes(u, r) \/ Ends(u, r) \/ Forwards(u, r)
            BY <2>3, <3>2, <3>7 DEF Passes, Ends, Forwards, Onward, SameQuestion
        <3> QED
            BY <1>4, <3>1, <3>2, <3>3, <3>4, <3>5, <3>6, <3>7 DEF Turns
    <2>7. Excuse(r.answer, Required(r.wish.route), r.of, r.wish)
        <3>1. CASE Asks(u, r)
            BY <3>1 DEF Asks, Excuse
        <3>2. CASE Ends(u, r) /\ TurnedAway(u, r)
            BY <3>2 DEF TurnedAway, Excuse
        <3>3. CASE Ends(u, r) /\ PassedThrough(u, r)
            <4>1. PICK s \in Required(old.wish.route) : r.answer = old.outcome[s]
                BY <2>3, <3>3 DEF PassedThrough
            <4>2. s \in Services
                BY <1>1, <2>3, RequestOf, CallTypes DEF Wish
            <4>3. r.of = old.of /\ r.wish = old.wish
                BY <2>3, <3>3 DEF Ends, SameQuestion
            <4>4. Excuse(r.answer, {s}, r.of, r.wish)
                BY <2>5, <4>1, <4>2, <4>3
            <4> QED
                BY <4>1, <4>3, <4>4 DEF Excuse
        <3>4. CASE r.of = old.of /\ r.wish = old.wish /\ r.answer = old.answer
            BY <2>5, <3>4
        <3> QED
            BY <1>4, <2>3, <3>1, <3>2, <3>3, <3>4 DEF Turns, Passes, Ends, Forwards,
               Receives, GivesUp, Onward, SameQuestion
    <2>8. ASSUME NEW v \in Users
          PROVE  /\ \A s \in Services :
                        Excuse(request'[v].outcome[s], {s}, request'[v].of, request'[v].wish)
                 /\ Excuse(request'[v].answer, Required(request'[v].wish.route),
                           request'[v].of, request'[v].wish)
        <3>1. CASE v = u
            BY <2>2, <2>6, <2>7, <3>1
        <3>2. CASE v # u
            BY <2>2, <3>2 DEF OutageInv
        <3> QED
            BY <3>1, <3>2
    <2> QED
        BY <1>2, <2>2, <2>4, <2>8 DEF OutageInv
<1>5. ASSUME NEW j \in jobs, NEW r \in Job, GoesOn(j, r), Leaves(j, r) \/ Alters(j, r)
      PROVE  OutageInv'
    <2>1. UNCHANGED <<request, scenario>> /\ jobs' \subseteq jobs \cup {r}
        BY <1>5 DEF GoesOn
    <2>2. writes \subseteq writes'
        BY <1>5 DEF Leaves, Alters
    <2>3. r.of = j.of /\ r.service = j.service /\ r.wish = j.wish
        BY <1>5 DEF GoesOn, SameCall
    <2>4. ASSUME Clashes(j)
          PROVE  Assigned(j.of, j.wish)
        <3>1. PICK w \in writes : w.row = Target(j) /\ w.route = "assign"
            BY <2>4 DEF Clashes
        <3>2. j.op \in ChangingOps /\ j.op # "create" /\ j.pc # "replied"
            BY <2>4 DEF Clashes, ChangingOps
        <3>3. j.service = "work-orders"
            <4>1. CallInv(j) /\ j.wish.route \in Route
                BY DEF GatewayInv, StateInv, Job, Wish
            <4> QED
                BY <2>4, <4>1, RouteNames, RouteCalls DEF Clashes, CallInv
        <3>4. Made(j.of) = {}
            BY <3>2 DEF HonestyInv, OnceInv
        <3>5. w.of # j.of
            BY <3>1, <3>4 DEF Made
        <3> QED
            BY <3>1, <3>2, <3>3, <3>5 DEF Assigned, Target
    <2>5. Excuse(r.code, {r.service}, r.of, r.wish)
        <3>1. CASE Leaves(j, r)
            BY <2>3, <2>4, <3>1 DEF Leaves, Excuse
        <3>2. CASE Alters(j, r)
            BY <3>2 DEF Alters, Excuse
        <3> QED
            BY <1>5, <3>1, <3>2
    <2>6. \A k \in jobs' : Excuse(k.code, {k.service}, k.of, k.wish)
        BY <2>1, <2>5 DEF OutageInv
    <2> QED
        BY <1>2, <2>1, <2>2, <2>6 DEF OutageInv
<1> QED
    BY <1>3, <1>4, <1>5, Moves

\* A route is answered with 500 or more only if a service that it requires is in
\* trouble, or with 500 if another request was assigning the order to change: the
\* summary shows the property however the work orders fare, and no other user's
\* outage is seen.
THEOREM OutagesStayContained == Spec => []OutagesAreContained
<1>1. OutageInv => OutagesAreContained
    <2> SUFFICES ASSUME OutageInv
                 PROVE  OutagesAreContained
        OBVIOUS
    <2>1. ASSUME NEW u \in Users, request[u].answer >= 500
          PROVE  \/ Required(request[u].wish.route) \cap down # {}
                 \/ /\ request[u].answer = 500
                    /\ Assigned(request[u].of, request[u].wish)
        <3>1. Excuse(request[u].answer, Required(request[u].wish.route),
                     request[u].of, request[u].wish)
            BY DEF OutageInv
        <3> QED
            BY <2>1, <3>1, Zenon DEF Excuse
    <2> QED
        BY <2>1 DEF OutagesAreContained, Assigned
<1> QED
    BY <1>1, GatewayInvInit, GatewayInvNext, FreshInit, FreshNext, HonestyInit,
       HonestyNext, OutageInvInit, OutageInvNext, PTL DEF Spec

-----------------------------------------------------------------------------
(* Types                                                                    *)

\* The rows that have been numbered so far.
Given == 1 .. serial - 1

GivenInv ==
    /\ serial # 0
    /\ \A s \in Tables : tables[s] \subseteq Given
    /\ \A u \in Users : request[u].walk.start \cup request[u].walk.seen \subseteq Given
    /\ \A j \in jobs : j.rows \subseteq Given /\ (j.pc = "running" => j.at \in Given)

LEMMA GivenInit == Init => GivenInv
<1> SUFFICES ASSUME Init
             PROVE  GivenInv
    OBVIOUS
<1>1. serial # 0 /\ \A s \in Tables : tables[s] \subseteq Given
    BY BoundsAssumption DEF Init, Given, Tables
<1>2. \A u \in Users : request[u].walk.start = {} /\ request[u].walk.seen = {}
    BY DEF Init, NoRequest, NoWalk, Arriving
<1>3. jobs = {}
    BY DEF Init
<1> QED
    BY <1>1, <1>2, <1>3 DEF GivenInv

LEMMA GivenNext == GatewayInv /\ GivenInv /\ [Next]_vars => GivenInv'
<1> SUFFICES ASSUME GatewayInv, GivenInv, [Next]_vars
             PROVE  GivenInv'
    OBVIOUS
<1>1. StateInv
    BY DEF GatewayInv
<1>2. CASE token' \in [Users -> BOOLEAN] /\ UNCHANGED <<request, jobs, database, scenario>>
    BY <1>2 DEF GivenInv, Given, database
<1>3. ASSUME NEW u \in Users, NEW r \in Request, Turns(u, r)
      PROVE  GivenInv'
    <2>1. Becomes(u, r) /\ (Forwards(u, r) \/ jobs' \subseteq jobs)
        BY <1>3, TurnJobs
    <2>2. /\ request'[u] = r /\ \A v \in Users \ {u} : request'[v] = request[v]
          /\ tables' = tables /\ serial' = serial /\ Given' = Given
        BY <1>1, <2>1, Others DEF Becomes, database, Given
    <2>3. \A j \in jobs' : j \in jobs \/ (j.rows = {} /\ j.pc = "queued")
        <3>1. CASE Forwards(u, r)
            <4>1. RequestInv(u)
                BY DEF GatewayInv
            <4> QED
                BY <1>1, <3>1, <4>1, NewCalls DEF Forwards
        <3> QED
            BY <2>1, <3>1
    <2>4. PICK old \in Request : old = request[u]
        BY <1>1, RequestOf
    <2>5. old.walk.start \cup old.walk.seen \subseteq Given /\ old.walk \in Reading
        BY <2>4 DEF GivenInv, Request
    <2>6. r.walk.start \cup r.walk.seen \subseteq Given
        <3>1. CASE r.walk = old.walk
            BY <2>5, <3>1
        <3>2. CASE Asks(u, r) /\ NewQuestion(u, r)
            <4>1. r.walk.seen = {} /\ r.walk.start \in {{}, Rows(ListOf(r.wish))}
                BY <3>2 DEF NewQuestion, StartWalk, NoWalk
            <4>2. Rows(ListOf(r.wish)) \subseteq Given
                BY <1>1, <3>2, ListTypes DEF NewQuestion, GivenInv
            <4> QED
                BY <4>1, <4>2
        <3>3. CASE Asks(u, r) /\ Continuation(u, r)
            BY <2>4, <2>5, <3>3 DEF Continuation, Reading
        <3>4. ASSUME NEW j \in jobs, Receives(u, r, j), r.walk = Read(old.walk, j)
              PROVE  r.walk.start \cup r.walk.seen \subseteq Given
            <4>1. j \in Job /\ IsFiniteSet(j.rows) /\ j.rows \subseteq Given
                BY <1>1 DEF StateInv, GivenInv
            <4>2. /\ Read(old.walk, j).start = old.walk.start
                  /\ Read(old.walk, j).seen = old.walk.seen \cup j.rows
                BY <2>5, <4>1, ReadTyped
            <4> QED
                BY <2>5, <3>4, <4>1, <4>2
        <3>5. CASE Asks(u, r) /\ SecondAttempt(u, r)
            BY <2>4, <3>1, <3>5 DEF SecondAttempt
        <3>6. CASE \E j \in jobs : Receives(u, r, j)
            BY <2>4, <3>1, <3>4, <3>6 DEF Receives
        <3>7. CASE Passes(u, r) \/ Ends(u, r) \/ Forwards(u, r)
                      \/ \E s \in Services : GivesUp(u, r, s)
            BY <2>4, <3>1, <3>7 DEF Passes, Ends, Forwards, GivesUp
        <3> QED
            BY <1>3, <3>2, <3>3, <3>5, <3>6, <3>7 DEF Turns, Asks
    <2> QED
        BY <2>2, <2>3, <2>6 DEF GivenInv
<1>4. ASSUME NEW j \in jobs, NEW r \in Job, GoesOn(j, r), Leaves(j, r) \/ Alters(j, r)
      PROVE  GivenInv'
    <2>1. serial \in Nat /\ serial # 0 /\ serial' \in {serial, serial + 1}
        BY <1>1, <1>4 DEF GoesOn, StateInv, GivenInv
    <2>2. Given \subseteq Given' /\ serial' # 0
        <3>1. PICK c \in Nat, d \in Nat : c = serial /\ d = serial' /\ c # 0 /\ d \in {c, c + 1}
            BY <2>1
        <3>2. Given = 1 .. c - 1 /\ Given' = 1 .. d - 1
            BY <3>1 DEF Given
        <3>3. c <= d /\ d # 0
            BY <3>1
        <3>4. \A x \in 1 .. c - 1 : x \in 1 .. d - 1
            BY <3>3
        <3>5. Given \subseteq Given'
            BY <3>2, <3>4
        <3> QED
            BY <3>1, <3>3, <3>5
    <2>3. j.rows \subseteq Given /\ (j.pc = "running" => j.at \in Given)
        BY DEF GivenInv
    <2>4. \A s \in Tables : tables'[s] \subseteq Given
        <3>1. CASE tables' = tables
            BY <3>1 DEF GivenInv
        <3>2. CASE j.pc = "running" /\ tables' = [tables EXCEPT ![j.service] = @ \cup {j.at}]
            BY <1>1, <2>3, <3>2 DEF GivenInv, StateInv
        <3> QED
            BY <1>4, <3>1, <3>2 DEF Leaves, Alters
    <2>5. r.rows \subseteq Given
        <3>1. CASE r.rows = j.rows
            BY <2>3, <3>1
        <3>2. CASE r.rows \in Pages(ListOf(j.wish), j.page)
            <4>1. j.wish \in Wish
                BY <1>1 DEF StateInv, Job
            <4>2. r.rows \subseteq Rows(ListOf(j.wish))
                BY <3>2, SlicesWithin DEF Pages
            <4> QED
                BY <1>1, <4>1, <4>2, ListTypes DEF GivenInv
        <3> QED
            BY <1>4, <3>1, <3>2 DEF GoesOn
    <2>6. r.pc = "running" => r.at \in Given'
        <3>1. r.pc = "running" => r.at = serial /\ serial' = serial + 1
            BY <1>4 DEF GoesOn
        <3> QED
            BY <2>1, <3>1 DEF Given
    <2>7. \A k \in jobs' : k \in jobs \/ k = r
        BY <1>4 DEF GoesOn
    <2>8. request' = request
        BY <1>4 DEF GoesOn
    <2>9. \A k \in jobs' : k.rows \subseteq Given' /\ (k.pc = "running" => k.at \in Given')
        BY <2>2, <2>5, <2>6, <2>7 DEF GivenInv
    <2>10. \A u \in Users : request'[u].walk.start \cup request'[u].walk.seen \subseteq Given'
        BY <2>2, <2>8 DEF GivenInv
    <2> QED
        BY <2>2, <2>4, <2>9, <2>10 DEF GivenInv
<1> QED
    BY <1>2, <1>3, <1>4, Moves

\* The requests there can be.
Attempts == Users \X (1 .. MaxIntents) \X (1 .. MaxAttempts)

LEMMA AttemptsCount ==
    /\ IsFiniteSet(Attempts)
    /\ Cardinality(Attempts) <= Cardinality(Users) * MaxIntents * MaxAttempts
    /\ Cardinality(Users) * MaxIntents * MaxAttempts \in Nat
<1> DEFINE I == 1 .. MaxIntents
           A == 1 .. MaxAttempts
           Pairs == (Users \X I) \X A
<1>1. MaxIntents \in Nat /\ MaxAttempts \in Nat /\ 1 \in Int
    BY BoundsAssumption
<1>2. /\ IsFiniteSet(I) /\ Cardinality(I) = MaxIntents
      /\ IsFiniteSet(A) /\ Cardinality(A) = MaxAttempts
    <2>1. MaxIntents \in Int /\ MaxAttempts \in Int
        BY <1>1
    <2> QED
        BY <1>1, <2>1, FS_Interval
<1>3. IsFiniteSet(Users) /\ Cardinality(Users) \in Nat
    BY UsersAssumption, FS_CardinalityType
<1>4. IsFiniteSet(Users \X I) /\ Cardinality(Users \X I) = Cardinality(Users) * MaxIntents
    BY <1>2, <1>3, FS_Product
<1>5. /\ IsFiniteSet(Pairs)
      /\ Cardinality(Pairs) = Cardinality(Users) * MaxIntents * MaxAttempts
    <2> DEFINE S == Users \X I
    <2>1. IsFiniteSet(S) /\ Cardinality(S) = Cardinality(Users) * MaxIntents
        BY <1>4
    <2> HIDE DEF I, A, S
    <2>2. IsFiniteSet(S \X A) /\ Cardinality(S \X A) = Cardinality(S) * Cardinality(A)
        BY <1>2, <2>1, FS_Product
    <2>3. Cardinality(S \X A) = Cardinality(Users) * MaxIntents * MaxAttempts
        BY <1>2, <2>1, <2>2
    <2> QED
        BY <2>2, <2>3 DEF S
<1>6. PICK f : f = [p \in Pairs |-> <<p[1][1], p[1][2], p[2]>>]
    OBVIOUS
<1>7. f \in Surjection(Pairs, Attempts)
    <2>1. f \in [Pairs -> Attempts]
        BY <1>6 DEF Attempts
    <2>2. ASSUME NEW o \in Attempts
          PROVE  \E p \in Pairs : f[p] = o
        <3>1. o = <<o[1], o[2], o[3]>> /\ o[1] \in Users /\ o[2] \in I /\ o[3] \in A
            BY DEF Attempts
        <3>2. <<<<o[1], o[2]>>, o[3]>> \in Pairs
            BY <3>1
        <3>3. f[<<<<o[1], o[2]>>, o[3]>>] = <<o[1], o[2], o[3]>>
            BY <1>6, <3>2
        <3> QED
            BY <3>1, <3>2, <3>3
    <2> QED
        BY <2>1, <2>2 DEF Surjection
<1> HIDE DEF Pairs
<1>8. IsFiniteSet(Attempts) /\ Cardinality(Attempts) <= Cardinality(Pairs)
    BY <1>5, <1>7, FS_Surjection
<1> QED
    BY <1>1, <1>3, <1>5, <1>8, FS_CardinalityType

\* Those that may have been sent on to a service, and those that have been and
\* whose row is still to be begun.
Issued ==
    {o \in Attempts :
        LET r == request[o[1]]
        IN  UpTo(o, r.of) /\ ~(o = r.of /\ Unsent(r) /\ r.wish.route \in Changing)}

Queued == {j.of : j \in {k \in jobs : k.pc = "queued" /\ k.op = "create"}}

\* Every number stands for a request of its own.
CountInv ==
    /\ \A u \in Users :
          /\ request[u].of \in Users \X (0 .. MaxIntents) \X (1 .. MaxAttempts)
          /\ request[u].of[2] = 0 => request[u].pc = "answered" /\ request[u].answer = 0
    /\ \A j \in jobs : j.of \in Attempts
    /\ serial <= 1 + InitialRows + Cardinality(Issued \ Queued)

LEMMA IssuedCount ==
    /\ IsFiniteSet(Issued \ Queued)
    /\ Cardinality(Issued \ Queued) \in Nat
    /\ Cardinality(Issued \ Queued) <= Cardinality(Users) * MaxIntents * MaxAttempts
<1>1. Issued \ Queued \in SUBSET Attempts
    BY DEF Issued
<1>2. /\ IsFiniteSet(Issued \ Queued)
      /\ Cardinality(Issued \ Queued) <= Cardinality(Attempts)
    BY <1>1, AttemptsCount, FS_Subset
<1>3. Cardinality(Issued \ Queued) \in Nat /\ Cardinality(Attempts) \in Nat
    BY <1>2, AttemptsCount, FS_CardinalityType
<1> QED
    BY <1>2, <1>3, AttemptsCount

LEMMA CountInit == Init => CountInv
<1> SUFFICES ASSUME Init
             PROVE  CountInv
    OBVIOUS
<1>1. ASSUME NEW u \in Users
      PROVE  /\ request[u].of \in Users \X (0 .. MaxIntents) \X (1 .. MaxAttempts)
             /\ request[u].pc = "answered" /\ request[u].answer = 0
    BY BoundsAssumption DEF Init, NoRequest, Arriving
<1>2. jobs = {} /\ serial = InitialRows + 1
    BY DEF Init
<1>3. serial <= 1 + InitialRows + Cardinality(Issued \ Queued)
    BY <1>2, IssuedCount, BoundsAssumption
<1> QED
    BY <1>1, <1>2, <1>3 DEF CountInv

\* The count does not fall while no number is given, and rises when one is.
LEMMA CountGrows ==
    ASSUME StateInv, CountInv,
           \/ serial' = serial /\ Issued \ Queued \subseteq (Issued \ Queued)'
           \/ /\ serial' = serial + 1
              /\ \E o : /\ o \notin Issued \ Queued
                       /\ (Issued \ Queued) \cup {o} \subseteq (Issued \ Queued)'
    PROVE  serial' <= 1 + InitialRows + Cardinality(Issued \ Queued)'
<1>1. PICK S, T : S = Issued \ Queued /\ T = (Issued \ Queued)'
    OBVIOUS
<1>2. IsFiniteSet(S) /\ Cardinality(S) \in Nat
    BY <1>1, IssuedCount
<1>3. T \in SUBSET Attempts
    BY <1>1 DEF Issued, Attempts
<1>4. IsFiniteSet(T) /\ Cardinality(T) \in Nat
    BY <1>3, AttemptsCount, FS_Subset, FS_CardinalityType
<1>5. PICK c, d : /\ c \in Nat /\ c = serial /\ d = serial'
                  /\ c <= 1 + InitialRows + Cardinality(S)
    BY <1>1 DEF StateInv, CountInv
<1>6. CASE d = c /\ S \subseteq T
    <2>1. Cardinality(S) <= Cardinality(T)
        BY <1>4, <1>6, FS_Subset
    <2> QED
        BY <1>1, <1>2, <1>4, <1>5, <1>6, <2>1, BoundsAssumption
<1>7. ASSUME d = c + 1, NEW o, o \notin S, S \cup {o} \subseteq T
      PROVE  d <= 1 + InitialRows + Cardinality(T)
    <2>1. IsFiniteSet(S \cup {o}) /\ Cardinality(S \cup {o}) = Cardinality(S) + 1
        BY <1>2, <1>7, FS_AddElement
    <2>2. Cardinality(S \cup {o}) <= Cardinality(T)
        BY <1>4, <1>7, FS_Subset
    <2> QED
        BY <1>2, <1>4, <1>5, <1>7, <2>1, <2>2, BoundsAssumption
<1> QED
    BY <1>1, <1>5, <1>6, <1>7

LEMMA CountNext ==
    GatewayInv /\ AllFresh /\ HonestyInv /\ CountInv /\ [Next]_vars => CountInv'
<1> SUFFICES ASSUME GatewayInv, AllFresh, HonestyInv, CountInv, [Next]_vars
             PROVE  CountInv'
    OBVIOUS
<1>1. StateInv
    BY DEF GatewayInv
<1>2. CASE token' \in [Users -> BOOLEAN] /\ UNCHANGED <<request, jobs, database, scenario>>
    BY <1>2 DEF CountInv, Issued, Queued, database
<1>3. ASSUME NEW u \in Users, NEW r \in Request, Turns(u, r)
      PROVE  CountInv'
    <2>1. Becomes(u, r) /\ (Forwards(u, r) \/ jobs' \subseteq jobs)
        BY <1>3, TurnJobs
    <2>2. /\ request'[u] = r /\ \A v \in Users \ {u} : request'[v] = request[v]
          /\ serial' = serial
        BY <1>1, <2>1, Others DEF Becomes, database
    <2>3. PICK old \in Request : old = request[u]
        BY <1>1, RequestOf
    <2>4. /\ RequestInv(u) /\ FreshInv(u) /\ old.of[1] = u
          /\ old.of[2] \in Nat /\ old.of[3] \in Nat
        BY <1>1, <2>3, Numbers DEF GatewayInv, AllFresh, RequestInv
    <2>5. \A j \in jobs' : \/ j \in jobs
                           \/ /\ Forwards(u, r)
                              /\ j.of = old.of /\ j.wish = old.wish /\ CallInv(j)
        <3>1. CASE Forwards(u, r)
            BY <1>1, <2>3, <2>4, <3>1, NewCalls DEF Forwards
        <3> QED
            BY <2>1, <3>1
    <2>6. /\ old.of \in Users \X (0 .. MaxIntents) \X (1 .. MaxAttempts)
          /\ old.of[2] = 0 => old.pc = "answered" /\ old.answer = 0
        BY <2>3 DEF CountInv
    <2>7. MaxIntents \in Nat /\ MaxAttempts \in Nat \ {0}
        BY BoundsAssumption
    <2>8. /\ r.of \in Users \X (0 .. MaxIntents) \X (1 .. MaxAttempts)
          /\ r.of[2] # 0
        <3>1. CASE Asks(u, r) /\ NewQuestion(u, r)
            BY <2>3, <2>6, <2>7, <3>1 DEF NewQuestion
        <3>2. CASE Asks(u, r) /\ SecondAttempt(u, r)
            BY <2>3, <2>6, <2>7, <3>2 DEF SecondAttempt
        <3>3. CASE Asks(u, r) /\ Continuation(u, r)
            BY <2>3, <2>6, <3>3 DEF Continuation, SameQuestion
        <3>4. CASE ~Asks(u, r)
            <4>1. r.of = old.of /\ old.pc # "answered"
                BY <1>3, <2>3, <3>4 DEF Turns, Passes, Ends, TurnedAway, PassedThrough,
                   Forwards, Receives, GivesUp, Awaits, Onward, SameQuestion
            <4> QED
                BY <2>6, <4>1
        <3> QED
            BY <3>1, <3>2, <3>3, <3>4 DEF Asks
    <2>9. \A j \in jobs' : j.of \in Attempts
        <3>1. Forwards(u, r) => old.of \in Attempts
            BY <2>3, <2>6, <2>7 DEF Forwards, Attempts
        <3> QED
            BY <2>5, <3>1 DEF CountInv
    <2>10. ASSUME NEW o \in Issued \ Queued
           PROVE  o \in (Issued \ Queued)'
        <3>1. /\ o \in Attempts /\ o[1] \in Users /\ o[2] \in Nat /\ o[3] \in Nat
              /\ UpTo(o, request[o[1]].of)
              /\ ~ /\ o = request[o[1]].of /\ Unsent(request[o[1]])
                   /\ request[o[1]].wish.route \in Changing
            BY <2>7 DEF Issued, Attempts
        <3>2. o \in Issued'
            <4>1. CASE o[1] # u
                BY <2>2, <3>1, <4>1 DEF Issued
            <4>2. CASE o[1] = u
                <5>1. /\ UpTo(o, old.of)
                      /\ ~(o = old.of /\ Unsent(old) /\ old.wish.route \in Changing)
                    BY <2>3, <3>1, <4>2
                <5>2. UpTo(o, r.of) /\ ~(o = r.of /\ Unsent(r) /\ r.wish.route \in Changing)
                    <6>1. CASE NewQuestion(u, r) \/ SecondAttempt(u, r)
                        <7>1. /\ r.of[2] \in Nat /\ r.of[3] \in Nat
                              /\ \/ r.of[2] = old.of[2] + 1
                                 \/ r.of[2] = old.of[2] /\ r.of[3] = old.of[3] + 1
                            BY <2>3, <2>4, <6>1 DEF NewQuestion, SecondAttempt
                        <7> QED
                            BY <2>4, <3>1, <5>1, <7>1 DEF UpTo
                    <6>2. CASE Asks(u, r) /\ Continuation(u, r)
                        <7>1. r.of = old.of /\ r.wish = old.wish /\ IsList(old.wish)
                            BY <2>3, <2>4, <6>2 DEF Continuation, SameQuestion, FreshInv
                        <7> QED
                            BY <5>1, <7>1, ListRoutes
                    <6>3. CASE ~Asks(u, r)
                        <7>1. /\ r.of = old.of /\ r.wish = old.wish
                              /\ Unsent(r) => Unsent(old)
                            BY <1>3, <2>3, <6>3 DEF Turns, Passes, Ends, Forwards, Receives,
                               GivesUp, Onward, SameQuestion, Unsent
                        <7> QED
                            BY <5>1, <7>1
                    <6> QED
                        BY <6>1, <6>2, <6>3 DEF Asks
                <5> QED
                    BY <2>2, <3>1, <4>2, <5>2 DEF Issued
            <4> QED
                BY <4>1, <4>2
        <3>3. ASSUME NEW j \in jobs', j.pc = "queued", j.op = "create", j.of = o
              PROVE  FALSE
            <4>1. j \notin jobs
                BY <3>3 DEF Queued
            <4>2. Forwards(u, r) /\ o = old.of /\ j.wish = old.wish /\ CallInv(j)
                BY <2>5, <3>3, <4>1
            <4>3. Unsent(old)
                BY <2>3, <4>2 DEF Forwards, Unsent
            <4>4. old.wish.route \in Changing
                <5>1. PICK c \in Calls(old.wish.route) : c = <<j.service, j.op>>
                    BY <4>2 DEF CallInv
                <5>2. c[2] \in ChangingOps /\ old.wish.route \in Route
                    BY <3>3, <5>1 DEF ChangingOps, Request, Wish
                <5> QED
                    BY <5>2, ChangingRoutes
            <4> QED
                BY <2>3, <2>4, <3>1, <4>2, <4>3, <4>4
        <3> QED
            BY <3>2, <3>3 DEF Queued
    <2>11. serial' <= 1 + InitialRows + Cardinality(Issued \ Queued)'
        BY <1>1, <2>2, <2>10, CountGrows
    <2> QED
        BY <2>2, <2>8, <2>9, <2>11 DEF CountInv
<1>4. ASSUME NEW j \in jobs, NEW r \in Job, GoesOn(j, r), Leaves(j, r) \/ Alters(j, r)
      PROVE  CountInv'
    <2>1. /\ request' = request /\ jobs' \subseteq (jobs \ {j}) \cup {r}
          /\ r.pc # "queued" /\ r.of = j.of /\ r.op = j.op
        BY <1>4 DEF GoesOn, SameCall
    <2>2. Issued' = Issued
        BY <2>1 DEF Issued
    <2>3. Queued' \subseteq Queued
        BY <2>1 DEF Queued
    <2>4. \A k \in jobs' : k.of \in Attempts
        BY <2>1 DEF CountInv
    <2>5. CASE serial' = serial
        <3>1. Issued \ Queued \subseteq (Issued \ Queued)'
            BY <2>2, <2>3
        <3>2. serial' <= 1 + InitialRows + Cardinality(Issued \ Queued)'
            BY <1>1, <2>5, <3>1, CountGrows
        <3> QED
            BY <2>1, <2>4, <3>2 DEF CountInv
    <2>6. CASE j.pc = "queued" /\ r.pc = "running" /\ serial' = serial + 1
        <3>1. j.op = "create" /\ j.op \in ChangingOps
            BY <1>4, <2>1, <2>6 DEF GoesOn, ChangingOps
        <3>2. j.of \in Queued
            BY <2>6, <3>1 DEF Queued
        <3>3. j.of \in Issued
            <4>1. PICK u \in Users : u = j.of[1]
                BY DEF CountInv, Attempts
            <4>2. j.of \in Attempts /\ UpTo(j.of, request[u].of)
                BY <4>1 DEF CountInv, AllFresh, FreshInv
            <4>3. j.of = request[u].of => ~Unsent(request[u])
                BY <3>1, NothingMade DEF Unmade
            <4> QED
                BY <4>1, <4>2, <4>3 DEF Issued
        <3>4. j.of \notin Queued'
            <4>1. SUFFICES ASSUME NEW k \in jobs', k.pc = "queued", k.op = "create", k.of = j.of
                           PROVE  FALSE
                BY DEF Queued
            <4>2. k \in jobs /\ k # j
                BY <2>1, <2>6, <4>1
            <4> QED
                BY <3>1, <4>1, <4>2 DEF HonestyInv, OnceInv
        <3>5. /\ j.of \notin Issued \ Queued
              /\ (Issued \ Queued) \cup {j.of} \subseteq (Issued \ Queued)'
            BY <2>2, <2>3, <3>2, <3>3, <3>4
        <3>6. serial' <= 1 + InitialRows + Cardinality(Issued \ Queued)'
            BY <1>1, <2>6, <3>5, CountGrows
        <3> QED
            BY <2>1, <2>4, <3>6 DEF CountInv
    <2> QED
        BY <1>4, <2>5, <2>6 DEF GoesOn
<1> QED
    BY <1>2, <1>3, <1>4, Moves

ProgressInv == progress \in [Serials -> Status]

LEMMA ProgressInit == Init => ProgressInv
BY DEF Init, ProgressInv, Status

LEMMA ProgressNext == GatewayInv /\ ProgressInv /\ [Next]_vars => ProgressInv'
<1> SUFFICES ASSUME GatewayInv, ProgressInv, [Next]_vars
             PROVE  ProgressInv'
    OBVIOUS
<1>1. CASE UNCHANGED progress
    BY <1>1 DEF ProgressInv
<1>2. CASE UNCHANGED database
    BY <1>1, <1>2 DEF database
<1>3. ASSUME NEW u \in Users, NEW r \in Request, Turns(u, r)
      PROVE  ProgressInv'
    BY <1>2, <1>3, TurnJobs DEF Becomes
<1>4. ASSUME NEW j \in jobs, NEW r \in Job, GoesOn(j, r), Leaves(j, r) \/ Alters(j, r)
      PROVE  ProgressInv'
    <2>1. ASSUME NEW s \in Status, progress' = [progress EXCEPT ![j.wish.id] = s]
          PROVE  ProgressInv'
        BY <2>1 DEF ProgressInv
    <2> QED
        BY <1>1, <1>4, <2>1 DEF Leaves, Alters
<1> QED
    BY <1>2, <1>3, <1>4, Moves

\* As no request makes a row twice, the numbers suffice.
LEMMA NumbersSuffice ==
    ASSUME GatewayInv, GivenInv, CountInv
    PROVE  Given \subseteq Serials
<1>1. PICK c \in Nat : c = serial
    BY DEF GatewayInv, StateInv
<1>2. PICK n \in Nat : n = Cardinality(Users) * MaxIntents * MaxAttempts
    BY AttemptsCount
<1>3. PICK m \in Nat : m = Cardinality(Issued \ Queued) /\ m <= n
    BY <1>2, IssuedCount
<1>4. c <= 1 + InitialRows + m
    BY <1>1, <1>3 DEF CountInv
<1>5. c - 1 <= InitialRows + n
    BY <1>3, <1>4, BoundsAssumption
<1>6. Given = 1 .. c - 1 /\ Serials = 1 .. InitialRows + n
    BY <1>1, <1>2 DEF Given, Serials
<1> QED
    BY <1>5, <1>6, BoundsAssumption

TypeInv == GatewayInv /\ AllFresh /\ HonestyInv /\ GivenInv /\ CountInv /\ ProgressInv

LEMMA TypeInvInit == Init => TypeInv
BY GatewayInvInit, FreshInit, HonestyInit, GivenInit, CountInit, ProgressInit DEF TypeInv

LEMMA TypeInvNext == TypeInv /\ [Next]_vars => TypeInv'
BY GatewayInvNext, FreshNext, HonestyNext, GivenNext, CountNext, ProgressNext DEF TypeInv

\* The requests, the calls and the databases are what they are declared to be;
\* in particular every row's number is one of Serials, as no request makes a row
\* twice.
THEOREM GatewayTypeCorrect == Spec => []TypeOK
<1>1. TypeInv => TypeOK
    <2> SUFFICES ASSUME TypeInv
                 PROVE  TypeOK
        OBVIOUS
    <2>1. StateInv
        BY DEF TypeInv, GatewayInv
    <2>2. Given \subseteq Serials
        BY NumbersSuffice DEF TypeInv
    <2>3. ASSUME NEW u \in Users
          PROVE  /\ request[u].pc \in {"arrived", "authenticated", "waiting", "answered"}
                 /\ request[u].ctx \in Context
                 /\ request[u].walk \in Walk
                 /\ request[u].outcome \in [Services -> Codes]
                 /\ request[u].answer \in Codes
        <3>1. request[u].walk \in Reading
            BY <2>1, RequestOf
        <3>2. request[u].walk.start \subseteq Serials /\ request[u].walk.seen \subseteq Serials
            BY <2>2 DEF TypeInv, GivenInv
        <3>3. request[u].walk \in Walk
            BY <3>1, <3>2 DEF Reading, Walk
        <3> QED
            BY <2>1, <3>3, RequestOf
    <2>4. \A j \in jobs : j.code \in Codes /\ j.rows \subseteq Serials
        BY <2>1, <2>2 DEF TypeInv, StateInv, Job, GivenInv
    <2>5. \A s \in DOMAIN tables : tables[s] \subseteq Serials
        BY <2>1, <2>2 DEF TypeInv, StateInv, GivenInv
    <2> QED
        BY <2>1, <2>3, <2>4, <2>5 DEF TypeOK, TypeInv, StateInv, ProgressInv
<1> QED
    BY <1>1, TypeInvInit, TypeInvNext, PTL DEF Spec

-----------------------------------------------------------------------------
(* Pages                                                                    *)

\* at: when each row was created; tab: the rows of the table; T: those listed.
Alone(at, tab, t) == \A q \in tab \ {t} : at[q] # at[t]

AllAlone(at, tab) == \A t \in tab : Alone(at, tab, t)

Unseen(at, walk, tab) == {t \in walk.start \ walk.seen : Alone(at, tab, t)}

\* The rows that were not shown and will not be, once n have been read: those that
\* are no longer listed, and those that are among the n newest.
Missed(at, walk, tab, T, n) ==
    {t \in Unseen(at, walk, tab) : t \notin T \/ Rank(at, T, t) < n}

\* A reading that has come to the n newest rows of T, when came rows have entered
\* the list and gone rows have left it.
Fits(at, walk, tab, T, n, came, gone) ==
    /\ walk.start \subseteq tab /\ walk.seen \subseteq tab
    /\ walk.left + Cardinality(Missed(at, walk, tab, T, n)) <= gone
    /\ AllAlone(at, tab) =>
           /\ walk.entered + walk.repeats <= came
           /\ \A t \in walk.seen :
                 Rank(at, T, t) + 1 + walk.repeats + walk.entered <= n + came

\* A reading that is over.
Complete(at, walk, tab, gone) ==
    walk.left + Cardinality(Unseen(at, walk, tab)) <= gone

\* The table may grow, the list changes by one row, and the counters with it.
Steps(at, tab, T, newTab, newT, x) ==
    /\ IsFiniteSet(newTab) /\ tab \subseteq newTab
    /\ \A t \in newTab : at[t] \in Nat
    /\ T \subseteq tab /\ newT \subseteq newTab
    /\ T \ {x} = newT \ {x}

LEMMA FewerUnseen ==
    ASSUME NEW at, NEW tab, NEW newTab, tab \subseteq newTab, IsFiniteSet(newTab), NEW walk,
           walk.start \subseteq tab
    PROVE  /\ Unseen(at, walk, newTab) \in SUBSET Unseen(at, walk, tab)
           /\ Unseen(at, walk, tab) \in SUBSET tab
           /\ IsFiniteSet(Unseen(at, walk, tab))
           /\ AllAlone(at, newTab) => AllAlone(at, tab)
<1>1. \A t : Alone(at, newTab, t) => Alone(at, tab, t)
    BY DEF Alone
<1>2. /\ Unseen(at, walk, newTab) \in SUBSET Unseen(at, walk, tab)
      /\ Unseen(at, walk, tab) \in SUBSET newTab
      /\ Unseen(at, walk, tab) \in SUBSET tab
    BY <1>1 DEF Unseen
<1> QED
    BY <1>1, <1>2, FS_Subset DEF AllAlone

\* Rows that enter are not missed and hide nothing.
LEMMA MissedAfterEntry ==
    ASSUME NEW at, NEW tab, NEW T, NEW newTab, NEW newT, NEW x,
           Steps(at, tab, T, newTab, newT, x), T \subseteq newT,
           NEW walk, walk.start \subseteq tab, NEW n \in Nat
    PROVE  Missed(at, walk, newTab, newT, n) \in SUBSET Missed(at, walk, tab, T, n)
<1>1. IsFiniteSet(newT) /\ IsFiniteSet(T)
    BY FS_Subset DEF Steps
<1>2. ASSUME NEW t \in Missed(at, walk, newTab, newT, n)
      PROVE  t \in Missed(at, walk, tab, T, n)
    <2>1. t \in Unseen(at, walk, tab)
        BY FewerUnseen DEF Missed, Steps
    <2>2. CASE t \notin newT
        BY <2>1, <2>2 DEF Missed
    <2>3. CASE Rank(at, newT, t) < n
        <3>1. Rank(at, T, t) <= Rank(at, newT, t)
            BY <1>1, RankGrows
        <3>2. Rank(at, T, t) < n
            BY <1>1, <2>3, <3>1, RankIsNat
        <3> QED
            BY <2>1, <3>2 DEF Missed
    <2> QED
        BY <2>2, <2>3 DEF Missed
<1> QED
    BY <1>2

\* When a row leaves, one row more is missed at most: it, or the first of the
\* rows below the n newest.
LEMMA MissedAfterLeaving ==
    ASSUME NEW at, NEW tab, NEW T, NEW newTab, NEW newT, NEW x,
           Steps(at, tab, T, newTab, newT, x), x \in T, newT = T \ {x},
           NEW walk, walk.start \subseteq tab, NEW n \in Nat
    PROVE  \E y : Missed(at, walk, newTab, newT, n)
                     \subseteq Missed(at, walk, tab, T, n) \cup {y}
<1> DEFINE More == Missed(at, walk, newTab, newT, n) \ Missed(at, walk, tab, T, n)
<1>1. IsFiniteSet(newT) /\ IsFiniteSet(T)
    BY FS_Subset DEF Steps
<1>2. ASSUME NEW t \in More
      PROVE  /\ t \in T /\ Alone(at, tab, t) /\ at[t] \in Nat
             /\ ~(Rank(at, T, t) < n)
             /\ t = x \/ Rank(at, newT, t) < n
    <2>1. t \in Unseen(at, walk, tab)
        BY FewerUnseen DEF Missed, Steps
    <2>2. t \in T /\ ~(Rank(at, T, t) < n)
        BY <2>1 DEF Missed
    <2>3. Alone(at, tab, t) /\ at[t] \in Nat
        BY <2>1, <2>2 DEF Unseen, Steps
    <2>4. t \notin newT \/ Rank(at, newT, t) < n
        BY DEF Missed
    <2> QED
        BY <2>2, <2>3, <2>4
\* Of two, the older would still have the newer above it.
<1>3. ASSUME NEW s \in More, NEW t \in More, at[s] > at[t]
      PROVE  FALSE
    <2>1. /\ s \in T /\ t \in T /\ at[s] \in Nat /\ at[t] \in Nat
          /\ Rank(at, T, s) \in Nat /\ Rank(at, T, t) \in Nat
          /\ Rank(at, newT, s) \in Nat /\ Rank(at, newT, t) \in Nat
          /\ Rank(at, T, s) >= n
        <3>1. /\ Rank(at, T, s) \in Nat /\ Rank(at, T, t) \in Nat
              /\ Rank(at, newT, s) \in Nat /\ Rank(at, newT, t) \in Nat
            BY <1>1, RankIsNat
        <3> QED
            BY <1>2, <3>1
    <2>2. \A p \in T : at[p] \in Nat
        BY DEF Steps
    <2>3. CASE t # x
        <3>1. Rank(at, T, s) < Rank(at, T, t)
            BY <1>1, <1>3, <2>1, <2>2, RankOrder
        <3>2. T \subseteq newT \cup {x}
            OBVIOUS
        <3>3. Rank(at, T, t) <= Rank(at, newT, t) + 1
            BY <1>1, <3>2, RankAdds
        <3>4. Rank(at, newT, t) < n
            BY <1>2, <2>3
        <3> QED
            BY <2>1, <3>1, <3>3, <3>4
    <2>4. CASE t = x
        <3>1. s # x /\ Rank(at, newT, s) < n
            BY <1>2, <1>3, <2>1, <2>4
        <3>2. Newer(at, newT, s) = Newer(at, T, s)
            BY <1>3, <2>1, <2>4 DEF Newer
        <3> QED
            BY <2>1, <3>1, <3>2 DEF Rank
    <2> QED
        BY <2>3, <2>4
<1>4. \A s, t \in More : s = t
    <2> SUFFICES ASSUME NEW s \in More, NEW t \in More, s # t
                 PROVE  FALSE
        OBVIOUS
    <2>1. at[s] # at[t] /\ at[s] \in Nat /\ at[t] \in Nat
        BY <1>2 DEF Alone, Steps
    <2>2. at[s] > at[t] \/ at[t] > at[s]
        BY <2>1
    <2> QED
        BY <1>3, <2>2
<1>5. CASE More = {}
    BY <1>5
<1>6. CASE More # {}
    <2>1. PICK y \in More : TRUE
        BY <1>6
    <2>2. More = {y}
        BY <1>4, <2>1
    <2> QED
        BY <2>2
<1> QED
    BY <1>5, <1>6

\* A reading goes on fitting, whatever enters the list or leaves it.
LEMMA FitsOn ==
    ASSUME NEW at, NEW tab, NEW T, NEW newTab, NEW newT, NEW x,
           Steps(at, tab, T, newTab, newT, x),
           NEW walk \in Reading, NEW n \in Nat, NEW came \in Nat, NEW gone \in Nat,
           Fits(at, walk, tab, T, n, came, gone)
    PROVE  Fits(at, walk, newTab, newT, n, came + Cardinality(newT \ T),
                gone + Cardinality(T \ newT))
<1> DEFINE old == Missed(at, walk, tab, T, n)
           new == Missed(at, walk, newTab, newT, n)
           in == Cardinality(newT \ T)
           out == Cardinality(T \ newT)
<1>1. IsFiniteSet(T) /\ IsFiniteSet(newT) /\ IsFiniteSet(tab)
    BY FS_Subset DEF Steps
<1>2. walk.start \subseteq newTab /\ walk.seen \subseteq newTab
    BY DEF Fits, Steps
<1>3. IsFiniteSet(old) /\ Cardinality(old) \in Nat /\ IsFiniteSet(new) /\ Cardinality(new) \in Nat
    <2>1. IsFiniteSet(Unseen(at, walk, tab)) /\ IsFiniteSet(Unseen(at, walk, newTab))
        BY <1>2, FewerUnseen DEF Steps, Fits
    <2>2. old \in SUBSET Unseen(at, walk, tab) /\ new \in SUBSET Unseen(at, walk, newTab)
        BY DEF Missed
    <2> QED
        BY <2>1, <2>2, FS_Subset, FS_CardinalityType
<1>4. /\ in \in Nat /\ out \in Nat
      /\ Cardinality(new) <= Cardinality(old) + out
      /\ \A t : Rank(at, newT, t) <= Rank(at, T, t) + in
    <2>1. CASE T \subseteq newT
        <3>1. new \in SUBSET old
            BY <2>1, MissedAfterEntry DEF Fits
        <3>2. Cardinality(new) <= Cardinality(old)
            BY <1>3, <3>1, FS_Subset
        <3>3. out = 0
            <4>1. T \ newT = {}
                BY <2>1
            <4> QED
                BY <4>1, FS_EmptySet
        <3>4. newT \ T = {} \/ newT \ T = {x}
            BY <2>1 DEF Steps
        <3>5. CASE newT \ T = {}
            <4>1. newT = T /\ in = 0
                BY <2>1, <3>5, FS_EmptySet
            <4>2. \A t : Rank(at, newT, t) <= Rank(at, T, t) + in
                BY <1>1, <4>1, RankIsNat
            <4> QED
                BY <1>3, <3>2, <3>3, <4>1, <4>2
        <3>6. CASE newT \ T = {x}
            <4>1. in = 1 /\ newT \subseteq T \cup {x}
                BY <3>6, FS_Singleton
            <4>2. \A t : Rank(at, newT, t) <= Rank(at, T, t) + in
                BY <1>1, <4>1, RankAdds
            <4> QED
                BY <1>3, <3>2, <3>3, <4>1, <4>2
        <3> QED
            BY <3>4, <3>5, <3>6
    <2>2. CASE ~(T \subseteq newT)
        <3>1. x \in T /\ newT = T \ {x} /\ T \ newT = {x} /\ newT \ T = {}
            BY <2>2 DEF Steps
        <3>2. in = 0 /\ out = 1
            BY <3>1, FS_EmptySet, FS_Singleton
        <3>3. PICK y : new \subseteq old \cup {y}
            BY <3>1, MissedAfterLeaving DEF Fits
        <3>4. Cardinality(new) <= Cardinality(old) + 1
            <4>1. /\ IsFiniteSet(old \cup {y})
                  /\ Cardinality(old \cup {y}) \in {Cardinality(old), Cardinality(old) + 1}
                BY <1>3, FS_AddElement
            <4>2. Cardinality(new) <= Cardinality(old \cup {y})
                BY <3>3, <4>1, FS_Subset
            <4> QED
                BY <1>3, <4>1, <4>2
        <3>5. \A t : Rank(at, newT, t) <= Rank(at, T, t) + in
            <4>1. newT \in SUBSET T
                BY <3>1
            <4>2. \A t : /\ Rank(at, newT, t) <= Rank(at, T, t)
                         /\ Rank(at, newT, t) \in Nat /\ Rank(at, T, t) \in Nat
                BY <1>1, <4>1, RankGrows, RankIsNat
            <4> QED
                BY <3>2, <4>2
        <3> QED
            BY <1>3, <3>2, <3>4, <3>5
    <2> QED
        BY <2>1, <2>2
<1>5. /\ walk.left \in Nat /\ walk.entered \in Nat /\ walk.repeats \in Nat
      /\ \A t : Rank(at, T, t) \in Nat /\ Rank(at, newT, t) \in Nat
    BY <1>1, RankIsNat DEF Reading
<1>6. walk.left + Cardinality(new) <= gone + out
    <2>1. walk.left + Cardinality(old) <= gone
        BY DEF Fits
    <2> HIDE DEF old, new, out
    <2> QED
        BY <1>3, <1>4, <1>5, <2>1
<1>7. ASSUME AllAlone(at, newTab)
      PROVE  /\ walk.entered + walk.repeats <= came + in
             /\ \A t \in walk.seen :
                   Rank(at, newT, t) + 1 + walk.repeats + walk.entered <= n + (came + in)
    <2>1. AllAlone(at, tab)
        BY <1>7, FewerUnseen DEF Steps, Fits
    <2>2. /\ walk.entered + walk.repeats <= came
          /\ \A t \in walk.seen :
                Rank(at, T, t) + 1 + walk.repeats + walk.entered <= n + came
        BY <2>1 DEF Fits
    <2> HIDE DEF in
    <2>3. \A t : Rank(at, newT, t) <= Rank(at, T, t) + in
        BY <1>4
    <2> QED
        BY <1>4, <1>5, <2>2, <2>3
<1> QED
    BY <1>2, <1>6, <1>7 DEF Fits

LEMMA CompleteOn ==
    ASSUME NEW at, NEW tab, NEW newTab, IsFiniteSet(newTab), tab \subseteq newTab,
           NEW walk \in Reading, walk.start \subseteq tab,
           NEW gone \in Nat, NEW later \in Nat, gone <= later,
           Complete(at, walk, tab, gone)
    PROVE  Complete(at, walk, newTab, later)
<1>1. /\ IsFiniteSet(Unseen(at, walk, tab))
      /\ Unseen(at, walk, newTab) \in SUBSET Unseen(at, walk, tab)
    BY FewerUnseen
<1>2. /\ Cardinality(Unseen(at, walk, newTab)) <= Cardinality(Unseen(at, walk, tab))
      /\ Cardinality(Unseen(at, walk, newTab)) \in Nat
      /\ Cardinality(Unseen(at, walk, tab)) \in Nat
    BY <1>1, FS_Subset, FS_CardinalityType
<1> QED
    BY <1>2 DEF Complete, Reading

\* An empty reading fits.
LEMMA StartFits ==
    ASSUME NEW at, NEW tab, NEW T \in SUBSET tab, IsFiniteSet(tab), NEW walk,
           NEW came \in Nat, NEW gone \in Nat,
           walk.start = T, walk.seen = {}, walk.repeats = 0,
           walk.entered = came, walk.left = gone
    PROVE  Fits(at, walk, tab, T, 0, came, gone)
<1>1. IsFiniteSet(T)
    BY FS_Subset
<1>2. \A t : Rank(at, T, t) \in Nat
    BY <1>1, RankIsNat
<1>3. Missed(at, walk, tab, T, 0) = {}
    <2>1. \A t : ~(Rank(at, T, t) < 0)
        BY <1>2
    <2> QED
        BY <2>1 DEF Missed, Unseen
<1>4. Cardinality(Missed(at, walk, tab, T, 0)) = 0
    BY <1>3, FS_EmptySet
<1> QED
    BY <1>4 DEF Fits

\* The first n rows, in an order that the newer come first in.
LEMMA FirstRanks ==
    ASSUME NEW at, at = createdAt, NEW T, IsFiniteSet(T), \A p \in T : at[p] \in Nat,
           NEW n \in Nat, NEW S \in FirstRows(T, n)
    PROVE  /\ S \in SUBSET T /\ IsFiniteSet(S) /\ Cardinality(S) \in Nat /\ Cardinality(S) <= n
           /\ S # T => Cardinality(S) = n
           /\ \A t \in S : Newer(at, T, t) \in SUBSET S /\ Rank(at, T, t) < n
           /\ \A t \in T : Alone(at, T, t) /\ Rank(at, T, t) < n => t \in S
<1>1. /\ S \in SUBSET T
      /\ Cardinality(S) = n \/ (S = T /\ Cardinality(T) < n)
      /\ \A s \in S, t \in T \ S : at[s] >= at[t]
    BY DEF FirstRows
<1>2. IsFiniteSet(S) /\ Cardinality(S) \in Nat /\ Cardinality(S) <= n
    BY <1>1, FS_Subset, FS_CardinalityType
<1>3. ASSUME NEW t \in S
      PROVE  Newer(at, T, t) \in SUBSET S /\ Rank(at, T, t) < n
    <2>1. \A q \in T \ S : ~(at[q] > at[t])
        BY <1>1
    <2>2. Newer(at, T, t) \subseteq S
        BY <2>1 DEF Newer
    <2>3. at[t] \in Nat
        BY <1>1
    <2>4. Rank(at, T, t) < Cardinality(S)
        BY <1>1, <2>2, <2>3, RankBelow
    <2> QED
        BY <1>2, <2>2, <2>4, RankIsNat
<1>4. ASSUME NEW t \in T, Alone(at, T, t), Rank(at, T, t) < n, t \notin S
      PROVE  FALSE
    <2>1. ASSUME NEW s \in S
          PROVE  s \in Newer(at, T, t)
        <3>1. at[s] >= at[t] /\ at[s] # at[t] /\ s \in T
            BY <1>1, <1>4 DEF Alone
        <3>2. at[s] \in Nat /\ at[t] \in Nat
            BY <3>1
        <3> QED
            BY <3>1, <3>2 DEF Newer
    <2>2. Cardinality(S) <= Rank(at, T, t)
        BY <2>1, RankIsNat, FS_Subset DEF Rank
    <2>3. Cardinality(S) = n
        BY <1>1, <1>4
    <2> QED
        BY <1>2, <1>4, <2>2, <2>3, RankIsNat
<1> QED
    BY <1>1, <1>2, <1>3, <1>4

\* n rows that are not on the page P were skipped for it.
Skipped(at, T, P, n) ==
    \E skipped \in SUBSET (T \ P) :
        Cardinality(skipped) = n /\ \A s \in skipped, t \in P : at[s] >= at[t]

\* A page, and what the database skipped for it.
LEMMA SliceRanks ==
    ASSUME NEW at, at = createdAt, NEW T, IsFiniteSet(T), \A p \in T : at[p] \in Nat,
           NEW n \in Nat, NEW P \in Slices(T, n, Limit)
    PROVE  /\ P \in SUBSET T /\ IsFiniteSet(P) /\ Cardinality(P) \in Nat
           /\ Cardinality(P) <= Limit
           /\ \A t \in P : Rank(at, T, t) < n + Limit
           /\ \A t \in T \ P : Alone(at, T, t) /\ Rank(at, T, t) < n + Limit
                                  => Rank(at, T, t) < n
           /\ P # {} => Skipped(at, T, P, n)
<1>1. Limit \in Nat /\ n + Limit \in Nat
    BY LimitAssumption
<1>2. PICK upTo \in FirstRows(T, n + Limit) :
         \E skipped \in FirstRows(upTo, n) : P = upTo \ skipped
    BY DEF Slices
<1>3. PICK skipped \in FirstRows(upTo, n) : P = upTo \ skipped
    BY <1>2
<1>4. /\ upTo \in SUBSET T /\ IsFiniteSet(upTo) /\ Cardinality(upTo) \in Nat
      /\ Cardinality(upTo) <= n + Limit
      /\ \A t \in upTo : Newer(at, T, t) \in SUBSET upTo /\ Rank(at, T, t) < n + Limit
      /\ \A t \in T : Alone(at, T, t) /\ Rank(at, T, t) < n + Limit => t \in upTo
    BY <1>1, FirstRanks
<1>5. \A p \in upTo : at[p] \in Nat
    BY <1>4
<1>6. /\ skipped \in SUBSET upTo /\ IsFiniteSet(skipped) /\ Cardinality(skipped) \in Nat
      /\ skipped # upTo => Cardinality(skipped) = n
      /\ \A t \in skipped : Rank(at, upTo, t) < n
    BY <1>4, <1>5, FirstRanks
<1>7. /\ IsFiniteSet(P) /\ Cardinality(P) \in Nat
      /\ Cardinality(P) = Cardinality(upTo) - Cardinality(skipped)
    BY <1>3, <1>4, <1>6, CountWithout
<1>8. Cardinality(P) <= Limit
    <2>1. CASE skipped = upTo
        BY <1>1, <1>4, <1>7, <2>1
    <2>2. CASE skipped # upTo
        BY <1>1, <1>4, <1>6, <1>7, <2>2
    <2> QED
        BY <2>1, <2>2
<1>9. ASSUME NEW t \in T \ P, Alone(at, T, t), Rank(at, T, t) < n + Limit
      PROVE  Rank(at, T, t) < n
    <2>1. t \in upTo /\ t \in skipped
        BY <1>3, <1>4, <1>9
    <2>2. Newer(at, T, t) = Newer(at, upTo, t)
        BY <1>4, <2>1 DEF Newer
    <2> QED
        BY <1>6, <2>1, <2>2 DEF Rank
<1>10. P # {} => Skipped(at, T, P, n)
    <2>1. P # {} => /\ skipped \in SUBSET (T \ P) /\ Cardinality(skipped) = n
                    /\ \A s \in skipped, t \in P : at[s] >= at[t]
        BY <1>3, <1>4, <1>6 DEF FirstRows
    <2> QED
        BY <2>1, Zenon DEF Skipped
<1> QED
    BY <1>3, <1>4, <1>7, <1>8, <1>9, <1>10

\* A page fits the reading that it is for.
LEMMA PageFits ==
    ASSUME NEW at, at = createdAt, NEW tab, IsFiniteSet(tab), \A p \in tab : at[p] \in Nat,
           tab \in SUBSET Nat, NEW T \in SUBSET tab,
           NEW n \in Nat, NEW came \in Nat, NEW gone \in Nat,
           NEW walk \in Reading, Fits(at, walk, tab, T, n, came, gone),
           NEW j \in Job, j.rows \in Slices(T, n, Limit)
    PROVE  Fits(at, Read(walk, j), tab, T, n + Limit, came, gone)
<1> DEFINE again == walk.seen \cap j.rows
<1>1. Limit \in Nat /\ n + Limit \in Nat /\ IsFiniteSet(T) /\ \A p \in T : at[p] \in Nat
    <2>1. Limit \in Nat /\ n + Limit \in Nat
        BY LimitAssumption
    <2>2. IsFiniteSet(T)
        BY FS_Subset
    <2> QED
        BY <2>1, <2>2
<1>2. /\ j.rows \in SUBSET T /\ IsFiniteSet(j.rows) /\ Cardinality(j.rows) \in Nat
      /\ Cardinality(j.rows) <= Limit
      /\ \A t \in j.rows : Rank(at, T, t) < n + Limit
      /\ \A t \in T \ j.rows : Alone(at, T, t) /\ Rank(at, T, t) < n + Limit
                                  => Rank(at, T, t) < n
      /\ j.rows # {} => Skipped(at, T, j.rows, n)
    <2>1. PICK P \in Slices(T, n, Limit) : P = j.rows
        OBVIOUS
    <2>2. P \in SUBSET T
        BY <1>1, SliceRanks
    <2>3. IsFiniteSet(P) /\ Cardinality(P) \in Nat
        BY <1>1, <2>2, FS_Subset, FS_CardinalityType
    <2>4. Cardinality(P) <= Limit
        BY <1>1, SliceRanks
    <2>5. \A t \in P : Rank(at, T, t) < n + Limit
        BY <1>1, SliceRanks
    <2>6. \A t \in T \ P : Alone(at, T, t) /\ Rank(at, T, t) < n + Limit
                               => Rank(at, T, t) < n
        BY <1>1, SliceRanks
    <2>7. P # {} => Skipped(at, T, P, n)
        BY <1>1, SliceRanks
    <2> QED
        BY <2>1, <2>2, <2>3, <2>4, <2>5, <2>6, <2>7
<1>3. PICK read \in Reading :
         /\ read = Read(walk, j) /\ read.start = walk.start
         /\ read.seen = walk.seen \cup j.rows
         /\ read.repeats = walk.repeats + Cardinality(again)
         /\ read.entered = walk.entered /\ read.left = walk.left
    BY <1>2, ReadTyped
<1>4. walk.start \subseteq tab /\ walk.seen \subseteq tab
    BY DEF Fits
<1>5. IsFiniteSet(again) /\ Cardinality(again) \in Nat /\ Cardinality(again) <= Limit
    <2>1. again \in SUBSET j.rows
        OBVIOUS
    <2>2. /\ IsFiniteSet(again) /\ Cardinality(again) \in Nat
          /\ Cardinality(again) <= Cardinality(j.rows)
        BY <1>2, <2>1, FS_Subset, FS_CardinalityType
    <2> QED
        BY <1>1, <1>2, <2>2
<1>6. \A t : Rank(at, T, t) \in Nat
    BY <1>1, RankIsNat
<1>7. read.left + Cardinality(Missed(at, read, tab, T, n + Limit)) <= gone
    <2>1. ASSUME NEW t \in Missed(at, read, tab, T, n + Limit)
          PROVE  t \in Missed(at, walk, tab, T, n)
        <3>1. t \in Unseen(at, walk, tab) /\ t \notin j.rows /\ Alone(at, T, t)
            BY <1>3 DEF Missed, Unseen, Alone
        <3> QED
            BY <1>2, <3>1 DEF Missed
    <2>2. IsFiniteSet(Missed(at, walk, tab, T, n))
        <3>1. IsFiniteSet(Unseen(at, walk, tab))
            BY <1>4, FewerUnseen
        <3>2. Missed(at, walk, tab, T, n) \in SUBSET Unseen(at, walk, tab)
            BY DEF Missed
        <3> QED
            BY <3>1, <3>2, FS_Subset
    <2>3. /\ Cardinality(Missed(at, read, tab, T, n + Limit))
                 <= Cardinality(Missed(at, walk, tab, T, n))
          /\ Cardinality(Missed(at, read, tab, T, n + Limit)) \in Nat
          /\ Cardinality(Missed(at, walk, tab, T, n)) \in Nat
        BY <2>1, <2>2, FS_Subset, FS_CardinalityType
    <2>4. walk.left + Cardinality(Missed(at, walk, tab, T, n)) <= gone /\ walk.left \in Nat
        BY DEF Fits, Reading
    <2> QED
        BY <1>3, <2>3, <2>4
\* The oldest row shown again has above it the others, and the rows skipped.
<1>8. ASSUME AllAlone(at, tab)
      PROVE  walk.entered + walk.repeats + Cardinality(again) <= came
    <2>1. /\ walk.entered \in Nat /\ walk.repeats \in Nat
          /\ walk.entered + walk.repeats <= came
          /\ \A t \in walk.seen :
                Rank(at, T, t) + 1 + walk.repeats + walk.entered <= n + came
        BY <1>8 DEF Fits, Reading
    <2>2. CASE again = {}
        <3>1. Cardinality(again) = 0
            BY <2>2, FS_EmptySet
        <3> QED
            BY <2>1, <3>1
    <2>3. CASE again # {}
        <3>1. PICK skipped \in SUBSET (T \ j.rows) :
                 /\ Cardinality(skipped) = n
                 /\ \A s \in skipped, t \in j.rows : at[s] >= at[t]
            BY <1>2, <2>3 DEF Skipped
        <3>2. PICK g \in again : \A t \in again : at[g] <= at[t]
            <4> DEFINE times == {m \in Nat : \E t \in again : m = at[t]}
            <4>1. times \in SUBSET Nat /\ times # {}
                BY <1>1, <1>2, <2>3
            <4>2. PICK m \in times : \A k \in times : m <= k
                <5> HIDE DEF times
                <5> QED
                    BY <4>1, LeastElement
            <4>3. PICK g \in again : m = at[g]
                BY <4>2
            <4>4. \A t \in again : at[t] \in times
                BY <1>1, <1>2
            <4> QED
                BY <4>2, <4>3, <4>4
        <3>3. \A t \in T : t # g => at[t] # at[g]
            BY <1>2, <1>8 DEF AllAlone, Alone
        <3>4. ASSUME NEW t \in (again \cup skipped) \ {g}
              PROVE  t \in Newer(at, T, g)
            <4>1. t \in T /\ g \in T /\ at[t] >= at[g]
                <5>1. CASE t \in again
                    BY <1>1, <1>2, <3>2, <5>1
                <5>2. CASE t \in skipped
                    BY <1>2, <3>1, <3>2, <5>2
                <5> QED
                    BY <5>1, <5>2
            <4> QED
                BY <1>1, <3>3, <4>1 DEF Newer
        <3>5. IsFiniteSet(skipped) /\ again \cap skipped = {}
            BY <1>1, <3>1, FS_Subset
        <3>6. /\ IsFiniteSet(again \cup skipped)
              /\ Cardinality(again \cup skipped) = Cardinality(again) + n
            <4>1. Cardinality(skipped) \in Nat
                BY <3>1
            <4> HIDE DEF again
            <4> QED
                BY <1>5, <3>1, <3>5, <4>1, CountBoth
        <3>7. /\ IsFiniteSet((again \cup skipped) \ {g})
              /\ Cardinality((again \cup skipped) \ {g}) = Cardinality(again) + n - 1
            <4>1. g \in again \cup skipped
                BY <3>2
            <4> HIDE DEF again
            <4>2. Cardinality((again \cup skipped) \ {g}) = Cardinality(again \cup skipped) - 1
                BY <3>6, <4>1, CountLess
            <4>3. IsFiniteSet((again \cup skipped) \ {g})
                BY <3>6, <4>1, CountLess
            <4> QED
                BY <1>5, <3>6, <4>2, <4>3
        <3>8. Cardinality((again \cup skipped) \ {g}) <= Rank(at, T, g)
            BY <1>1, <3>4, RankIsNat, FS_Subset DEF Rank
        <3>9. Rank(at, T, g) + 1 + walk.repeats + walk.entered <= n + came
            BY <2>1
        <3> QED
            BY <1>5, <1>6, <2>1, <3>7, <3>8, <3>9
    <2> QED
        BY <2>2, <2>3
<1>9. ASSUME AllAlone(at, tab), NEW t \in read.seen
      PROVE  Rank(at, T, t) + 1 + read.repeats + read.entered <= (n + Limit) + came
    <2>1. /\ walk.entered \in Nat /\ walk.repeats \in Nat /\ Rank(at, T, t) \in Nat
        BY <1>6 DEF Reading
    <2>2. CASE t \in walk.seen
        <3>1. Rank(at, T, t) + 1 + walk.repeats + walk.entered <= n + came
            BY <1>9, <2>2 DEF Fits
        <3> QED
            BY <1>1, <1>3, <1>5, <2>1, <3>1
    <2>3. CASE t \in j.rows
        <3>1. Rank(at, T, t) < n + Limit
            BY <1>2, <2>3
        <3>2. walk.entered + walk.repeats + Cardinality(again) <= came
            BY <1>8, <1>9
        <3> QED
            BY <1>1, <1>3, <1>5, <2>1, <3>1, <3>2
    <2> QED
        BY <1>3, <1>9, <2>2, <2>3
<1>10. AllAlone(at, tab) => read.entered + read.repeats <= came
    <2>1. walk.entered \in Nat /\ walk.repeats \in Nat
        BY DEF Reading
    <2> QED
        BY <1>3, <1>5, <1>8, <2>1
<1>11. read.start \subseteq tab /\ read.seen \subseteq tab
    BY <1>2, <1>3, <1>4
<1>12. Fits(at, read, tab, T, n + Limit, came, gone)
    BY <1>7, <1>9, <1>10, <1>11 DEF Fits
<1> QED
    BY <1>3, <1>12

\* Nothing is left of a list that has not more rows than have been read.
LEMMA EndFits ==
    ASSUME NEW at, NEW tab, IsFiniteSet(tab), \A p \in tab : at[p] \in Nat,
           NEW T \in SUBSET tab, NEW n \in Nat, Cardinality(T) <= n,
           NEW walk, NEW came, NEW gone, Fits(at, walk, tab, T, n, came, gone)
    PROVE  Complete(at, walk, tab, gone)
<1>1. IsFiniteSet(T) /\ Cardinality(T) \in Nat
    BY FS_Subset, FS_CardinalityType
<1>2. ASSUME NEW t \in T
      PROVE  Rank(at, T, t) < n
    <2>1. Newer(at, T, t) \subseteq T /\ T \in SUBSET T /\ at[t] \in Nat
        BY DEF Newer
    <2>2. Rank(at, T, t) < Cardinality(T)
        BY <1>1, <2>1, RankBelow
    <2> QED
        BY <1>1, <2>2, RankIsNat
<1>3. Missed(at, walk, tab, T, n) = Unseen(at, walk, tab)
    BY <1>2 DEF Missed
<1> QED
    BY <1>3 DEF Fits, Complete


\* What a reading is measured against: the times, the tables, and every list
\* with its counters.
Shown ==
    [at |-> createdAt, tables |-> tables, rows |-> [list \in Lists |-> Rows(list)],
     entered |-> entered, left |-> left]

FitsIn(db, walk, list, n) ==
    Fits(db.at, walk, db.tables[list[1]], db.rows[list], n, db.entered[list], db.left[list])

CompleteIn(db, walk, list) == Complete(db.at, walk, db.tables[list[1]], db.left[list])

\* The pages that a request has brought: this one only once it has been received.
PagesRead(r) ==
    IF r.outcome[ListService(r.wish)] = 200 THEN r.walk.page ELSE r.walk.page - 1

HasPage(j) == j.pc = "counting" \/ (j.pc = "replied" /\ j.code = 200)

\* The reading of a list fits it, and so does what a page that has been selected
\* would make of it.
Reads(r, calls, db) ==
    LET s == ListService(r.wish)
        list == ListOf(r.wish)
    IN  IsList(r.wish) =>
            /\ FitsIn(db, r.walk, list, PagesRead(r) * Limit)
            /\ r.walk.more = TRUE \/ CompleteIn(db, r.walk, list)
            /\ r.answer = 200 \/ r.answer >= 500 => r.outcome[s] = r.answer
            /\ \A j \in calls :
                  /\ j.of = r.of /\ j.page = r.walk.page /\ HasPage(j)
                  /\ r.pc = "waiting" /\ r.outcome[s] = 0
                  => /\ FitsIn(db, Read(r.walk, j), list, r.walk.page * Limit)
                     /\ j.pc = "replied" /\ j.more # TRUE =>
                            CompleteIn(db, Read(r.walk, j), list)

ReadInv == \A u \in Users : Reads(request[u], jobs, Shown)

LEMMA ReadInit == Init => ReadInv
<1> SUFFICES ASSUME Init, NEW u \in Users
             PROVE  Reads(request[u], jobs, Shown)
    BY DEF ReadInv
<1>1. request[u].wish.route = "activity"
    BY DEF Init, NoRequest, Arriving
<1> QED
    BY <1>1 DEF Reads, IsList

LEMMA ShownIs ==
    /\ Shown.at = createdAt /\ Shown.tables = tables
    /\ Shown.entered = entered /\ Shown.left = left
    /\ \A list \in Lists : Shown.rows[list] = Rows(list)
BY DEF Shown

LEMMA ShownThen ==
    /\ Shown'.at = createdAt' /\ Shown'.tables = tables'
    /\ Shown'.entered = entered' /\ Shown'.left = left'
    /\ \A list \in Lists : Shown'.rows[list] = Rows(list)'
BY DEF Shown

LEMMA ShownSame ==
    ASSUME UNCHANGED <<tables, progress, entered, left, scenario>>
    PROVE  Shown' = Shown
BY DEF Shown, Rows, createdAt

\* Tables and lists, and the times of their rows.
LEMMA ListFacts ==
    ASSUME TypeInv, NEW list \in Lists
    PROVE  /\ list[1] \in Tables
           /\ tables[list[1]] \in SUBSET Nat /\ IsFiniteSet(tables[list[1]])
           /\ Rows(list) \in SUBSET tables[list[1]] /\ IsFiniteSet(Rows(list))
           /\ Cardinality(Rows(list)) \in Nat
           /\ tables[list[1]] \subseteq Serials
           /\ \A t \in tables[list[1]] : createdAt[t] \in Nat
           /\ entered[list] \in Nat /\ left[list] \in Nat
<1>1. StateInv /\ GivenInv /\ Given \subseteq Serials
    BY NumbersSuffice DEF TypeInv, GatewayInv
<1>2. list[1] \in Tables
    BY DEF Lists, Tables
<1>3. /\ tables[list[1]] \in SUBSET Nat /\ IsFiniteSet(tables[list[1]])
      /\ tables[list[1]] \subseteq Serials
    BY <1>1, <1>2 DEF StateInv, GivenInv
<1>4. Rows(list) \in SUBSET tables[list[1]]
    BY DEF Rows
<1>5. IsFiniteSet(Rows(list)) /\ Cardinality(Rows(list)) \in Nat
    BY <1>3, <1>4, FS_Subset, FS_CardinalityType
<1>6. createdAt \in [Serials -> Nat]
    BY <1>1 DEF StateInv, Scenario, createdAt
<1>7. entered[list] \in Nat /\ left[list] \in Nat
    BY <1>1 DEF StateInv
<1> QED
    BY <1>2, <1>3, <1>4, <1>5, <1>6, <1>7

LEMMA ListNames ==
    ASSUME NEW wish, IsList(wish), wish \in Wish
    PROVE  ListOf(wish) \in Lists /\ ListOf(wish)[1] = ListService(wish)
BY DEF ListOf, ListService, IsList, Lists, Wish

\* A service's step changes a list by one row.
LEMMA ListChanges ==
    ASSUME TypeInv, TypeInv', NEW list \in Lists,
           NEW j \in jobs, NEW r \in Job, GoesOn(j, r), Alters(j, r)
    PROVE  /\ createdAt' = createdAt
           /\ \E x : Steps(createdAt, tables[list[1]], Rows(list),
                           tables'[list[1]], Rows(list)', x)
           /\ entered'[list] = entered[list] + Cardinality(Rows(list)' \ Rows(list))
           /\ left'[list] = left[list] + Cardinality(Rows(list) \ Rows(list)')
<1>1. createdAt' = createdAt
    BY DEF GoesOn, createdAt
<1>2. StateInv /\ progress \in [Serials -> Status] /\ j.service \in Tables
    <2>1. <<j.service, j.op>> \in Calls(j.wish.route) /\ j.wish.route \in Route
        BY DEF TypeInv, GatewayInv, CallInv, StateInv, Job, Wish
    <2>2. PICK c \in Calls(j.wish.route) : c = <<j.service, j.op>>
        BY <2>1
    <2>3. c[1] = j.service /\ c[2] = j.op
        BY <2>2
    <2>4. j.op # "feed"
        BY DEF Alters, ChangingOps
    <2>5. j.service \in Tables
        BY <2>1, <2>3, <2>4, CallTypes
    <2> QED
        BY <2>5 DEF TypeInv, GatewayInv, ProgressInv
<1>3. /\ list[1] \in Tables /\ tables[list[1]] \subseteq Serials
      /\ Rows(list) \subseteq tables[list[1]]
    BY ListFacts
<1>4. /\ IsFiniteSet(tables'[list[1]]) /\ Rows(list)' \subseteq tables'[list[1]]
      /\ \A t \in tables'[list[1]] : createdAt[t] \in Nat
    <2>1. StateInv' /\ GivenInv' /\ Given' \subseteq Serials
        <3>1. GatewayInv' /\ GivenInv' /\ CountInv'
            BY DEF TypeInv
        <3>2. (GatewayInv /\ GivenInv /\ CountInv => Given \subseteq Serials)'
            BY NumbersSuffice, PTL
        <3> QED
            BY <3>1, <3>2 DEF GatewayInv, Serials
    <2>2. IsFiniteSet(tables'[list[1]]) /\ tables'[list[1]] \subseteq Serials
        BY <1>3, <2>1 DEF StateInv, GivenInv
    <2>3. createdAt \in [Serials -> Nat]
        BY <1>2 DEF StateInv, Scenario, createdAt
    <2> QED
        BY <2>2, <2>3 DEF Rows
<1>5. CASE /\ j.pc = "running"
           /\ tables' = [tables EXCEPT ![j.service] = @ \cup {j.at}]
           /\ progress' = progress
    <2>1. /\ tables[list[1]] \subseteq tables'[list[1]]
          /\ tables'[list[1]] \subseteq tables[list[1]] \cup {j.at}
        BY <1>2, <1>3, <1>5 DEF StateInv
    <2>2. Rows(list) \ {j.at} = Rows(list)' \ {j.at}
        BY <1>5, <2>1 DEF Rows
    <2>3. Steps(createdAt, tables[list[1]], Rows(list), tables'[list[1]], Rows(list)', j.at)
        BY <1>3, <1>4, <2>1, <2>2 DEF Steps
    <2> QED
        BY <1>1, <2>3 DEF Alters, Tally
<1>6. CASE /\ tables' = tables
           /\ \/ progress' = progress
              \/ \E s \in Status : progress' = [progress EXCEPT ![j.wish.id] = s]
    <2>1. \A t \in Serials : t # j.wish.id => progress'[t] = progress[t]
        BY <1>2, <1>6
    <2>2. Rows(list) \ {j.wish.id} = Rows(list)' \ {j.wish.id}
        BY <1>3, <1>6, <2>1 DEF Rows
    <2>3. Steps(createdAt, tables[list[1]], Rows(list), tables'[list[1]], Rows(list)', j.wish.id)
        BY <1>3, <1>4, <1>6, <2>2 DEF Steps
    <2> QED
        BY <1>1, <2>3 DEF Alters, Tally
<1> QED
    BY <1>5, <1>6 DEF Alters

LEMMA ListSteps ==
    ASSUME TypeInv, TypeInv', NEW list \in Lists,
           NEW j \in jobs, NEW r \in Job, GoesOn(j, r), Leaves(j, r) \/ Alters(j, r),
           NEW walk \in Reading, NEW n \in Nat, FitsIn(Shown, walk, list, n)
    PROVE  /\ FitsIn(Shown', walk, list, n)
           /\ CompleteIn(Shown, walk, list) => CompleteIn(Shown', walk, list)
<1>1. CASE Leaves(j, r)
    BY <1>1, ShownSame DEF Leaves, GoesOn
<1>2. CASE Alters(j, r)
    <2>1. PICK tab, newTab, T, newT, came, gone :
             /\ tab = tables[list[1]] /\ newTab = tables'[list[1]]
             /\ T = Rows(list) /\ newT = Rows(list)'
             /\ came = entered[list] /\ gone = left[list]
        OBVIOUS
    <2>2. PICK x : Steps(createdAt, tab, T, newTab, newT, x)
        BY <1>2, <2>1, ListChanges
    <2>3. /\ createdAt' = createdAt
          /\ entered'[list] = came + Cardinality(newT \ T)
          /\ left'[list] = gone + Cardinality(T \ newT)
        BY <1>2, <2>1, ListChanges
    <2>4. came \in Nat /\ gone \in Nat /\ IsFiniteSet(T)
        BY <2>1, ListFacts
    <2>5. Fits(createdAt, walk, tab, T, n, came, gone)
        BY <2>1, ShownIs DEF FitsIn
    <2>6. Fits(createdAt, walk, newTab, newT, n, came + Cardinality(newT \ T),
                 gone + Cardinality(T \ newT))
        BY <2>2, <2>4, <2>5, FitsOn
    <2>7. FitsIn(Shown', walk, list, n)
        BY <2>1, <2>3, <2>6, ShownThen DEF FitsIn
    <2>8. ASSUME CompleteIn(Shown, walk, list)
          PROVE  CompleteIn(Shown', walk, list)
        <3>1. Complete(createdAt, walk, tab, gone)
            BY <2>1, <2>8, ShownIs DEF CompleteIn
        <3>2. Cardinality(T \ newT) \in Nat
            BY <2>4, FS_Subset, FS_CardinalityType
        <3>3. PICK later \in Nat : later = gone + Cardinality(T \ newT) /\ gone <= later
            BY <2>4, <3>2
        <3>4. IsFiniteSet(newTab) /\ tab \subseteq newTab /\ walk.start \subseteq tab
            BY <2>2, <2>5 DEF Steps, Fits
        <3>5. Complete(createdAt, walk, newTab, later)
            BY <2>4, <3>1, <3>3, <3>4, CompleteOn
        <3> QED
            BY <2>1, <2>3, <3>3, <3>5, ShownThen DEF CompleteIn
    <2> QED
        BY <2>7, <2>8
<1> QED
    BY <1>1, <1>2

\* What more there is does not matter to the fit, nor does the page.
LEMMA SameFit ==
    ASSUME NEW db, NEW walk, NEW list, NEW n, FitsIn(db, walk, list, n), NEW next,
           next.start = walk.start, next.seen = walk.seen, next.repeats = walk.repeats,
           next.entered = walk.entered, next.left = walk.left
    PROVE  /\ FitsIn(db, next, list, n)
           /\ CompleteIn(db, walk, list) => CompleteIn(db, next, list)
BY DEF FitsIn, CompleteIn, Fits, Complete, Missed, Unseen

\* A question that is asked, asked again, or goes on to the next page.
LEMMA AskReads ==
    ASSUME TypeInv, NEW u \in Users, Reads(request[u], jobs, Shown),
           NEW r \in Request, Asks(u, r)
    PROVE  Reads(r, jobs, Shown)
<1> SUFFICES ASSUME IsList(r.wish)
             PROVE  Reads(r, jobs, Shown)
    BY DEF Reads
<1>1. PICK old \in Request : old = request[u]
    BY RequestOf DEF TypeInv, GatewayInv
<1>2. r.pc = "arrived" /\ r.answer = 0 /\ \A s \in Services : r.outcome[s] = 0
    BY DEF Asks, Unanswered
<1>3. old.walk \in Reading /\ old.walk.page \in Nat \ {0} /\ r.walk \in Reading /\ r.wish \in Wish
    BY DEF Request, Reading
<1>4. PagesRead(r) = r.walk.page - 1
    BY <1>2 DEF PagesRead, ListService, Services
<1>5. PICK list \in Lists : list = ListOf(r.wish)
    BY <1>3, ListNames
<1>6. SUFFICES /\ FitsIn(Shown, r.walk, list, PagesRead(r) * Limit)
               /\ r.walk.more = TRUE \/ CompleteIn(Shown, r.walk, list)
    BY <1>2, <1>5 DEF Reads
<1>7. CASE NewQuestion(u, r)
    <2>1. PICK tab, T, came, gone :
             /\ tab = tables[list[1]] /\ T = Rows(list)
             /\ came = entered[list] /\ gone = left[list]
        OBVIOUS
    <2>2. T \in SUBSET tab /\ IsFiniteSet(tab) /\ came \in Nat /\ gone \in Nat
        BY <2>1, ListFacts
    <2>3. /\ r.walk.start = T /\ r.walk.seen = {} /\ r.walk.repeats = 0
          /\ r.walk.entered = came /\ r.walk.left = gone
          /\ r.walk.more = TRUE /\ r.walk.page = 1
        BY <1>5, <1>7, <2>1 DEF NewQuestion, StartWalk, NoWalk
    <2>4. Fits(createdAt, r.walk, tab, T, 0, came, gone)
        BY <2>2, <2>3, StartFits
    <2>5. PagesRead(r) * Limit = 0
        BY <1>4, <2>3, LimitAssumption
    <2>6. FitsIn(Shown, r.walk, list, PagesRead(r) * Limit)
        BY <2>1, <2>4, <2>5, ShownIs DEF FitsIn
    <2> QED
        BY <2>3, <2>6
<1>8. CASE SecondAttempt(u, r)
    <2>1. r.wish = old.wish /\ r.walk = old.walk /\ old.answer >= 500
        BY <1>1, <1>8 DEF SecondAttempt
    <2>2. /\ FitsIn(Shown, old.walk, list, PagesRead(old) * Limit)
          /\ old.outcome[ListService(old.wish)] = old.answer
          /\ old.walk.more = TRUE \/ CompleteIn(Shown, old.walk, list)
        BY <1>1, <1>5, <2>1 DEF Reads
    <2>3. PagesRead(old) = PagesRead(r)
        BY <1>4, <2>1, <2>2 DEF PagesRead
    <2> QED
        BY <2>1, <2>2, <2>3
<1>9. CASE Continuation(u, r)
    <2>1. /\ r.wish = old.wish /\ old.answer = 200 /\ old.walk.more = TRUE
          /\ r.walk.start = old.walk.start /\ r.walk.seen = old.walk.seen
          /\ r.walk.repeats = old.walk.repeats /\ r.walk.more = old.walk.more
          /\ r.walk.entered = old.walk.entered /\ r.walk.left = old.walk.left
          /\ r.walk.page = old.walk.page + 1
        BY <1>1, <1>3, <1>9 DEF Continuation, SameQuestion, Reading
    <2>2. /\ FitsIn(Shown, old.walk, list, PagesRead(old) * Limit)
          /\ old.outcome[ListService(old.wish)] = 200
        BY <1>1, <1>5, <2>1 DEF Reads
    <2>3. PagesRead(r) = PagesRead(old)
        BY <1>3, <1>4, <2>1, <2>2 DEF PagesRead
    <2>4. FitsIn(Shown, r.walk, list, PagesRead(old) * Limit)
        BY <2>1, <2>2, SameFit
    <2> QED
        BY <2>1, <2>3, <2>4
<1> QED
    BY <1>7, <1>8, <1>9 DEF Asks

\* A page comes in, or the gateway gives it up.
LEMMA OutcomeReads ==
    ASSUME TypeInv, NEW u \in Users, Reads(request[u], jobs, Shown),
           NEW r \in Request,
           \/ \E j \in jobs : Receives(u, r, j)
           \/ \E s \in Services : GivesUp(u, r, s)
    PROVE  Reads(r, jobs', Shown)
<1>1. PICK old \in Request : old = request[u]
    BY RequestOf DEF TypeInv, GatewayInv
<1>2. /\ r.of = old.of /\ r.wish = old.wish /\ r.answer = 0 /\ r.pc = "waiting"
      /\ old.pc = "waiting" /\ old.walk \in Reading /\ old.wish \in Wish
    <2>1. Onward(u, r) /\ request[u].pc = "waiting" /\ r.pc = "waiting"
        BY DEF Receives, GivesUp, Awaits
    <2>2. FreshInv(u)
        BY DEF TypeInv, AllFresh
    <2>3. old.answer = 0
        BY <1>1, <2>1, <2>2 DEF FreshInv
    <2> QED
        BY <1>1, <2>1, <2>3 DEF Onward, SameQuestion, Request
<1> SUFFICES ASSUME IsList(old.wish)
             PROVE  Reads(r, jobs', Shown)
    BY <1>2 DEF Reads
<1>3. PICK s \in Services : s = ListService(old.wish)
    BY DEF ListService, Services
<1>4. PICK list \in Lists : list = ListOf(old.wish)
    BY <1>2, ListNames
<1>5. \A t \in Services : Awaits(u, t) => t = s /\ old.outcome[s] = 0
    <2>1. Calls(old.wish.route) = {<<s, "list">>}
        BY <1>3, ListRoutes
    <2> QED
        BY <1>1, <2>1 DEF Awaits
<1>6. SUFFICES /\ r.outcome[s] # 0
               /\ FitsIn(Shown, r.walk, list, PagesRead(r) * Limit)
               /\ r.walk.more = TRUE \/ CompleteIn(Shown, r.walk, list)
    <2>1. s = ListService(r.wish) /\ list = ListOf(r.wish)
        BY <1>2, <1>3, <1>4
    <2>2. ~(r.answer = 200 \/ r.answer >= 500) /\ r.outcome[ListService(r.wish)] # 0
        BY <1>2, <1>6, <2>1
    <2>3. /\ FitsIn(Shown, r.walk, ListOf(r.wish), PagesRead(r) * Limit)
          /\ r.walk.more = TRUE \/ CompleteIn(Shown, r.walk, ListOf(r.wish))
        BY <1>6, <2>1
    <2> QED
        BY <2>2, <2>3 DEF Reads
<1>7. ASSUME r.outcome[s] \notin {0, 200}, old.outcome[s] = 0, r.walk = old.walk
      PROVE  /\ r.outcome[s] # 0
             /\ FitsIn(Shown, r.walk, list, PagesRead(r) * Limit)
             /\ r.walk.more = TRUE \/ CompleteIn(Shown, r.walk, list)
    <2>1. PagesRead(r) = PagesRead(old)
        BY <1>2, <1>3, <1>7 DEF PagesRead
    <2> QED
        BY <1>1, <1>4, <1>7, <2>1 DEF Reads
<1>8. ASSUME NEW j \in jobs, Receives(u, r, j)
      PROVE  /\ r.outcome[s] # 0
             /\ FitsIn(Shown, r.walk, list, PagesRead(r) * Limit)
             /\ r.walk.more = TRUE \/ CompleteIn(Shown, r.walk, list)
    <2>1. j \in Job /\ IsFiniteSet(j.rows)
        BY DEF TypeInv, GatewayInv, StateInv
    <2>2. /\ j.service = s /\ old.outcome[s] = 0 /\ j.of = old.of
          /\ j.page = old.walk.page /\ j.pc = "replied"
          /\ r.outcome = [old.outcome EXCEPT ![s] = j.code]
        BY <1>1, <1>5, <1>8, <2>1 DEF Receives, IsAnswerTo, Job
    <2>3. r.outcome[s] = j.code
        BY <2>2 DEF Request
    <2>4. CASE j.code # 200
        <3>1. r.walk = old.walk
            BY <1>1, <1>8, <2>4 DEF Receives
        <3>2. j.code # 0
            BY <2>2 DEF TypeInv, GatewayInv, CallInv
        <3> QED
            BY <1>7, <2>2, <2>3, <2>4, <3>1, <3>2
    <2>5. CASE j.code = 200
        <3>1. r.walk = Read(old.walk, j)
            BY <1>1, <1>8, <2>5 DEF Receives
        <3>2. /\ FitsIn(Shown, r.walk, list, old.walk.page * Limit)
              /\ j.more = TRUE \/ CompleteIn(Shown, r.walk, list)
            <4>1. Reads(old, jobs, Shown) /\ HasPage(j)
                BY <1>1, <2>2, <2>5 DEF HasPage
            <4>2. /\ FitsIn(Shown, Read(old.walk, j), list, old.walk.page * Limit)
                  /\ j.more = TRUE \/ CompleteIn(Shown, Read(old.walk, j), list)
                BY <1>2, <1>3, <1>4, <2>2, <4>1 DEF Reads
            <4> QED
                BY <3>1, <4>2
        <3>3. r.walk.page = old.walk.page /\ r.walk.more = j.more
            <4>1. old.walk \in Reading
                BY <1>2
            <4>2. /\ Read(old.walk, j).page = old.walk.page
                  /\ Read(old.walk, j).more = j.more
                BY <2>1, <4>1, ReadTyped
            <4> QED
                BY <3>1, <4>2
        <3>4. PagesRead(r) = old.walk.page
            BY <1>2, <1>3, <2>3, <2>5, <3>3 DEF PagesRead
        <3> QED
            BY <2>3, <2>5, <3>2, <3>3, <3>4
    <2> QED
        BY <2>4, <2>5
<1>9. ASSUME NEW t \in Services, GivesUp(u, r, t)
      PROVE  /\ r.outcome[s] # 0
             /\ FitsIn(Shown, r.walk, list, PagesRead(r) * Limit)
             /\ r.walk.more = TRUE \/ CompleteIn(Shown, r.walk, list)
    <2>1. t = s /\ old.outcome[s] = 0 /\ r.walk = old.walk
        BY <1>1, <1>5, <1>9 DEF GivesUp
    <2>2. PICK code \in {500, 502, 504} : r.outcome[s] = code
        <3>1. PICK code \in {500, 502, 504} : r.outcome = [old.outcome EXCEPT ![s] = code]
            BY <1>1, <1>9, <2>1 DEF GivesUp
        <3>2. old.outcome \in [Services -> Codes]
            BY DEF Request
        <3> QED
            BY <3>1, <3>2
    <2>3. r.outcome[s] \notin {0, 200}
        BY <2>2
    <2> QED
        BY <1>7, <2>1, <2>3
<1> QED
    BY <1>8, <1>9

LEMMA TurnReads ==
    ASSUME TypeInv, ReadInv, NEW u \in Users, NEW r \in Request, Turns(u, r)
    PROVE  ReadInv'
<1>1. /\ StateInv /\ RequestInv(u) /\ FreshInv(u)
      /\ Reads(request[u], jobs, Shown)
    BY DEF TypeInv, GatewayInv, AllFresh, ReadInv
<1>2. Becomes(u, r) /\ (Forwards(u, r) \/ jobs' \subseteq jobs)
    BY TurnJobs
<1>3. /\ request'[u] = r /\ \A v \in Users \ {u} : request'[v] = request[v]
    BY <1>1, <1>2, Others
<1>4. Shown' = Shown
    BY <1>2, ShownSame DEF Becomes, database
<1>5. \A j \in jobs' : HasPage(j) => j \in jobs
    <2>1. CASE Forwards(u, r)
        <3>1. \A c \in Calls(request[u].wish.route) : Call(u, c).pc = "queued"
            BY <1>1, <2>1, NewCalls DEF Forwards
        <3> QED
            BY <2>1, <3>1 DEF Forwards, HasPage
    <2> QED
        BY <1>2, <2>1
<1>6. ASSUME NEW v \in Users \ {u}
      PROVE  Reads(request'[v], jobs', Shown)
    <2>1. Reads(request[v], jobs, Shown)
        BY DEF ReadInv
    <2> QED
        BY <1>3, <1>5, <2>1 DEF Reads
<1>7. Reads(r, jobs', Shown)
    <2>1. CASE Asks(u, r)
        <3>1. jobs' = jobs
            BY <2>1 DEF Asks
        <3> QED
            BY <1>1, <2>1, <3>1, AskReads
    <2>2. CASE (\E j \in jobs : Receives(u, r, j)) \/ (\E s \in Services : GivesUp(u, r, s))
        BY <1>1, <2>2, OutcomeReads
    <2>3. CASE Passes(u, r) \/ Ends(u, r) \/ Forwards(u, r)
        <3>1. PICK old \in Request : old = request[u]
            BY <1>1, RequestOf
        <3>2. r.of = old.of /\ r.wish = old.wish /\ r.walk = old.walk /\ r.outcome = old.outcome
            BY <2>3, <3>1 DEF Passes, Ends, Forwards, Onward, SameQuestion
        <3>3. Reads(old, jobs, Shown)
            BY <1>1, <3>1
        <3>4. CASE ~IsList(old.wish)
            BY <3>2, <3>4 DEF Reads
        <3>5. CASE IsList(old.wish)
            <4>1. PICK s, list : s = ListService(old.wish) /\ list = ListOf(old.wish)
                OBVIOUS
            <4>2. /\ FitsIn(Shown, r.walk, list, PagesRead(r) * Limit)
                  /\ r.walk.more = TRUE \/ CompleteIn(Shown, r.walk, list)
                BY <3>2, <3>3, <3>5, <4>1 DEF Reads, PagesRead
            <4>3. r.answer = 200 \/ r.answer >= 500 => r.outcome[s] = r.answer
                <5>1. CASE r.answer = old.answer
                    BY <3>2, <3>3, <3>5, <4>1, <5>1 DEF Reads
                <5>2. CASE Ends(u, r) /\ TurnedAway(u, r)
                    BY <5>2 DEF TurnedAway
                <5>3. CASE Ends(u, r) /\ PassedThrough(u, r)
                    <6>1. Required(old.wish.route) = {s}
                        BY <3>5, <4>1, ListRoutes
                    <6> QED
                        BY <3>1, <3>2, <5>3, <6>1 DEF PassedThrough
                <5> QED
                    BY <2>3, <3>1, <5>1, <5>2, <5>3 DEF Passes, Ends, Forwards, Onward
            <4>4. ASSUME NEW j \in jobs', j.of = r.of, j.page = r.walk.page,
                         HasPage(j), r.pc = "waiting"
                  PROVE  FALSE
                <5>1. Forwards(u, r)
                    BY <2>3, <4>4 DEF Passes, Ends
                <5>2. j \in jobs /\ Unsent(old)
                    BY <1>5, <3>1, <4>4, <5>1 DEF Forwards, Unsent
                <5>3. j.page < old.walk.page
                    BY <1>1, <3>1, <3>2, <4>4, <5>2 DEF FreshInv
                <5>4. old.walk.page \in Nat
                    BY <1>1, <3>1, Numbers
                <5> QED
                    BY <3>2, <4>4, <5>3, <5>4
            <4> QED
                BY <3>2, <3>5, <4>1, <4>2, <4>3, <4>4 DEF Reads
        <3> QED
            BY <3>4, <3>5
    <2> QED
        BY <2>1, <2>2, <2>3 DEF Turns
<1> QED
    BY <1>3, <1>4, <1>6, <1>7 DEF ReadInv

\* What findAll() selects for a page fits the reading it is for.
LEMMA SelectedFits ==
    ASSUME TypeInv, NEW list \in Lists, NEW walk \in Reading, NEW page \in Nat \ {0},
           FitsIn(Shown, walk, list, (page - 1) * Limit),
           NEW j \in Job, j.rows \in Pages(list, page)
    PROVE  FitsIn(Shown, Read(walk, j), list, page * Limit)
<1>1. PICK at, tab, T, came, gone :
         /\ at = createdAt /\ tab = tables[list[1]] /\ T = Rows(list)
         /\ came = entered[list] /\ gone = left[list]
    OBVIOUS
<1>2. /\ tab \in SUBSET Nat /\ IsFiniteSet(tab) /\ T \in SUBSET tab
      /\ \A t \in tab : at[t] \in Nat
      /\ came \in Nat /\ gone \in Nat
    BY <1>1, ListFacts
<1>3. PICK n \in Nat : n = (page - 1) * Limit /\ n + Limit = page * Limit
    BY LimitAssumption
<1>4. Fits(at, walk, tab, T, n, came, gone)
    BY <1>1, <1>3, ShownIs DEF FitsIn
<1>5. j.rows \in Slices(T, n, Limit)
    BY <1>1, <1>3 DEF Pages
<1>6. Fits(at, Read(walk, j), tab, T, n + Limit, came, gone)
    BY <1>1, <1>2, <1>4, <1>5, PageFits
<1> QED
    BY <1>1, <1>3, <1>6, ShownIs DEF FitsIn

\* When the count promises no more, there is no more.
LEMMA CountedComplete ==
    ASSUME TypeInv, NEW list \in Lists, NEW walk, NEW n \in Nat,
           FitsIn(Shown, walk, list, n), ~(n < Cardinality(Rows(list)))
    PROVE  CompleteIn(Shown, walk, list)
<1>1. PICK at, tab, T, came, gone :
         /\ at = createdAt /\ tab = tables[list[1]] /\ T = Rows(list)
         /\ came = entered[list] /\ gone = left[list]
    OBVIOUS
<1>2. /\ IsFiniteSet(tab) /\ T \in SUBSET tab /\ \A t \in tab : at[t] \in Nat
      /\ Cardinality(T) \in Nat
    BY <1>1, ListFacts
<1>3. Cardinality(T) <= n
    BY <1>1, <1>2
<1>4. Fits(at, walk, tab, T, n, came, gone)
    BY <1>1, ShownIs DEF FitsIn
<1>5. Complete(at, walk, tab, gone)
    BY <1>2, <1>3, <1>4, EndFits
<1> QED
    BY <1>1, <1>5, ShownIs DEF CompleteIn

LEMMA ServiceReads ==
    ASSUME TypeInv, TypeInv', ReadInv,
           NEW j \in jobs, NEW r \in Job, GoesOn(j, r), Leaves(j, r) \/ Alters(j, r)
    PROVE  ReadInv'
<1> SUFFICES ASSUME NEW u \in Users
             PROVE  Reads(request'[u], jobs', Shown')
    BY DEF ReadInv
<1>1. StateInv /\ StateInv' /\ FreshInv(u) /\ CallInv(j) /\ Reads(request[u], jobs, Shown)
    BY DEF TypeInv, GatewayInv, AllFresh, ReadInv
<1>2. PICK x \in Request : x = request[u] /\ x = request'[u]
    BY <1>1, RequestOf DEF GoesOn
<1> SUFFICES ASSUME IsList(x.wish)
             PROVE  Reads(x, jobs', Shown')
    BY <1>2 DEF Reads
<1>3. PICK s \in Tables : s = ListService(x.wish) /\ Calls(x.wish.route) = {<<s, "list">>}
    BY ListRoutes
<1>4. x.walk \in Reading /\ x.walk.page \in Nat \ {0} /\ Limit \in Nat /\ x.wish \in Wish
    BY LimitAssumption DEF Request, Reading
<1>5. PICK list \in Lists : list = ListOf(x.wish)
    BY <1>4, ListNames
<1>6. /\ FitsIn(Shown, x.walk, list, PagesRead(x) * Limit)
      /\ x.walk.more = TRUE \/ CompleteIn(Shown, x.walk, list)
      /\ x.answer = 200 \/ x.answer >= 500 => x.outcome[s] = x.answer
      /\ \A k \in jobs :
            /\ k.of = x.of /\ k.page = x.walk.page /\ HasPage(k)
            /\ x.pc = "waiting" /\ x.outcome[s] = 0
            => /\ FitsIn(Shown, Read(x.walk, k), list, x.walk.page * Limit)
               /\ k.pc = "replied" /\ k.more # TRUE =>
                      CompleteIn(Shown, Read(x.walk, k), list)
    BY <1>1, <1>2, <1>3, <1>5 DEF Reads
<1>7. /\ FitsIn(Shown', x.walk, list, PagesRead(x) * Limit)
      /\ x.walk.more = TRUE \/ CompleteIn(Shown', x.walk, list)
    <2>1. PagesRead(x) * Limit \in Nat
        BY <1>4 DEF PagesRead
    <2> QED
        BY <1>4, <1>6, <2>1, ListSteps
<1>8. ASSUME NEW k \in jobs', k.of = x.of, k.page = x.walk.page, HasPage(k),
             x.pc = "waiting", x.outcome[s] = 0
      PROVE  /\ FitsIn(Shown', Read(x.walk, k), list, x.walk.page * Limit)
             /\ k.pc = "replied" /\ k.more # TRUE => CompleteIn(Shown', Read(x.walk, k), list)
    <2>1. k \in Job /\ IsFiniteSet(k.rows)
        BY <1>1 DEF StateInv
    <2>2. PICK n \in Nat : n = x.walk.page * Limit
        BY <1>4
    <2>3. /\ FitsIn(Shown, Read(x.walk, k), list, n)
          /\ k.pc = "replied" /\ k.more # TRUE => CompleteIn(Shown, Read(x.walk, k), list)
        <3>1. CASE k \in jobs
            BY <1>6, <1>8, <2>2, <3>1
        <3>2. CASE k \notin jobs
            <4>1. k = r
                BY <3>2 DEF GoesOn
            <4>2. /\ j.of = x.of /\ j.page = x.walk.page /\ r.service = j.service
                  /\ r.op = j.op
                BY <1>8, <4>1 DEF GoesOn, SameCall
            <4>3. j.wish = x.wish
                BY <1>1, <1>2, <4>2 DEF FreshInv
            <4>4. j.service = s /\ j.op = "list"
                <5>1. <<j.service, j.op>> = <<s, "list">>
                    BY <1>1, <1>3, <4>3 DEF CallInv
                <5> QED
                    BY <5>1
            <4>5. Leaves(j, r)
                BY <4>4 DEF Alters, ChangingOps
            <4>6. CASE r.pc = "counting"
                <5>1. r.rows \in Pages(list, x.walk.page)
                    BY <1>5, <4>2, <4>3, <4>6 DEF GoesOn
                <5>2. FitsIn(Shown, x.walk, list, (x.walk.page - 1) * Limit)
                    BY <1>3, <1>6, <1>8 DEF PagesRead
                <5>3. FitsIn(Shown, Read(x.walk, k), list, n)
                    BY <1>4, <2>1, <2>2, <4>1, <5>1, <5>2, SelectedFits
                <5> QED
                    BY <4>1, <4>6, <5>3
            <4>7. CASE r.pc # "counting"
                <5>1. r.pc = "replied" /\ r.code = 200 /\ r.rows = j.rows
                    BY <1>8, <4>1, <4>7 DEF HasPage, GoesOn
                <5>2. /\ j.pc = "counting"
                      /\ r.more <=> x.walk.page * Limit < Cardinality(Rows(list))
                    BY <1>5, <4>2, <4>3, <4>4, <4>5, <5>1 DEF Leaves
                <5>3. j \in Job /\ IsFiniteSet(j.rows)
                    BY <1>1 DEF StateInv
                <5>4. FitsIn(Shown, Read(x.walk, j), list, n)
                    BY <1>6, <1>8, <2>2, <4>2, <5>2 DEF HasPage
                <5>5. PICK one, next : one = Read(x.walk, j) /\ next = Read(x.walk, r)
                    OBVIOUS
                <5>6. /\ next.start = one.start /\ next.seen = one.seen
                      /\ next.repeats = one.repeats
                      /\ next.entered = one.entered /\ next.left = one.left
                    <6>1. /\ one.start = x.walk.start /\ one.seen = x.walk.seen \cup j.rows
                          /\ one.repeats = x.walk.repeats + Cardinality(x.walk.seen \cap j.rows)
                          /\ one.entered = x.walk.entered /\ one.left = x.walk.left
                        BY <1>4, <5>3, <5>5, ReadTyped
                    <6>2. /\ next.start = x.walk.start /\ next.seen = x.walk.seen \cup r.rows
                          /\ next.repeats = x.walk.repeats + Cardinality(x.walk.seen \cap r.rows)
                          /\ next.entered = x.walk.entered /\ next.left = x.walk.left
                        BY <1>4, <2>1, <4>1, <5>5, ReadTyped
                    <6> QED
                        BY <5>1, <6>1, <6>2
                <5>7. FitsIn(Shown, next, list, n)
                    BY <5>4, <5>5, <5>6, SameFit
                <5>8. r.more # TRUE => CompleteIn(Shown, next, list)
                    BY <2>2, <5>2, <5>7, CountedComplete DEF Job
                <5> QED
                    BY <4>1, <5>5, <5>7, <5>8
            <4> QED
                BY <4>6, <4>7
        <3> QED
            BY <3>1, <3>2
    <2>4. Read(x.walk, k) \in Reading
        BY <1>4, <2>1, ReadTyped
    <2> QED
        BY <2>2, <2>3, <2>4, ListSteps
<1> QED
    BY <1>3, <1>5, <1>6, <1>7, <1>8 DEF Reads

LEMMA ReadNext == TypeInv /\ TypeInv' /\ ReadInv /\ [Next]_vars => ReadInv'
<1> SUFFICES ASSUME TypeInv, TypeInv', ReadInv, [Next]_vars
             PROVE  ReadInv'
    OBVIOUS
<1>1. CASE token' \in [Users -> BOOLEAN] /\ UNCHANGED <<request, jobs, database, scenario>>
    <2>1. Shown' = Shown /\ request' = request /\ jobs' = jobs
        BY <1>1, ShownSame DEF database
    <2> QED
        BY <2>1 DEF ReadInv
<1>2. GatewayInv
    BY DEF TypeInv
<1> QED
    BY <1>1, <1>2, TurnReads, ServiceReads, Moves

LEMMA ReadInvariant == Spec => []ReadInv
BY TypeInvInit, TypeInvNext, ReadInit, ReadNext, PTL DEF Spec

\* Reading a list page by page to its end misses no more rows of those there were
\* at first than have left it meanwhile, but for rows that share a created_at;
\* although each page is selected anew from a list that rows enter and leave, at
\* any place, and although pages may be lost and asked for again.
THEOREM PagesMissWhatLeft == Spec => []MissesHaveACause
<1>1. ReadInv => MissesHaveACause
    <2> SUFFICES ASSUME ReadInv, NEW u \in Users, IsList(request[u].wish),
                        ~request[u].walk.more
                 PROVE  LET r == request[u]
                            list == ListOf(r.wish)
                        IN  r.walk.left + Cardinality({t \in r.walk.start \ r.walk.seen :
                                                          Untied(t, list)}) <= left[list]
        BY DEF MissesHaveACause
    <2>1. PICK r, list : r = request[u] /\ list = ListOf(r.wish)
        OBVIOUS
    <2>2. CompleteIn(Shown, r.walk, list)
        BY <2>1 DEF ReadInv, Reads
    <2>3. Complete(createdAt, r.walk, tables[list[1]], left[list])
        BY <2>2, ShownIs DEF CompleteIn
    <2>4. \A t : Alone(createdAt, tables[list[1]], t) <=> Untied(t, list)
        BY DEF Alone, Untied
    <2>5. Unseen(createdAt, r.walk, tables[list[1]])
              = {t \in r.walk.start \ r.walk.seen : Untied(t, list)}
        BY <2>4 DEF Unseen
    <2> QED
        BY <2>1, <2>3, <2>5 DEF Complete
<1> QED
    BY <1>1, ReadInvariant, PTL

\* While no two rows share a created_at, a reading shows rows again no more often
\* than rows have entered the list since it began.
THEOREM PagesRepeatWhatEntered == Spec => []RepeatsHaveACause
<1>1. ReadInv => RepeatsHaveACause
    <2> SUFFICES ASSUME ReadInv, NEW u \in Users, IsList(request[u].wish),
                        \A t \in tables[ListOf(request[u].wish)[1]] :
                            Untied(t, ListOf(request[u].wish))
                 PROVE  request[u].walk.entered + request[u].walk.repeats
                            <= entered[ListOf(request[u].wish)]
        BY DEF RepeatsHaveACause
    <2>1. PICK r, list : r = request[u] /\ list = ListOf(r.wish)
        OBVIOUS
    <2>2. PICK n : FitsIn(Shown, r.walk, list, n)
        BY <2>1 DEF ReadInv, Reads
    <2>3. Fits(createdAt, r.walk, tables[list[1]], Shown.rows[list], n,
               entered[list], left[list])
        BY <2>2, ShownIs DEF FitsIn
    <2>4. AllAlone(createdAt, tables[list[1]])
        BY <2>1 DEF AllAlone, Alone, Untied
    <2> QED
        BY <2>1, <2>3, <2>4 DEF Fits
<1> QED
    BY <1>1, ReadInvariant, PTL
=============================================================================
