------------------------------- MODULE Gateway -------------------------------
(***************************************************************************)
(* The API gateway in front of the services: the request context, the two  *)
(* guards, one downstream call per route -- two for the property summary --*)
(* with a 3 s timeout, and the services' handlers as far as callers can    *)
(* tell them apart.                                                        *)
(*                                                                         *)
(* A call the gateway gives up on is not taken back: the service may still *)
(* be at it, and may commit after the caller was told 504 or 502 and has   *)
(* sent the request again.                                                 *)
(*                                                                         *)
(* A list is read by offset, newest created_at first.  created_at is the   *)
(* start of a transaction, so a row may appear below rows that readers     *)
(* have seen; two rows may share one, and then the database puts either    *)
(* first; and with a status filter rows leave the list and enter it.       *)
(*                                                                         *)
(* The callers are external: each awaits an answer before it sends the     *)
(* next request, may repeat one that was answered 5xx, and reads a list    *)
(* page by page up to meta.total.                                          *)
(***************************************************************************)
EXTENDS WorkOrderTransitions, Naturals, FiniteSets

CONSTANTS
    Users,        \* the accounts of AUTH_USERS
    RoleOf,       \* the role of each
    InboundIds,   \* the x-request-ids callers can think of
    Scenarios,    \* the circumstances to look at: see Scenario
    Limit,        \* page size of a list
    None,         \* no x-user-id header, no filter
    InitialRows,  \* bound: rows each table starts with
    MaxIntents,   \* bound: things a user asks for
    MaxAttempts   \* bound: times a user sends the same request

ASSUME LimitAssumption == Limit \in Nat \ {0}
ASSUME BoundsAssumption ==
    InitialRows \in Nat /\ MaxIntents \in Nat /\ MaxAttempts \in Nat \ {0}

VARIABLES
    token,    \* whether each user holds an access token
    request,  \* the request each user has sent last
    jobs,     \* calls under way, and responses still to be read
    tables,   \* the rows of work_orders and of properties
    progress, \* work_orders.status
    serial,   \* the row that the next transaction to begin inserts
    writes,   \* the changes committed, with the context they came with
    entered,  \* history: how many rows have entered each list ...
    left,     \* ... and left it
    scenario  \* the circumstances, the same all the time

database == <<tables, progress, serial, writes, entered, left>>
vars == <<token, request, jobs, database, scenario>>

-----------------------------------------------------------------------------
(* The routes.                                                             *)

Services == {"work-orders", "properties", "audit"}

UserRole == {"tenant", "manager", "technician"}

\* The routes of each controller: who may use it (a route without @Roles() is
\* for any authenticated user), and what its client asks of which service.
WorkOrdersController ==
    [ createOrder  |-> [roles |-> {"tenant", "manager"},
                        calls |-> {<<"work-orders", "create">>}],
      listOrders   |-> [roles |-> UserRole, calls |-> {<<"work-orders", "list">>}],
      getOrder     |-> [roles |-> UserRole, calls |-> {<<"work-orders", "get">>}],
      assign       |-> [roles |-> {"manager"},
                        calls |-> {<<"work-orders", "assign">>}],
      updateStatus |-> [roles |-> {"technician", "manager"},
                        calls |-> {<<"work-orders", "updateStatus">>}] ]

PropertiesController ==
    [ createProperty |-> [roles |-> {"manager"}, calls |-> {<<"properties", "create">>}],
      listProperties |-> [roles |-> UserRole, calls |-> {<<"properties", "list">>}],
      getProperty    |-> [roles |-> UserRole, calls |-> {<<"properties", "get">>}] ]

PropertySummaryController ==
    [ summary |-> [roles |-> UserRole,
                   calls |-> {<<"properties", "get">>, <<"work-orders", "list">>}] ]

ActivityController ==
    [ activity |-> [roles |-> {"manager"}, calls |-> {<<"audit", "feed">>}] ]

Route ==
    DOMAIN WorkOrdersController \cup DOMAIN PropertiesController
        \cup DOMAIN PropertySummaryController \cup DOMAIN ActivityController

Routes ==
    [ route \in Route |->
        IF route \in DOMAIN WorkOrdersController THEN WorkOrdersController[route]
        ELSE IF route \in DOMAIN PropertiesController THEN PropertiesController[route]
        ELSE IF route \in DOMAIN PropertySummaryController
             THEN PropertySummaryController[route]
        ELSE ActivityController[route] ]

Calls(route) == Routes[route].calls

ChangingOps == {"create", "assign", "updateStatus"}

\* A call without which the route has no answer.
Required(route) ==
    IF route = "summary" THEN {"properties"} ELSE {c[1] : c \in Calls(route)}

\* uuid: the path is well formed; id: the row it names; valid: the body or the
\* query passes the DTO; filter: the status of the orders to list.
Wish == [route : Route, uuid : BOOLEAN, id : Nat, valid : BOOLEAN, next : Status,
         filter : Status \cup {None}]

\* The rows of either table, numbered as the transactions that insert them begin.
Serials == 1 .. InitialRows + Cardinality(Users) * MaxIntents * MaxAttempts

\* down: the services in trouble; createdAt: now() as each row's transaction
\* begins; wants: what each user may ask for; asks: bound, how often; ids and
\* names: the x-request-ids and the x-user-ids that callers may send.
Scenario == [down : SUBSET Services, createdAt : [Serials -> Nat],
             wants : [Users -> SUBSET Wish], asks : [Users -> 0 .. MaxIntents],
             ids : SUBSET InboundIds, names : SUBSET Users]

down == scenario.down
createdAt == scenario.createdAt

ASSUME UsersAssumption ==
    /\ IsFiniteSet(Users)
    /\ \A u \in Users : RoleOf[u] \in UserRole
    /\ Scenarios \subseteq Scenario

-----------------------------------------------------------------------------
(* Requests.  pc: "arrived" in front of the guards, "authenticated" between *)
(* them, "waiting" for the services, "answered".                            *)

Identity == Users \X Nat \X Nat

\* The AsyncLocalStorage store that requestContextMiddleware opens.
Context == [requestId : Identity \cup InboundIds, userId : Users \cup {None}]

\* A list is a table and a status to filter by.
Lists == {"work-orders", "properties"} \X (Status \cup {None})

Rows(list) == {t \in tables[list[1]] : list[2] \in {None, progress[t]}}

ListOf(wish) ==
    IF wish.route = "listProperties" THEN <<"properties", None>>
    ELSE <<"work-orders", wish.filter>>

\* Reading a list: the rows there were at first, those shown, how often one
\* was shown again, whether meta.total promises more, and the two counters as
\* they were at first.
Walk == [page : Nat, start : SUBSET Serials, seen : SUBSET Serials,
         repeats : Nat, more : BOOLEAN, entered : Nat, left : Nat]

NoWalk == [page |-> 1, start |-> {}, seen |-> {}, repeats |-> 0, more |-> FALSE,
           entered |-> 0, left |-> 0]

IsList(wish) == wish.route \in {"listOrders", "listProperties"}

StartWalk(wish) ==
    IF IsList(wish)
    THEN [NoWalk EXCEPT !.start = Rows(ListOf(wish)), !.more = TRUE,
                        !.entered = entered[ListOf(wish)], !.left = left[ListOf(wish)]]
    ELSE NoWalk

Codes == {0, 200, 201, 400, 401, 403, 404, 409, 500, 502, 504}

Unanswered == [s \in Services |-> 0]

\* requestContextMiddleware: the x-request-id of the caller, or else a new one,
\* is echoed on the response and goes into the context, and so does x-user-id.
Arriving(of, wish, walk, id, header) ==
    [pc |-> "arrived", of |-> of, wish |-> wish, walk |-> walk,
     ctx |-> [requestId |-> id, userId |-> header],
     outcome |-> Unanswered, answer |-> 0]

\* Before the first.
NoRequest(u) ==
    [Arriving(<<u, 0, 1>>,
              [route |-> "activity", uuid |-> TRUE, id |-> 0, valid |-> TRUE,
               next |-> "open", filter |-> None],
              NoWalk, <<u, 0, 1>>, None)
        EXCEPT !.pc = "answered"]

Init ==
    /\ token = [u \in Users |-> FALSE]
    /\ request = [u \in Users |-> NoRequest(u)]
    /\ jobs = {}
    /\ tables = [s \in {"work-orders", "properties"} |-> 1 .. InitialRows]
    /\ progress = [t \in Serials |-> "open"]
    /\ serial = InitialRows + 1
    /\ writes = {}
    /\ entered = [list \in Lists |-> 0]
    /\ left = [list \in Lists |-> 0]
    /\ scenario \in Scenarios

-----------------------------------------------------------------------------
(* The callers.                                                            *)

\* POST /auth/login, a public route: a token with the email as its subject and
\* the role of AUTH_USERS, good for an hour.
Login(u) ==
    /\ ~token[u]
    /\ request[u].pc = "answered"
    /\ token' = [token EXCEPT ![u] = TRUE]
    /\ UNCHANGED <<request, jobs, database, scenario>>

\* With somebody's x-user-id or none, and an x-request-id that may be in use.
Sends(u, n, attempt, wish, walk) ==
    /\ \E header \in scenario.names \cup {None},
          id \in scenario.ids \cup {<<u, n, attempt>>} :
          request' = [request EXCEPT ![u] =
                         Arriving(<<u, n, attempt>>, wish, walk, id, header)]
    /\ UNCHANGED <<token, jobs, database, scenario>>

Ask(u) ==
    /\ request[u].pc = "answered"
    /\ request[u].of[2] < scenario.asks[u]
    /\ \E wish \in scenario.wants[u] :
          Sends(u, request[u].of[2] + 1, 1, wish, StartWalk(wish))

\* The same again, after 500, 502 or 504.
Retry(u) ==
    /\ request[u].pc = "answered"
    /\ request[u].answer >= 500
    /\ request[u].of[3] < MaxAttempts
    /\ Sends(u, request[u].of[2], request[u].of[3] + 1,
             request[u].wish, request[u].walk)

NextPage(u) ==
    /\ request[u].pc = "answered"
    /\ request[u].answer = 200
    /\ request[u].walk.more
    /\ Sends(u, request[u].of[2], request[u].of[3], request[u].wish,
             [request[u].walk EXCEPT !.page = @ + 1])

-----------------------------------------------------------------------------
(* The gateway.                                                            *)

\* The context ends with the request.
Answered(u, answer) ==
    [request EXCEPT ![u].pc = "answered", ![u].answer = answer,
                    ![u].ctx = [requestId |-> request[u].of, userId |-> None]]

\* JwtAuthGuard: the subject of the token goes into the context of the request,
\* over whatever the header said.
Authenticate(u) ==
    /\ request[u].pc = "arrived"
    /\ token[u]
    /\ request' = [request EXCEPT ![u].pc = "authenticated", ![u].ctx.userId = u]
    /\ UNCHANGED <<token, jobs, database, scenario>>

\* No token, or one that has expired.
Unauthorized(u) ==
    /\ request[u].pc = "arrived"
    /\ token' = [token EXCEPT ![u] = FALSE]
    /\ request' = Answered(u, 401)
    /\ UNCHANGED <<jobs, database, scenario>>

\* RolesGuard
Permitted(u) == RoleOf[u] \in Routes[request[u].wish.route].roles

Forbidden(u) ==
    /\ request[u].pc = "authenticated"
    /\ ~Permitted(u)
    /\ request' = Answered(u, 403)
    /\ UNCHANGED <<token, jobs, database, scenario>>

\* Seeded fault: one context for the whole process.
SharedContext(u) ==
    request[CHOOSE v \in Users : request[v].pc # "answered"].ctx

\* currentRequestId() and currentUserId()
CurrentContext(u) == request[u].ctx

\* fetch(): the headers of a call come from the context.
Call(u, call) ==
    [of |-> request[u].of, service |-> call[1], op |-> call[2],
     wish |-> request[u].wish, page |-> request[u].walk.page,
     echo |-> request[u].ctx.requestId, ctx |-> CurrentContext(u), pc |-> "queued",
     at |-> 0, before |-> {}, code |-> 0, rows |-> {}, more |-> FALSE]

\* ParseUUIDPipe, after the guards and before any call.
BadPath(u) ==
    /\ request[u].pc = "authenticated"
    /\ Permitted(u)
    /\ ~request[u].wish.uuid
    /\ request' = Answered(u, 400)
    /\ UNCHANGED <<token, jobs, database, scenario>>

Forward(u) ==
    /\ request[u].pc = "authenticated"
    /\ Permitted(u)
    /\ request[u].wish.uuid
    /\ jobs' = jobs \cup {Call(u, c) : c \in Calls(request[u].wish.route)}
    /\ request' = [request EXCEPT ![u].pc = "waiting"]
    /\ UNCHANGED <<token, database, scenario>>

Awaits(u, s) ==
    /\ request[u].pc = "waiting"
    /\ request[u].outcome[s] = 0
    /\ s \in {c[1] : c \in Calls(request[u].wish.route)}

IsAnswerTo(j, u) == j.of = request[u].of /\ j.page = request[u].walk.page

\* What a page adds to the reading of a list.
Read(walk, j) ==
    [walk EXCEPT !.seen = @ \cup j.rows,
                 !.repeats = @ + Cardinality(walk.seen \cap j.rows),
                 !.more = j.more]

\* The whole response is here; its status passes through.
Receive(u, j) ==
    /\ Awaits(u, j.service)
    /\ IsAnswerTo(j, u)
    /\ j.pc = "replied"
    /\ request' = [request EXCEPT ![u].outcome[j.service] = j.code,
                                  ![u].walk = IF IsList(request[u].wish) /\ j.code = 200
                                              THEN Read(@, j) ELSE @]
    /\ jobs' = jobs \ {j}
    /\ UNCHANGED <<token, database, scenario>>

\* What is left of an abandoned call is what may still change something.
Void(u, s) ==
    {j \in jobs : /\ IsAnswerTo(j, u)
                  /\ j.service = s
                  /\ j.pc = "replied" \/ j.op \notin ChangingOps}

\* Seeded faults: a timeout is reported as 408; the call is repeated by the
\* gateway itself; there is no signal.
TimeoutIs408(u, s) ==
    /\ s \in down
    /\ Awaits(u, s)
    /\ request' = [request EXCEPT ![u].outcome[s] = 408]
    /\ UNCHANGED <<token, jobs, database, scenario>>

TimeoutResends(u, s) ==
    /\ s \in down
    /\ Awaits(u, s)
    /\ jobs' = jobs \cup {Call(u, c) : c \in Calls(request[u].wish.route)}
    /\ UNCHANGED <<token, request, database, scenario>>

NoTimeout(u, s) == FALSE

\* AbortSignal.timeout() before the response has begun is 504.  After that, or
\* when the connection breaks in between, it is response.json() that rejects,
\* outside the try: 500.
Timeout(u, s) ==
    /\ s \in down
    /\ Awaits(u, s)
    /\ \E code \in {500, 504} :
          request' = [request EXCEPT ![u].outcome[s] = code]
    /\ jobs' = jobs \ Void(u, s)
    /\ UNCHANGED <<token, database, scenario>>

\* fetch() rejects, and nobody knows how far the service got: 502.
Unreachable(u, s) ==
    /\ s \in down
    /\ Awaits(u, s)
    /\ request' = [request EXCEPT ![u].outcome[s] = 502]
    /\ jobs' = jobs \ Void(u, s)
    /\ UNCHANGED <<token, database, scenario>>

\* Seeded fault: the summary without its catch.
RespondWithoutCatch(u) ==
    /\ request[u].pc = "waiting"
    /\ \E c \in Calls(request[u].wish.route) :
          LET outcome == request[u].outcome
          IN  /\ outcome[c[1]] # 0
              /\ \/ outcome[c[1]] >= 400
                 \/ \A d \in Calls(request[u].wish.route) :
                       outcome[d[1]] \in 200 .. 399
              /\ request' = Answered(u, outcome[c[1]])
    /\ UNCHANGED <<token, jobs, database, scenario>>

\* The handler returns or throws.  For the summary, Promise.all rejects with
\* the property and waits for the work orders, whose failure becomes null.
Respond(u) ==
    /\ request[u].pc = "waiting"
    /\ LET wish == request[u].wish
           outcome == request[u].outcome
           code == outcome[CHOOSE s \in Required(wish.route) : TRUE]
       IN  /\ code # 0
           /\ wish.route = "summary" /\ code < 400 => outcome["work-orders"] # 0
           /\ request' = Answered(u, code)
    /\ UNCHANGED <<token, jobs, database, scenario>>

-----------------------------------------------------------------------------
(* The services.                                                           *)

Reply(j, code) == [j EXCEPT !.pc = "replied", !.code = code]

Replies(j, reply) ==
    jobs' = (jobs \ {j}) \cup
                {r \in {reply} : \E u \in Users : Awaits(u, r.service) /\ IsAnswerTo(r, u)}

\* The ValidationPipe has let the request through to its handler.
Handles(j, handlers) == j.pc = "queued" /\ j.op \in handlers /\ j.wish.valid

\* It has not.
Invalid(j) ==
    /\ j.pc = "queued"
    /\ ~j.wish.valid
    /\ Replies(j, Reply(j, 400))
    /\ UNCHANGED <<token, request, database, scenario>>

\* The row that a change is about.
Target(j) == <<j.service, IF j.op = "create" THEN j.at ELSE j.wish.id>>

\* The event of a change, under the identity the headers brought.
Written(j) ==
    [of |-> j.of, route |-> j.wish.route, row |-> Target(j), echo |-> j.echo,
     requestId |-> j.ctx.requestId, userId |-> j.ctx.userId]

\* Rows enter a list and leave it.
Tally ==
    /\ entered' = [list \in Lists |-> entered[list] + Cardinality(Rows(list)' \ Rows(list))]
    /\ left' = [list \in Lists |-> left[list] + Cardinality(Rows(list) \ Rows(list)')]

\* The first n of T, ORDER BY created_at DESC, in some order of those that share one.
FirstRows(T, n) ==
    {S \in SUBSET T :
        /\ Cardinality(S) = n \/ (S = T /\ Cardinality(T) < n)
        /\ \A s \in S, t \in T \ S : createdAt[s] >= createdAt[t]}

Slices(T, skip, take) ==
    UNION {{upTo \ skipped : skipped \in FirstRows(upTo, skip)} :
              upTo \in FirstRows(T, skip + take)}

\* Seeded faults: skip: page * limit, and skip: page - 1.
PagesFromZero(list, page) == Slices(Rows(list), page * Limit, Limit)
PagesByRow(list, page) == Slices(Rows(list), page - 1, Limit)

\* skip, take
Pages(list, page) == Slices(Rows(list), (page - 1) * Limit, Limit)

\* findAll(): findAndCount() is a SELECT ...
SelectPage(j) ==
    /\ Handles(j, {"list"})
    /\ \E rows \in Pages(ListOf(j.wish), j.page) :
          jobs' = (jobs \ {j}) \cup {[j EXCEPT !.pc = "counting", !.rows = rows]}
    /\ UNCHANGED <<token, request, database, scenario>>

\* ... and a COUNT, between which others may commit.
CountRows(j) ==
    /\ j.pc = "counting"
    /\ Replies(j, [Reply(j, 200) EXCEPT
                      !.more = j.page * Limit < Cardinality(Rows(ListOf(j.wish)))])
    /\ UNCHANGED <<token, request, database, scenario>>

Found(j) == j.wish.id \in tables[j.service]

\* findOne(), and the feed of the audit service.
FindOne(j) ==
    /\ Handles(j, {"get", "feed"})
    /\ Replies(j, Reply(j, IF j.op = "get" /\ ~Found(j) THEN 404 ELSE 200))
    /\ UNCHANGED <<token, request, database, scenario>>

\* create(): the transaction begins, which fixes created_at ...
BeginCreate(j) ==
    /\ Handles(j, {"create"})
    /\ jobs' = (jobs \ {j}) \cup {[j EXCEPT !.pc = "running", !.at = serial]}
    /\ serial' = serial + 1
    /\ UNCHANGED <<token, request, tables, progress, writes, entered, left>>
    /\ UNCHANGED scenario

\* ... and ends.
CommitCreate(j) ==
    /\ j.pc = "running"
    /\ tables' = [tables EXCEPT ![j.service] = @ \cup {j.at}]
    /\ progress' = progress
    /\ Tally
    /\ writes' = writes \cup {Written(j)}
    /\ Replies(j, Reply(j, 201))
    /\ UNCHANGED <<token, request, serial, scenario>>

Legal(j) ==
    IF j.op = "assign" THEN CanAssign(progress[j.wish.id])
    ELSE j.wish.next # "assigned" /\ CanTransition(progress[j.wish.id], j.wish.next)

OnTheRow(j) == {w \in writes : w.row = Target(j)}

\* assign() and updateStatus() load the order and decide on the copy ...
Load(j) ==
    /\ Handles(j, {"assign", "updateStatus"})
    /\ Found(j)
    /\ Legal(j)
    /\ jobs' = (jobs \ {j}) \cup {[j EXCEPT !.pc = "loaded", !.before = OnTheRow(j)]}
    /\ UNCHANGED <<token, request, database, scenario>>

Refuse(j) ==
    /\ Handles(j, {"assign", "updateStatus"})
    /\ Found(j) => ~Legal(j)
    /\ Replies(j, Reply(j, IF Found(j) THEN 409 ELSE 404))
    /\ UNCHANGED <<token, request, database, scenario>>

\* Another request has written the order since.
Overtaken(j) == ~ (OnTheRow(j) \subseteq j.before)

\* ... and save it, in the steps of WorkOrders.  A save that was overtaken may
\* find the status as it wants it, and leave it to what it becomes ...
Save(j) ==
    /\ j.pc = "loaded"
    /\ \/ progress' = [progress EXCEPT ![j.wish.id] =
                          IF j.op = "assign" THEN "assigned" ELSE j.wish.next]
       \/ Overtaken(j) /\ progress' = progress
    /\ tables' = tables
    /\ Tally
    /\ writes' = writes \cup {Written(j)}
    /\ Replies(j, Reply(j, 200))
    /\ UNCHANGED <<token, request, serial, scenario>>

\* ... or would leave it "assigned" to nobody, and the CHECK constraint makes
\* that a 500 (WorkOrders!CheckViolation).  Only assign() names an assignee.
Violates(j) ==
    /\ j.pc = "loaded"
    /\ Overtaken(j)
    /\ \E w \in OnTheRow(j) : w.route = "assign"
    /\ Replies(j, Reply(j, 500))
    /\ UNCHANGED <<token, request, database, scenario>>

\* The service rolls back and says so.  One that dies does nothing any more.
Fail(j) ==
    /\ j.service \in down
    /\ j.pc # "replied"
    /\ Replies(j, Reply(j, 500))
    /\ UNCHANGED <<token, request, database, scenario>>

Serve(j) ==
    \/ SelectPage(j) \/ CountRows(j) \/ FindOne(j) \/ Invalid(j)
    \/ BeginCreate(j) \/ CommitCreate(j)
    \/ Load(j) \/ Refuse(j) \/ Save(j) \/ Violates(j)

-----------------------------------------------------------------------------
GatewayStep(u) ==
    \/ Authenticate(u) \/ Unauthorized(u) \/ Forbidden(u) \/ BadPath(u)
    \/ Forward(u)
    \/ \E j \in jobs : Receive(u, j)
    \/ \E s \in Services : Timeout(u, s)
    \/ Respond(u)

Next ==
    \/ \E u \in Users : Login(u) \/ Ask(u) \/ Retry(u) \/ NextPage(u)
    \/ \E u \in Users : GatewayStep(u)
    \/ \E u \in Users, s \in Services : Unreachable(u, s)
    \/ \E j \in jobs : Serve(j) \/ Fail(j)

Spec == Init /\ [][Next]_vars

\* The gateway's timers fire; a service that is not in trouble does its work.
Fairness ==
    /\ \A u \in Users : WF_vars(GatewayStep(u))
    /\ WF_vars(\E j \in jobs : j.service \notin down /\ Serve(j))

FairSpec == Spec /\ Fairness

-----------------------------------------------------------------------------
TypeOK ==
    /\ token \in [Users -> BOOLEAN]
    /\ \A u \in Users :
          /\ request[u].pc \in {"arrived", "authenticated", "waiting", "answered"}
          /\ request[u].ctx \in Context
          /\ request[u].walk \in Walk
          /\ request[u].outcome \in [Services -> Codes]
          /\ request[u].answer \in Codes
    /\ \A j \in jobs : j.code \in Codes /\ j.rows \subseteq Serials
    /\ \A s \in DOMAIN tables : tables[s] \subseteq Serials
    /\ progress \in [Serials -> Status]

\* The log names who did it: a change is recorded for the user it came from and
\* under the id that is on the response, whatever headers the caller sent,
\* whoever else was being served and under whatever id, and that user's role
\* allows the route.
WritesAreAttributedAndAllowed ==
    \A w \in writes :
        /\ w.requestId = w.echo
        /\ w.userId = w.of[1]
        /\ RoleOf[w.of[1]] \in Routes[w.route].roles

ChangesOf(r) == {w \in writes : w.of = r.of}

Changing == {"createOrder", "assign", "updateStatus", "createProperty"}

\* An answer below 500 is the truth for good: 2xx means that the change was
\* made, once, and 4xx that it was not and will not be, although the service
\* may go on after the gateway has answered 5xx.
AnswersAreHonest ==
    \A u \in Users : request[u].pc = "answered" /\ request[u].answer > 0 =>
        LET r == request[u]
        IN  /\ r.answer < 300 /\ r.wish.route \in Changing =>
                   \E w \in writes : ChangesOf(r) = {w}
            /\ r.answer \in 400 .. 499 =>
                   /\ ChangesOf(r) = {}
                   /\ \A j \in jobs :
                          j.of = r.of => j.op \notin ChangingOps

\* Trouble of a service reaches only the routes that need it: the summary still
\* shows the property when the work orders cannot be had (docs/flows.md).  In
\* healthy services nothing fails but a change of an order that another request
\* was assigning.
OutagesAreContained ==
    \A u \in Users :
        LET r == request[u]
        IN  r.answer >= 500 =>
                \/ Required(r.wish.route) \cap down # {}
                \/ /\ r.answer = 500
                   /\ \E w \in writes : /\ w.row = <<"work-orders", r.wish.id>>
                                        /\ w.route = "assign"
                                        /\ w.of # r.of

\* No other row of the table shares the created_at of t.
Untied(t, list) ==
    \A q \in tables[list[1]] \ {t} : createdAt[q] # createdAt[t]

\* Reading a list to its end misses no more of the rows there were at first than
\* have left it since, those aside whose created_at is not their own, although
\* every page is counted from a list that changes, and rows may be inserted in
\* what was read already.
MissesHaveACause ==
    \A u \in Users :
        LET r == request[u]
            list == ListOf(r.wish)
            missed == r.walk.start \ r.walk.seen
        IN  IsList(r.wish) /\ r.answer = 200 /\ ~r.walk.more =>
                r.walk.left + Cardinality({t \in missed : Untied(t, list)}) <= left[list]

\* Unless rows share a created_at, no more of them are shown again than have
\* entered the list since.
RepeatsHaveACause ==
    \A u \in Users :
        LET r == request[u]
            list == ListOf(r.wish)
        IN  IsList(r.wish) /\ (\A t \in tables[list[1]] : Untied(t, list)) =>
                r.walk.entered + r.walk.repeats <= entered[list]

\* fail fast (downstream.client.ts): every request is answered, even if the
\* service it needs never does.
EveryRequestIsAnswered ==
    \A u \in Users : request[u].pc # "answered" ~> request[u].pc = "answered"

=============================================================================
