------------------------------ MODULE SeedDemo ------------------------------
(***************************************************************************)
(* scripts/seed-demo.ts, which fills an empty base through the public API, *)
(* one call after the other, and the answers of the API it calls.  Several *)
(* runs may follow or overlap each other, and be killed anywhere; nobody   *)
(* else uses the API meanwhile, and the first administrator is stored.     *)
(* Indexes count from 1.  Prices, names and plates are left out, except    *)
(* that every plate has the one shape below.                               *)
(***************************************************************************)
EXTENDS ValueObjects, ServiceOrder, FiniteSets, FiniteSetsExt

CONSTANTS Seeders   \* runs of the script

CLIENTS ==
  <<<<5,2,9,9,8,2,2,4,7>>, <<1,1,1,4,4,4,7,7,7>>, <<3,9,0,5,3,3,4,4,7>>, <<1,2,8,1,4,3,7,4,0>>,
    <<2,4,6,8,1,3,5,7,9>>, <<1,3,5,7,9,2,4,6,8>>, <<8,6,4,1,9,7,5,3,2>>, <<7,5,3,1,9,8,6,4,2>>>>

VEHICLES == [i \in 1..10 |-> <<"A", "A", "A", "-", "0", "A", "0", "0">>]

SERVICES == 1..10

\* The stock each part is registered with.
PARTS == <<120, 200, 45, 28, 16, 90, 74, 12, 8, 4, 150, 3>>

DemoOrder(client, vehicle, services, items, target) ==
  [client |-> client, vehicle |-> vehicle, services |-> services, items |-> items, target |-> target]

ORDERS ==
  <<DemoOrder(1, 1, {1, 2}, {1, 2}, "EM_EXECUCAO"), DemoOrder(2, 2, {3}, {3, 4}, "EM_EXECUCAO"),
    DemoOrder(3, 3, {4}, {5}, "EM_EXECUCAO"), DemoOrder(4, 4, {6}, {12}, "AGUARDANDO_APROVACAO"),
    DemoOrder(5, 5, {5}, {11}, "AGUARDANDO_APROVACAO"),
    DemoOrder(6, 6, {8}, {9}, "AGUARDANDO_APROVACAO"),
    DemoOrder(7, 7, {}, {}, "EM_DIAGNOSTICO"), DemoOrder(8, 8, {}, {}, "EM_DIAGNOSTICO"),
    DemoOrder(1, 9, {}, {}, "RECEBIDA"), DemoOrder(2, 10, {}, {}, "RECEBIDA"),
    DemoOrder(1, 1, {7}, {10}, "PAUSADO"), DemoOrder(2, 2, {9}, {8}, "FINALIZADA"),
    DemoOrder(3, 3, {2}, {}, "ENTREGUE"), DemoOrder(4, 4, {10}, {}, "ENCERRADA_SEM_EXECUCAO")>>

\* A budget goes by the number of its order, which is not the null id.
ASSUME NoBudgetAssumption == NoBudget \notin DOMAIN ORDERS

Quantity == 2   \* of every part of an order

PATH_FROM_RECEBIDA == [RECEBIDA |-> <<>>, EM_DIAGNOSTICO |-> <<"EM_DIAGNOSTICO">>]

\* For an order with a budget; the last field is for one that was refused.
Paths(closed) ==
  [AGUARDANDO_APROVACAO |-> <<>>, EM_EXECUCAO |-> <<"EM_EXECUCAO">>,
   PAUSADO |-> <<"EM_EXECUCAO", "PAUSADO">>, FINALIZADA |-> <<"EM_EXECUCAO", "FINALIZADA">>,
   ENTREGUE |-> <<"EM_EXECUCAO", "FINALIZADA", "ENTREGUE">>, ENCERRADA_SEM_EXECUCAO |-> closed]

\* Fault: the order whose budget was refused is also told to close.
PATH_CLOSING_TWICE == Paths(<<"ENCERRADA_SEM_EXECUCAO">>)

PATH_FROM_AGUARDANDO == Paths(<<>>)

Tables == <<"clients", "vehicles", "services", "parts">>
RowsOf(t) == CASE t = "clients" -> Len(CLIENTS) [] t = "vehicles" -> Len(VEHICLES)
             [] t = "services" -> Cardinality(SERVICES) [] t = "parts" -> Len(PARTS)

VARIABLES
  base,      \* rows of each table; they are registered in the order of the script
  stock,     \* of each part
  opened,    \* the service orders, each with the status of its budget
  seeder     \* per run: what it is at, and the PATCHes left for the order it is at

seeding == <<base, stock, opened, seeder>>

Ended == {"resting", "killed", "refused", "skipped", "done"}
Resting == [phase |-> "resting", at |-> 1, steps |-> <<>>, stopped |-> "nowhere"]

SeedInit ==
  /\ base = [t \in {Tables[k] : k \in DOMAIN Tables} |-> 0]
  /\ stock = [p \in DOMAIN PARTS |-> 0]
  /\ opened = <<>>
  /\ seeder = [s \in Seeders |-> Resting]

-----------------------------------------------------------------------------
\* The two digits the script puts after a base.
Check(d) ==
  LET weighed == [i \in DOMAIN d |-> d[i] * (Len(d) + 2 - i)]
      sum == MapThenSumSet(LAMBDA i : weighed[i], DOMAIN d)
      rest == (sum * 10) % 11
  IN  IF rest = 10 THEN 0 ELSE rest

Cpf(d) == LET first == Append(d, Check(d)) IN Append(first, Check(first))

\* What the API checks, beyond that the row is new.
Accepts(t, i) ==
  CASE t = "clients" -> ValidateCpf(Cpf(CLIENTS[i]))
    [] t = "vehicles" -> PlateAccepted(VEHICLES[i])
    [] OTHER -> TRUE

\* The owner the script gives a vehicle.
OwnerOf(vehicle) == ((vehicle - 1) % Len(CLIENTS)) + 1

At(s, phase) == seeder[s].phase = phase
Goes(s, phase, i) == seeder' = [seeder EXCEPT ![s].phase = phase, ![s].at = i]

\* call() throws, and the run ends.
Refused(s) ==
  /\ seeder' = [seeder EXCEPT ![s].phase = "refused", ![s].stopped = seeder[s].phase]
  /\ UNCHANGED <<base, stock, opened>>

\* Login, and GET /clients: an answer that is not empty ends a run, unless forced.
Begin(s) ==
  /\ seeder[s].phase \in Ended
  /\ \E FORCE \in BOOLEAN :
       seeder' = [seeder EXCEPT ![s] = [Resting EXCEPT !.phase =
         IF base["clients"] > 0 /\ ~FORCE THEN "skipped" ELSE "clients"]]
  /\ UNCHANGED <<base, stock, opened>>

After(k) == IF k = Len(Tables) THEN "open" ELSE Tables[k + 1]

Register(s) ==
  \E k \in DOMAIN Tables :
    LET t == Tables[k]
        i == seeder[s].at
    IN  /\ At(s, t)
        /\ IF base[t] < i /\ Accepts(t, i)
           THEN /\ base' = [base EXCEPT ![t] = i]
                /\ stock' = IF t = "parts" THEN [stock EXCEPT ![i] = PARTS[i]] ELSE stock
                /\ IF i = RowsOf(t) THEN Goes(s, After(k), 1) ELSE Goes(s, t, i + 1)
                /\ UNCHANGED opened
           ELSE Refused(s)

HasItems(o) == o.services \union o.items # {}

\* POST /service-orders, then the path to the target is looked up.
OpenOrder(s) ==
  LET o == ORDERS[seeder[s].at]
      path == IF HasItems(o) THEN PATH_FROM_AGUARDANDO ELSE PATH_FROM_RECEBIDA
  IN  /\ At(s, "open")
      /\ IF OwnerOf(o.vehicle) = o.client /\ o.target \in DOMAIN path
         THEN /\ opened' = Append(opened,
                   IF HasItems(o)
                   THEN [so |-> AdvanceToAwaitingApproval(NewServiceOrder), budget |-> "PENDENTE"]
                   ELSE [so |-> NewServiceOrder, budget |-> "none"])
              /\ seeder' = [seeder EXCEPT ![s].phase = "decide", ![s].steps = path[o.target]]
              /\ UNCHANGED <<base, stock>>
         ELSE Refused(s)

Asked(s, p) == IF p \in ORDERS[seeder[s].at].items THEN Quantity ELSE 0

\* POST /webhooks/budgets/:id/approve, or refuse, or neither.
Decide(s) ==
  LET i == seeder[s].at
      quoted == opened[i].budget # "none"
      approves == quoted /\ \E j \in DOMAIN seeder[s].steps : seeder[s].steps[j] = "EM_EXECUCAO"
      refuses == quoted /\ ORDERS[i].target = "ENCERRADA_SEM_EXECUCAO"
  IN  /\ At(s, "decide")
      /\ IF approves /\ \E p \in DOMAIN PARTS : stock[p] < Asked(s, p)
         THEN Refused(s)
         ELSE /\ stock' = IF approves THEN [p \in DOMAIN PARTS |-> stock[p] - Asked(s, p)] ELSE stock
              /\ opened' = IF approves
                   THEN [opened EXCEPT ![i] = [so |-> SetBudget(@.so, i), budget |-> "APROVADO"]]
                   ELSE IF refuses
                   THEN [opened EXCEPT ![i] = [so |-> ChangeStatus(@.so, "ENCERRADA_SEM_EXECUCAO", "system"),
                                               budget |-> "RECUSADO"]]
                   ELSE opened
              /\ Goes(s, "patch", i)
              /\ UNCHANGED base

\* PATCH /service-orders/:id/status.
Patch(s) ==
  LET i == seeder[s].at
      to == Head(seeder[s].steps)
  IN  /\ At(s, "patch") /\ seeder[s].steps # <<>>
      /\ IF CanChangeStatus(opened[i].so, to)
         THEN /\ opened' = [opened EXCEPT ![i].so = ChangeStatus(@, to, "staff")]
              /\ seeder' = [seeder EXCEPT ![s].steps = Tail(@)]
              /\ UNCHANGED <<base, stock>>
         ELSE Refused(s)

NextOrder(s) ==
  /\ At(s, "patch") /\ seeder[s].steps = <<>>
  /\ IF seeder[s].at = Len(ORDERS) THEN Goes(s, "done", 1) ELSE Goes(s, "open", seeder[s].at + 1)
  /\ UNCHANGED <<base, stock, opened>>

\* The API stops answering, or the script is stopped.
Kill(s) ==
  /\ seeder[s].phase \notin Ended
  /\ seeder' = [seeder EXCEPT ![s] = [Resting EXCEPT !.phase = "killed"]]
  /\ UNCHANGED <<base, stock, opened>>

Seed ==
  \E s \in Seeders :
    Begin(s) \/ Register(s) \/ OpenOrder(s) \/ Decide(s) \/ Patch(s) \/ NextOrder(s) \/ Kill(s)

SeedSpec == SeedInit /\ [][Seed]_seeding

-----------------------------------------------------------------------------
\* "Passing through the endpoints, every row is born consistent": no rule of the
\* API (documents, owners, transitions, budgets, stock) stops a run half way.  A
\* run is refused at its very first client, because another was there, or never;
\* one that ends has each order in its target status, and has taken from the
\* stock what the approved budgets ask for and nothing else.
SeedReachesTargets ==
  \A s \in Seeders :
    /\ At(s, "refused") => seeder[s].stopped = "clients" /\ seeder[s].at = 1 /\ base["clients"] > 0
    /\ At(s, "done") =>
         /\ Len(opened) = Len(ORDERS)
         /\ \A i \in DOMAIN ORDERS : opened[i].so.status = ORDERS[i].target
         /\ \A p \in DOMAIN PARTS :
              PARTS[p] - stock[p] =
                Quantity * Cardinality({i \in DOMAIN ORDERS :
                             opened[i].budget = "APROVADO" /\ p \in ORDERS[i].items})
=============================================================================
