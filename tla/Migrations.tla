----------------------------- MODULE Migrations -----------------------------
(***************************************************************************)
(* The schema, the five migrations that build it, and whoever runs them:   *)
(* the Job of a deployment, a replica that migrates as it boots, the       *)
(* command line of a developer.  A migration is the sequence of its DDL    *)
(* statements, run in a transaction together with its row in the table     *)
(* "migrations" (the journal).  The first DDL statement of a migration     *)
(* takes a lock no second run can hold, and keeps it until the transaction *)
(* ends: a transaction is one step, placed there.  (AddForeignKeys counts  *)
(* orphans before it has that lock; ADD CONSTRAINT checks the rows again   *)
(* under it, so what was counted earlier only words an error.)  TypeORM    *)
(* locks nothing between transactions, and which migrations are pending is *)
(* read once, before the first.                                            *)
(***************************************************************************)
EXTENDS Naturals, Sequences, SequencesExt, FiniteSets

CONSTANT Runners   \* processes that can be running migrations

VARIABLES
  schema,    \* the objects that exist in the database
  journal,   \* the migrations recorded as applied, in that order
  flaws,     \* what is wrong with the rows
  runner     \* what each runner is doing

mvars == <<schema, journal, flaws, runner>>

-----------------------------------------------------------------------------
(* Objects of the schema.  Types, nullability and defaults are left out.   *)

Obj(kind, table, name) == [kind |-> kind, on |-> table, name |-> name]

\* Tables and indexes, those of UNIQUE constraints too, share one name space.
Relation == {"table", "unique", "partial", "index"}

COLUMNS ==
  [admins   |-> {"id", "name", "email", "password_hash", "created_at", "updated_at"},
   clients  |-> {"id", "name", "cpf_cnpj", "email", "phone", "vehicle_ids",
                 "created_at", "updated_at"},
   vehicles |-> {"id", "plate", "brand", "model", "year", "owner_client_id",
                 "created_at", "updated_at"},
   services |-> {"id", "name", "base_price", "estimated_minutes", "created_at", "updated_at"},
   parts    |-> {"id", "name", "sku", "unit_price", "stock_quantity",
                 "created_at", "updated_at"},
   service_orders |-> {"id", "client_id", "vehicle_id", "description", "status", "budget_id",
                       "status_history", "created_at", "updated_at"},
   budgets  |-> {"id", "service_order_id", "lines", "status", "version", "total",
                 "frozen_at", "created_at"}]

TABLES == <<"admins", "clients", "vehicles", "services", "parts", "service_orders", "budgets">>

UNIQUE_INDEXES ==
  <<[table |-> "admins",   name |-> "UQ_admins_email"],
    [table |-> "clients",  name |-> "UQ_clients_cpf_cnpj"],
    [table |-> "vehicles", name |-> "UQ_vehicles_plate"],
    [table |-> "services", name |-> "UQ_services_name"],
    [table |-> "parts",    name |-> "UQ_parts_sku"]>>

FOREIGN_KEYS ==
  <<[table |-> "vehicles",       name |-> "FK_vehicles_owner_client_id"],
    [table |-> "service_orders", name |-> "FK_service_orders_client_id"],
    [table |-> "service_orders", name |-> "FK_service_orders_vehicle_id"],
    [table |-> "service_orders", name |-> "FK_service_orders_budget_id"],
    [table |-> "budgets",        name |-> "FK_budgets_service_order_id"]>>

-----------------------------------------------------------------------------
(* DDL statements, and what PostgreSQL makes of them.                      *)

Add(objects) == [adds |-> objects, drops |-> {}, unless |-> {}]
Drop(object) == [adds |-> {}, drops |-> {object}, unless |-> {}]

\* A constraint that the rows must meet as they are when it is added.
AddUnless(object, flaw) == [adds |-> {object}, drops |-> {}, unless |-> {flaw}]

CreateTable(t) ==
  Add({Obj("table", t, t)} \union {Obj("column", t, c) : c \in COLUMNS[t]}
      \union {Obj("unique", t, u.name) : u \in {v \in ToSet(UNIQUE_INDEXES) : v.table = t}})

Clash(o, p) == o.name = p.name /\ (o = p \/ {o.kind, p.kind} \subseteq Relation)

Accepts(s, db) ==
  /\ s.drops \subseteq db
  /\ \A o \in s.adds : /\ o.kind # "table" => Obj("table", o.on, o.on) \in db \union s.adds
                       /\ \A p \in db : ~Clash(o, p)

\* Dropping a table drops what is on it.
Effect(s, db) ==
  LET gone == {o.on : o \in {d \in s.drops : d.kind = "table"}}
  IN  {o \in db : o \notin s.drops /\ o.on \notin gone} \union s.adds

\* A statement, unless one before it was refused.
Try(s, acc) ==
  IF acc.ok /\ Accepts(s, acc.db) /\ s.unless \intersect flaws = {}
  THEN [ok |-> TRUE, db |-> Effect(s, acc.db)]
  ELSE [ok |-> FALSE, db |-> acc.db]

\* Statements one after the other, until one is refused.
Execute(statements, db) ==
  LET run[n \in 0..Len(statements)] ==
        IF n = 0 THEN [ok |-> TRUE, db |-> db] ELSE Try(statements[n], run[n - 1])
  IN  run[Len(statements)]

\* What they do to a schema, were none refused.
Effects(statements, db) ==
  LET made[n \in 0..Len(statements)] ==
        IF n = 0 THEN db ELSE Effect(statements[n], made[n - 1])
  IN  made[Len(statements)]

\* A statement for each element, in their order.
Each(Statement(_), seq) == [i \in DOMAIN seq |-> Statement(seq[i])]

-----------------------------------------------------------------------------
(* The migrations.                                                         *)

LOGICAL_KEY_INDEXES ==
  <<Obj("index", "vehicles", "IDX_vehicles_owner_client_id"),
    Obj("index", "service_orders", "IDX_service_orders_client_id"),
    Obj("index", "service_orders", "IDX_service_orders_status"),
    Obj("index", "budgets", "IDX_budgets_service_order_id")>>

InitialSchemaUp ==
  Each(CreateTable, TABLES) \o Each(LAMBDA o : Add({o}), LOGICAL_KEY_INDEXES)

InitialSchemaDown ==
  Each(Drop, Reverse(LOGICAL_KEY_INDEXES))
    \o Each(LAMBDA t : Drop(Obj("table", t, t)), Reverse(TABLES))

AddSoftDeleteUp ==
  Each(LAMBDA t : Add({Obj("column", t, "deleted_at")}), TABLES)
    \o FlattenSeq(Each(LAMBDA u : <<Drop(Obj("unique", u.table, u.name)),
                                    Add({Obj("partial", u.table, u.name)})>>, UNIQUE_INDEXES))

\* The rows that were deleted compete for their keys again.
AddSoftDeleteDown ==
  FlattenSeq(Each(LAMBDA u : <<Drop(Obj("partial", u.table, u.name)),
                               AddUnless(Obj("unique", u.table, u.name), "twins")>>,
                  UNIQUE_INDEXES))
    \o Each(LAMBDA t : Drop(Obj("column", t, "deleted_at")), TABLES)

CLIENT_STATUS == <<Obj("column", "clients", "status"),
                   Obj("check", "clients", "CHK_clients_status")>>

AddClientStatusUp == Each(LAMBDA o : Add({o}), CLIENT_STATUS)
AddClientStatusDown == Each(Drop, Reverse(CLIENT_STATUS))

NEW_INDEXES == <<Obj("index", "service_orders", "IDX_service_orders_vehicle_id"),
                 Obj("index", "service_orders", "IDX_service_orders_budget_id")>>

\* Fault: the entity declares its indexes, the migration forgets them.
AddForeignKeysUpUnindexed ==
  Each(LAMBDA fk : AddUnless(Obj("fk", fk.table, fk.name), "orphans"), FOREIGN_KEYS)

\* failOnOrphans only words the refusal: ADD CONSTRAINT checks the rows again.
AddForeignKeysUp ==
  Each(LAMBDA fk : AddUnless(Obj("fk", fk.table, fk.name), "orphans"), FOREIGN_KEYS)
    \o Each(LAMBDA o : Add({o}), NEW_INDEXES)

AddForeignKeysDown ==
  Each(Drop, Reverse(NEW_INDEXES))
    \o Each(LAMBDA fk : Drop(Obj("fk", fk.table, fk.name)), Reverse(FOREIGN_KEYS))

VEHICLE_IDS == Obj("column", "clients", "vehicle_ids")

DropClientVehicleIdsUp == <<Drop(VEHICLE_IDS)>>
DropClientVehicleIdsDown == <<Add({VEHICLE_IDS})>>

Up == <<InitialSchemaUp, AddSoftDeleteUp, AddClientStatusUp, AddForeignKeysUp,
        DropClientVehicleIdsUp>>
Down == <<InitialSchemaDown, AddSoftDeleteDown, AddClientStatusDown, AddForeignKeysDown,
          DropClientVehicleIdsDown>>

\* What the migrations of a journal make of an empty database.
Replay(ms) ==
  LET made[n \in 0..Len(ms)] == IF n = 0 THEN {} ELSE Effects(Up[ms[n]], made[n - 1])
  IN  made[Len(ms)]

-----------------------------------------------------------------------------
(* What the entities of the application map to.                            *)

Entity(t, columns, others) ==
  {Obj("table", t, t)} \union {Obj("column", t, c) : c \in columns \union {"deleted_at"}}
    \union others

AdminOrmEntity ==
  Entity("admins", {"id", "name", "email", "password_hash", "created_at", "updated_at"},
         {Obj("partial", "admins", "UQ_admins_email")})

ClientOrmEntity ==
  Entity("clients", {"id", "name", "cpf_cnpj", "email", "phone", "status", "created_at",
                     "updated_at"},
         {Obj("partial", "clients", "UQ_clients_cpf_cnpj"),
          Obj("check", "clients", "CHK_clients_status")})

VehicleOrmEntity ==
  Entity("vehicles", {"id", "plate", "brand", "model", "year", "owner_client_id", "created_at",
                      "updated_at"},
         {Obj("partial", "vehicles", "UQ_vehicles_plate"),
          Obj("index", "vehicles", "IDX_vehicles_owner_client_id"),
          Obj("fk", "vehicles", "FK_vehicles_owner_client_id")})

ServiceOrmEntity ==
  Entity("services", {"id", "name", "base_price", "estimated_minutes", "created_at",
                      "updated_at"},
         {Obj("partial", "services", "UQ_services_name")})

PartOrmEntity ==
  Entity("parts", {"id", "name", "sku", "unit_price", "stock_quantity", "created_at",
                   "updated_at"},
         {Obj("partial", "parts", "UQ_parts_sku")})

ServiceOrderOrmEntity ==
  Entity("service_orders",
         {"id", "client_id", "vehicle_id", "description", "status", "budget_id",
          "status_history", "created_at", "updated_at"},
         {Obj("index", "service_orders", "IDX_service_orders_client_id"),
          Obj("index", "service_orders", "IDX_service_orders_status"),
          Obj("index", "service_orders", "IDX_service_orders_vehicle_id"),
          Obj("index", "service_orders", "IDX_service_orders_budget_id"),
          Obj("fk", "service_orders", "FK_service_orders_client_id"),
          Obj("fk", "service_orders", "FK_service_orders_vehicle_id"),
          Obj("fk", "service_orders", "FK_service_orders_budget_id")})

BudgetOrmEntity ==
  Entity("budgets", {"id", "service_order_id", "lines", "status", "version", "total",
                     "frozen_at", "created_at"},
         {Obj("index", "budgets", "IDX_budgets_service_order_id"),
          Obj("fk", "budgets", "FK_budgets_service_order_id")})

ENTITIES ==
  UNION {AdminOrmEntity, ClientOrmEntity, VehicleOrmEntity, ServiceOrmEntity, PartOrmEntity,
         ServiceOrderOrmEntity, BudgetOrmEntity}

-----------------------------------------------------------------------------
(* Whoever runs them.                                                      *)

\* The migrations that are not in the journal, in their order.
Pending ==
  LET from[m \in 1..Len(Up) + 1] ==
        IF m > Len(Up) THEN <<>>
        ELSE IF m \in ToSet(journal) THEN from[m + 1] ELSE <<m>> \o from[m + 1]
  IN  from[1]

\* A runner: its transactions, what it has left to do.
Mode == {"idle", "each", "all", "done", "failed"}
Resting == [mode |-> "idle", todo |-> <<>>]

\* runMigrations: the pending ones are read once, before the first transaction.
Begin(r, mode) ==
  /\ runner[r].mode \in {"idle", "failed"}
  /\ runner' = [runner EXCEPT ![r] = [mode |-> mode, todo |-> Pending]]
  /\ UNCHANGED <<schema, journal, flaws>>

\* What the transaction of a runner holds: one migration, or all of them.
Transaction(r) ==
  IF runner[r].mode = "each" THEN <<Head(runner[r].todo)>> ELSE runner[r].todo

\* A transaction commits with its rows in the journal, or leaves no trace.
RunNext(r) ==
  LET batch == Transaction(r)
      outcome == Execute(FlattenSeq([i \in DOMAIN batch |-> Up[batch[i]]]), schema)
  IN  /\ runner[r].mode \in {"each", "all"} /\ runner[r].todo # <<>>
      /\ IF outcome.ok
         THEN /\ schema' = outcome.db /\ journal' = journal \o batch
              /\ runner' = [runner EXCEPT ![r].todo = SubSeq(@, Len(batch) + 1, Len(@))]
         ELSE /\ runner' = [runner EXCEPT ![r].mode = "failed"]
              /\ UNCHANGED <<schema, journal>>
      /\ UNCHANGED flaws

EndRun(r) ==
  /\ runner[r].mode \in {"each", "all"} /\ runner[r].todo = <<>>
  /\ runner' = [runner EXCEPT ![r].mode = "done"]
  /\ UNCHANGED <<schema, journal, flaws>>

\* The process dies, or the database goes to sleep under it.
InterruptRun(r) ==
  /\ runner[r].mode \in {"each", "all"}
  /\ runner' = [runner EXCEPT ![r].mode = "failed"]
  /\ UNCHANGED <<schema, journal, flaws>>

\* Fault: no transaction, what was done before the refusal stays.
UndoLastUnwrapped ==
  LET outcome == Execute(Down[Last(journal)], schema)
  IN  /\ journal # <<>>
      /\ schema' = outcome.db
      /\ journal' = IF outcome.ok THEN Front(journal) ELSE journal
      /\ flaws' = IF outcome.db = {} THEN {} ELSE flaws
      /\ UNCHANGED runner

\* migration:revert, from a developer's command line.  No table, no rows.
UndoLast ==
  LET outcome == Execute(Down[Last(journal)], schema)
  IN  /\ journal # <<>> /\ outcome.ok
      /\ schema' = outcome.db
      /\ journal' = Front(journal)
      /\ flaws' = IF outcome.db = {} THEN {} ELSE flaws
      /\ UNCHANGED runner

-----------------------------------------------------------------------------
(* The rows.                                                               *)

Holds(kind) == \E o \in schema : o.kind = kind

\* A row that points at nothing is inserted, while no foreign key forbids it.
ImportOrphans ==
  /\ Holds("table") /\ ~Holds("fk") /\ "orphans" \notin flaws
  /\ flaws' = flaws \union {"orphans"}
  /\ UNCHANGED <<schema, journal, runner>>

\* The key of a deleted row is registered again.
ReuseKey ==
  /\ Holds("partial") /\ "twins" \notin flaws
  /\ flaws' = flaws \union {"twins"}
  /\ UNCHANGED <<schema, journal, runner>>

\* Somebody corrects the orphans, the error lists them.
MendOrphans ==
  /\ "orphans" \in flaws
  /\ flaws' = flaws \ {"orphans"}
  /\ UNCHANGED <<schema, journal, runner>>

-----------------------------------------------------------------------------
\* Whatever was run, undone, refused or interrupted, by however many at once,
\* the schema is what the migrations in the journal make of an empty database,
\* each of them once.
SchemaIsReplayed == schema = Replay(journal) /\ IsInjective(journal)

\* A journal with every migration in it means the schema the entities were
\* written for, no object more or less.  Reverts and interrupted batches take it
\* there by several ways; TLC follows those of its instance, and the theorem
\* CompleteIsEnough covers every order that runs can record.
CompleteMeansEntities == ToSet(journal) = DOMAIN Up => schema = ENTITIES
=============================================================================
