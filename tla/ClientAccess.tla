---------------------------- MODULE ClientAccess ----------------------------
(***************************************************************************)
(* Clients: their registration, the edits and status changes of the admin, *)
(* their soft deletion, and the client's own access to /me.  As in         *)
(* Workshop, each repository call is a statement of its own, and the save  *)
(* of a loaded entity is a SELECT and an UPDATE of the columns that differ *)
(* by then from the entity.  The unique index on cpf_cnpj covers the rows  *)
(* that are not deleted.                                                   *)
(***************************************************************************)
EXTENDS Naturals, FiniteSets

CONSTANTS
  Workers,     \* requests that can be in flight at the same time
  Editors,     \* those of them that can be an admin's edit of a client
  Clients,     \* client ids
  Documents,   \* CPF/CNPJ, digits only
  Names,       \* values of the columns PUT /clients/:id changes
  NoClient, NoDocument

ASSUME NoneAssumption == NoClient \notin Clients /\ NoDocument \notin Documents
ASSUME EditorAssumption == Editors \subseteq Workers
ASSUME NameAssumption == Names # {}

VARIABLES
  clients,   \* table clients
  tokens,    \* clients that hold a token within its hour
  req,       \* what each request keeps in memory
  barred     \* clients an admin was told are INATIVO, and not told otherwise since

vars == <<clients, tokens, req, barred>>

Presence == {"absent", "live", "deleted"}
ClientStatus == {"ATIVO", "INATIVO"}
Column == {"name", "status"}

ClientRow ==
  [row : Presence, doc : Documents \union {NoDocument}, name : Names, status : ClientStatus]

Step == {"idle", "insert", "select", "update", "list"}

\* A request: its await, its client, the entity it holds, whether it is a status
\* change, the columns its UPDATE will write, whether its client was barred when
\* a request for /me arrived (the consultation does not ask for the status).
Request ==
  [step : Step, id : Clients \union {NoClient}, entity : ClientRow,
   changesStatus : BOOLEAN, dirty : SUBSET Column, late : BOOLEAN]

\* new Client(...): a client is born ATIVO.
NewClient(doc, n) == [row |-> "live", doc |-> doc, name |-> n, status |-> "ATIVO"]

AbsentClient == [NewClient(NoDocument, CHOOSE n \in Names : TRUE) EXCEPT !.row = "absent"]

Idle ==
  [step |-> "idle", id |-> NoClient, entity |-> AbsentClient,
   changesStatus |-> FALSE, dirty |-> {}, late |-> FALSE]

Init ==
  /\ clients = [c \in Clients |-> AbsentClient]
  /\ tokens = {} /\ barred = {}
  /\ req = [w \in Workers |-> Idle]

-----------------------------------------------------------------------------
IsActive(c) == clients[c].row = "live" /\ clients[c].status = "ATIVO"

Arrive(w, r) == req[w].step = "idle" /\ req' = [req EXCEPT ![w] = r]
Finish(w) == req' = [req EXCEPT ![w] = Idle]

Holders(doc) == {c \in Clients : clients[c].row = "live" /\ clients[c].doc = doc}

\* RegisterClientUseCase: existsByCpfCnpj, then the insert.
StartRegister(w, c, doc, n) ==
  /\ clients[c].row = "absent" /\ \A v \in Workers : req[v].id # c
  /\ Holders(doc) = {}
  /\ Arrive(w, [Idle EXCEPT !.step = "insert", !.id = c, !.entity = NewClient(doc, n)])
  /\ UNCHANGED <<clients, tokens, barred>>

\* Fault: the table has no unique index on cpf_cnpj.
InsertUnindexed(w) ==
  /\ req[w].step = "insert"
  /\ clients' = [clients EXCEPT ![req[w].id] = req[w].entity]
  /\ Finish(w)
  /\ UNCHANGED <<tokens, barred>>

\* The INSERT: UQ_clients_cpf_cnpj refuses it if the document is taken by now.
Insert(w) ==
  /\ req[w].step = "insert"
  /\ clients' = IF Holders(req[w].entity.doc) = {}
                THEN [clients EXCEPT ![req[w].id] = req[w].entity] ELSE clients
  /\ Finish(w)
  /\ UNCHANGED <<tokens, barred>>

\* PUT /clients/:id: the row is read, the name changed in memory.
StartUpdate(w, c, n) ==
  /\ w \in Editors /\ clients[c].row = "live"
  /\ Arrive(w, [Idle EXCEPT !.step = "select", !.id = c,
                            !.entity = [clients[c] EXCEPT !.name = n]])
  /\ UNCHANGED <<clients, tokens, barred>>

\* PATCH /clients/:id/status: activate() or deactivate(), in memory.
StartChangeStatus(w, c, s) ==
  /\ w \in Editors /\ clients[c].row = "live"
  /\ Arrive(w, [Idle EXCEPT !.step = "select", !.id = c, !.changesStatus = TRUE,
                            !.entity = [clients[c] EXCEPT !.status = s]])
  /\ UNCHANGED <<clients, tokens, barred>>

\* save(), first statement: which columns differ from the row as it is by now.
Select(w) ==
  /\ req[w].step = "select"
  /\ LET row == clients[req[w].id]
     IN  req' = [req EXCEPT
           ![w].dirty = {c \in Column : row[c] # req[w].entity[c]}, ![w].step = "update"]
  /\ UNCHANGED <<clients, tokens, barred>>

\* Fault: the whole row is written, deleted_at too.
OverwriteRow(row, entity, dirty) == entity

Overwrite(row, entity, dirty) ==
  [row EXCEPT !.name = IF "name" \in dirty THEN entity.name ELSE @,
              !.status = IF "status" \in dirty THEN entity.status ELSE @]

\* save(), second statement; then the admin is told.
Update(w) ==
  LET r == req[w]
  IN  /\ r.step = "update"
      /\ clients' = [clients EXCEPT ![r.id] = Overwrite(@, r.entity, r.dirty)]
      /\ barred' = IF ~r.changesStatus THEN barred
                   ELSE IF r.entity.status = "INATIVO" THEN barred \union {r.id}
                   ELSE barred \ {r.id}
      /\ Finish(w)
      /\ UNCHANGED tokens

\* DELETE /clients/:id: a find and a soft delete.
Remove(c) ==
  /\ clients[c].row = "live"
  /\ clients' = [clients EXCEPT ![c].row = "deleted"]
  /\ barred' = barred \union {c}
  /\ UNCHANGED <<tokens, req>>

\* The CPF authentication function, outside the repository: it issues a token
\* to the one row that is ATIVO and not deleted.
IssueToken(c) ==
  /\ IsActive(c)
  /\ tokens' = tokens \union {c}
  /\ UNCHANGED <<clients, req, barred>>

TokenExpires(c) ==
  /\ c \in tokens
  /\ tokens' = tokens \ {c}
  /\ UNCHANGED <<clients, req, barred>>

\* Fault: the role and the signature of the token are enough.
HolderOnly(c) == clients[c].row # "absent"

\* activeClientId of MeController.
ActiveClientId(c) == IsActive(c)

\* GET /me/...: the token is valid and its client is active now; else 401, 403.
StartMe(w, c) ==
  /\ c \in tokens /\ ActiveClientId(c)
  /\ Arrive(w, [Idle EXCEPT !.step = "list", !.id = c, !.late = c \in barred])
  /\ UNCHANGED <<clients, tokens, barred>>

\* GET /consult/:clientId?cpf=...: public, the document is the proof; the status
\* of the client does not matter, only that it is not deleted.
StartConsult(w, c, doc) ==
  /\ clients[c].row = "live" /\ clients[c].doc = doc
  /\ Arrive(w, [Idle EXCEPT !.step = "list", !.id = c])
  /\ UNCHANGED <<clients, tokens, barred>>

\* The client's orders or vehicles are read and sent.
List(w) ==
  /\ req[w].step = "list"
  /\ Finish(w)
  /\ UNCHANGED <<clients, tokens, barred>>

\* A statement fails or the pod dies.
Interrupt(w) ==
  /\ req[w].step # "idle"
  /\ Finish(w)
  /\ UNCHANGED <<clients, tokens, barred>>

Next ==
  \/ \E w \in Workers :
       \/ Insert(w) \/ Select(w) \/ Update(w) \/ List(w) \/ Interrupt(w)
       \/ \E c \in Clients :
            \/ StartMe(w, c)
            \/ \E n \in Names : StartUpdate(w, c, n)
            \/ \E s \in ClientStatus : StartChangeStatus(w, c, s)
            \/ \E doc \in Documents : \/ StartConsult(w, c, doc)
                                      \/ \E n \in Names : StartRegister(w, c, doc, n)
  \/ \E c \in Clients : Remove(c) \/ IssueToken(c) \/ TokenExpires(c)

Spec == Init /\ [][Next]_vars

-----------------------------------------------------------------------------
TypeOK ==
  /\ clients \in [Clients -> ClientRow]
  /\ tokens \subseteq Clients /\ barred \subseteq Clients
  /\ req \in [Workers -> Request]

\* At most one client that is not deleted has a document, although two
\* registrations can both find it free; a deleted client frees its document,
\* and no save of a stale entity gives it back to the deleted row.
DocumentsAreUnique ==
  \A c, d \in Clients :
    (clients[c].row = "live" /\ clients[d].row = "live" /\ clients[c].doc = clients[d].doc)
      => c = d

\* Deletion is final: no save that was under way brings the row back.
DeletedStaysDeleted ==
  [][\A c \in Clients : clients[c].row = "deleted" => clients'[c].row = "deleted"]_vars

\* "An inactivated or deleted client loses access at once, even within the
\* token's validity": no answer goes to a request that arrived after the admin
\* was told that its client is INATIVO or deleted.
AccessEndsAtOnce == \A w \in Workers : req[w].step = "list" => ~req[w].late
=============================================================================
