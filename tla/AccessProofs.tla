---------------------------- MODULE AccessProofs ----------------------------
(***************************************************************************)
(* Proofs about ClientAccess and Access, for any number of clients,        *)
(* documents, replicas, secrets and requests in flight.  Behind its guards *)
(* the system is still the one of ClientAccess, so that what is proved     *)
(* there holds here.                                                       *)
(***************************************************************************)
EXTENDS Access, TLAPS

-----------------------------------------------------------------------------
(* Documents and deletions.                                                *)

\* A request at work has a client; the one it will insert is nobody else's.
Owned ==
  /\ \A w \in Workers : req[w].step # "idle" => req[w].id \in Clients
  /\ \A w \in Workers : req[w].step = "insert" =>
       /\ clients[req[w].id].row = "absent"
       /\ req[w].entity.row = "live"
       /\ \A v \in Workers \ {w} : req[v].id # req[w].id

IInv == TypeOK /\ Owned /\ DocumentsAreUnique

LEMMA IdleRequest == Idle \in Request
<1>1. AbsentClient \in ClientRow
  BY NameAssumption DEF AbsentClient, NewClient, ClientRow, Presence, ClientStatus
<1> QED
  BY <1>1 DEF Idle, Request, Step

LEMMA InitIInv == Init => IInv
<1> SUFFICES ASSUME Init PROVE IInv
  OBVIOUS
<1>1. AbsentClient \in ClientRow /\ AbsentClient.row = "absent"
  BY NameAssumption DEF AbsentClient, NewClient, ClientRow, Presence, ClientStatus
<1>2. TypeOK
  BY <1>1, IdleRequest DEF Init, TypeOK
<1>3. Owned /\ DocumentsAreUnique
  BY <1>1 DEF Init, Owned, DocumentsAreUnique, Idle
<1> QED
  BY <1>2, <1>3 DEF IInv

\* An arrival writes no client row; what it holds is well typed and owned.
LEMMA Arriving ==
  ASSUME IInv, NEW w \in Workers, NEW r \in Request, Arrive(w, r),
         r.id \in Clients, UNCHANGED <<clients, tokens, barred>>,
         \/ r.step # "insert" /\ clients[r.id].row # "absent"
         \/ /\ clients[r.id].row = "absent" /\ r.entity.row = "live"
            /\ \A v \in Workers : req[v].id # r.id
  PROVE  IInv'
<1>1. req \in [Workers -> Request] /\ req[w].step = "idle" /\ req' = [req EXCEPT ![w] = r]
  BY DEF IInv, TypeOK, Arrive
<1>2. TypeOK'
  BY <1>1 DEF IInv, TypeOK
<1>3. Owned'
  BY <1>1 DEF IInv, Owned
<1>4. DocumentsAreUnique'
  BY DEF IInv, DocumentsAreUnique
<1> QED
  BY <1>2, <1>3, <1>4 DEF IInv

\* A request that ends, or moves on without writing, keeps what it owns.
LEMMA Leaving ==
  ASSUME IInv, NEW w \in Workers, Finish(w), UNCHANGED <<clients, tokens, barred>>
  PROVE  IInv'
<1>1. req \in [Workers -> Request] /\ req' = [req EXCEPT ![w] = Idle]
  BY DEF IInv, TypeOK, Finish
<1>2. TypeOK'
  BY <1>1, IdleRequest DEF IInv, TypeOK
<1>3. Owned'
  <2>1. Idle.step = "idle" /\ Idle.id = NoClient
    BY DEF Idle
  <2> QED
    BY <1>1, <2>1, NoneAssumption DEF IInv, Owned
<1>4. DocumentsAreUnique'
  BY DEF IInv, DocumentsAreUnique
<1> QED
  BY <1>2, <1>3, <1>4 DEF IInv

LEMMA InsertKeeps ==
  ASSUME IInv, NEW w \in Workers, Insert(w) PROVE IInv'
<1> DEFINE c == req[w].id
           e == req[w].entity
<1>1. /\ req \in [Workers -> Request] /\ clients \in [Clients -> ClientRow]
      /\ req[w] \in Request /\ e \in ClientRow
  BY DEF IInv, TypeOK, Request
<1>2. /\ c \in Clients /\ clients[c].row = "absent" /\ e.row = "live"
      /\ \A v \in Workers \ {w} : req[v].id # c
  BY DEF IInv, Owned, Insert
<1>3. CASE Holders(e.doc) = {}
  <2>1. clients' = [clients EXCEPT ![c] = e] /\ req' = [req EXCEPT ![w] = Idle]
    BY <1>3 DEF Insert, Finish
  <2>2. TypeOK'
    BY <1>1, <1>2, <2>1, IdleRequest DEF IInv, TypeOK, Insert
  <2>3. Owned'
    <3>1. Idle.step = "idle" /\ Idle.id = NoClient
      BY DEF Idle
    <3> QED
      BY <1>1, <1>2, <2>1, <3>1, NoneAssumption DEF IInv, Owned
  <2>4. DocumentsAreUnique'
    BY <1>1, <1>2, <1>3, <2>1 DEF IInv, DocumentsAreUnique, Holders
  <2> QED
    BY <2>2, <2>3, <2>4 DEF IInv
<1>4. CASE Holders(e.doc) # {}
  BY <1>4, Leaving DEF Insert
<1> QED
  BY <1>3, <1>4

LEMMA UpdateKeeps ==
  ASSUME IInv, NEW w \in Workers, Update(w)
  PROVE  /\ IInv'
         /\ \A c \in Clients : clients'[c].row = clients[c].row
<1> DEFINE c == req[w].id
           new == Overwrite(clients[c], req[w].entity, req[w].dirty)
<1>1. /\ req \in [Workers -> Request] /\ clients \in [Clients -> ClientRow]
      /\ req[w] \in Request /\ req[w].entity \in ClientRow
  BY DEF IInv, TypeOK, Request
<1>2. c \in Clients
  BY DEF IInv, Owned, Update
<1>3. new \in ClientRow /\ new.row = clients[c].row /\ new.doc = clients[c].doc
  BY <1>1, <1>2 DEF Overwrite, ClientRow
<1>4. clients' = [clients EXCEPT ![c] = new] /\ req' = [req EXCEPT ![w] = Idle]
  BY DEF Update, Finish
<1>5. \A d \in Clients : clients'[d].row = clients[d].row /\ clients'[d].doc = clients[d].doc
  BY <1>1, <1>2, <1>3, <1>4
<1>6. TypeOK'
  BY <1>1, <1>2, <1>3, <1>4, IdleRequest DEF IInv, TypeOK, Update
<1>7. Owned'
  <2>1. Idle.step = "idle" /\ Idle.id = NoClient
    BY DEF Idle
  <2> QED
    BY <1>1, <1>4, <1>5, <2>1, NoneAssumption DEF IInv, Owned
<1>8. DocumentsAreUnique'
  BY <1>5 DEF IInv, DocumentsAreUnique
<1> QED
  BY <1>5, <1>6, <1>7, <1>8 DEF IInv

LEMMA SelectKeeps ==
  ASSUME IInv, NEW w \in Workers, Select(w) PROVE IInv'
<1>1. req \in [Workers -> Request]
  BY DEF IInv, TypeOK
<1>2. /\ req'[w].step = "update" /\ req'[w].id = req[w].id
      /\ req' \in [Workers -> Request]
      /\ \A v \in Workers \ {w} : req'[v] = req[v]
  <2> DEFINE differing == {c \in Column : clients[req[w].id][c] # req[w].entity[c]}
  <2>1. req' = [req EXCEPT ![w].dirty = differing, ![w].step = "update"]
    BY Zenon DEF Select
  <2>2. differing \in SUBSET Column
    OBVIOUS
  <2> HIDE DEF differing
  <2>3. [req[w] EXCEPT !.dirty = differing, !.step = "update"] \in Request
    BY <1>1, <2>2 DEF Request, Step
  <2> QED
    BY <1>1, <2>1, <2>3
<1>3. TypeOK'
  BY <1>2 DEF IInv, TypeOK, Select
<1>4. Owned'
  <2>1. req[w].step = "select" /\ UNCHANGED clients
    BY DEF Select
  <2>2. /\ \A v \in Workers : req'[v].id = req[v].id
        /\ \A v \in Workers : req'[v].step # "idle" => req[v].step # "idle"
    BY <1>2, <2>1
  <2>3. \A v \in Workers : req'[v].step = "insert" =>
          req[v].step = "insert" /\ req'[v].entity = req[v].entity
    BY <1>2
  <2> QED
    BY <2>1, <2>2, <2>3 DEF IInv, Owned
<1>5. DocumentsAreUnique'
  BY DEF IInv, DocumentsAreUnique, Select
<1> QED
  BY <1>3, <1>4, <1>5 DEF IInv

LEMMA RemoveKeeps ==
  ASSUME IInv, NEW c \in Clients, Remove(c) PROVE IInv'
<1>1. clients \in [Clients -> ClientRow]
  BY DEF IInv, TypeOK
<1>2. /\ clients[c].row = "live" /\ clients'[c].row = "deleted"
      /\ clients' \in [Clients -> ClientRow]
      /\ \A d \in Clients \ {c} : clients'[d] = clients[d]
  BY <1>1 DEF Remove, ClientRow, Presence
<1>3. TypeOK'
  BY <1>2 DEF IInv, TypeOK, Remove
<1>4. Owned'
  BY <1>2 DEF IInv, Owned, Remove
<1>5. DocumentsAreUnique'
  BY <1>2 DEF IInv, DocumentsAreUnique
<1> QED
  BY <1>3, <1>4, <1>5 DEF IInv

\* The five ways a request arrives.
LEMMA ArrivalKeeps ==
  ASSUME IInv, NEW w \in Workers, NEW c \in Clients,
         \/ StartMe(w, c)
         \/ \E n \in Names : StartUpdate(w, c, n)
         \/ \E s \in ClientStatus : StartChangeStatus(w, c, s)
         \/ \E doc \in Documents : \/ StartConsult(w, c, doc)
                                   \/ \E n \in Names : StartRegister(w, c, doc, n)
  PROVE  IInv'
<1>1. clients[c] \in ClientRow /\ Idle \in Request
  BY IdleRequest DEF IInv, TypeOK
<1>2. CASE StartMe(w, c)
  <2> DEFINE r == [Idle EXCEPT !.step = "list", !.id = c, !.late = c \in barred]
  <2>1. r \in Request /\ r.id = c /\ r.step = "list"
    <3>1. \A l \in BOOLEAN :
            LET q == [Idle EXCEPT !.step = "list", !.id = c, !.late = l]
            IN  q \in Request /\ q.id = c /\ q.step = "list"
      BY <1>1 DEF Request, Step
    <3>2. (c \in barred) \in BOOLEAN
      OBVIOUS
    <3> QED
      BY <3>1, <3>2, Zenon
  <2> QED
    BY <1>2, <2>1, Arriving DEF StartMe, ActiveClientId, IsActive
<1>3. ASSUME NEW n \in Names, StartUpdate(w, c, n) PROVE IInv'
  <2> DEFINE e == [clients[c] EXCEPT !.name = n]
             r == [Idle EXCEPT !.step = "select", !.id = c, !.entity = e]
  <2>1. e \in ClientRow
    BY <1>1 DEF ClientRow
  <2>2. r \in Request /\ r.id = c /\ r.step = "select"
    BY <1>1, <2>1 DEF Request, Step
  <2> QED
    BY <1>3, <2>2, Arriving DEF StartUpdate
<1>4. ASSUME NEW s \in ClientStatus, StartChangeStatus(w, c, s) PROVE IInv'
  <2> DEFINE e == [clients[c] EXCEPT !.status = s]
             r == [Idle EXCEPT !.step = "select", !.id = c, !.changesStatus = TRUE, !.entity = e]
  <2>1. e \in ClientRow
    BY <1>1 DEF ClientRow
  <2>2. r \in Request /\ r.id = c /\ r.step = "select"
    BY <1>1, <2>1 DEF Request, Step
  <2> QED
    BY <1>4, <2>2, Arriving DEF StartChangeStatus
<1>5. ASSUME NEW doc \in Documents, NEW n \in Names, StartRegister(w, c, doc, n) PROVE IInv'
  <2> DEFINE e == NewClient(doc, n)
             r == [Idle EXCEPT !.step = "insert", !.id = c, !.entity = e]
  <2>1. e \in ClientRow /\ e.row = "live"
    BY DEF NewClient, ClientRow, Presence, ClientStatus
  <2>2. r \in Request /\ r.id = c /\ r.step = "insert" /\ r.entity = e
    BY <1>1, <2>1 DEF Request, Step
  <2> QED
    BY <1>5, <2>1, <2>2, Arriving DEF StartRegister
<1>6. ASSUME NEW doc \in Documents, StartConsult(w, c, doc) PROVE IInv'
  <2> DEFINE r == [Idle EXCEPT !.step = "list", !.id = c]
  <2>1. r \in Request /\ r.id = c /\ r.step = "list"
    BY <1>1, <1>6 DEF Request, Step, StartConsult
  <2> QED
    BY <1>6, <2>1, Arriving DEF StartConsult
<1> QED
  BY <1>2, <1>3, <1>4, <1>5, <1>6

LEMMA StepKeeps == IInv /\ [Next]_vars => IInv'
<1> SUFFICES ASSUME IInv, [Next]_vars PROVE IInv'
  OBVIOUS
<1>1. ASSUME NEW w \in Workers, Insert(w) PROVE IInv'
  BY <1>1, InsertKeeps
<1>2. ASSUME NEW w \in Workers, Select(w) PROVE IInv'
  BY <1>2, SelectKeeps
<1>3. ASSUME NEW w \in Workers, Update(w) PROVE IInv'
  BY <1>3, UpdateKeeps
<1>4. ASSUME NEW w \in Workers, List(w) \/ Interrupt(w) PROVE IInv'
  BY <1>4, Leaving DEF List, Interrupt
<1>5. ASSUME NEW w \in Workers, NEW c \in Clients,
             \/ StartMe(w, c)
             \/ \E n \in Names : StartUpdate(w, c, n)
             \/ \E s \in ClientStatus : StartChangeStatus(w, c, s)
             \/ \E doc \in Documents : \/ StartConsult(w, c, doc)
                                       \/ \E n \in Names : StartRegister(w, c, doc, n)
      PROVE  IInv'
  BY <1>5, ArrivalKeeps
<1>6. ASSUME NEW c \in Clients, Remove(c) PROVE IInv'
  BY <1>6, RemoveKeeps
<1>7. ASSUME NEW c \in Clients, IssueToken(c) \/ TokenExpires(c) PROVE IInv'
  BY <1>7 DEF IssueToken, TokenExpires, IInv, TypeOK, Owned, DocumentsAreUnique
<1>8. CASE UNCHANGED vars
  BY <1>8 DEF vars, IInv, TypeOK, Owned, DocumentsAreUnique
<1> QED
  BY <1>1, <1>2, <1>3, <1>4, <1>5, <1>6, <1>7, <1>8 DEF Next

LEMMA Invariance == Spec => []IInv
  BY InitIInv, StepKeeps, PTL DEF Spec

\* The documents of live clients differ, for any number of concurrent
\* registrations, edits and deletions.
THEOREM DocumentsSafe == Spec => []DocumentsAreUnique
<1>1. IInv => DocumentsAreUnique
  BY DEF IInv
<1> QED
  BY <1>1, Invariance, PTL

\* No statement of any request brings a deleted client back.
THEOREM DeletionsStand == Spec => DeletedStaysDeleted
<1> DEFINE Stays == \A c \in Clients : clients[c].row = "deleted" => clients'[c].row = "deleted"
<1>1. IInv /\ [Next]_vars => [Stays]_vars
  <2> SUFFICES ASSUME IInv, Next PROVE Stays
    OBVIOUS
  <2>1. ASSUME NEW w \in Workers, Insert(w) PROVE Stays
    <3>1. /\ clients \in [Clients -> ClientRow]
          /\ req[w].id \in Clients /\ clients[req[w].id].row = "absent"
      BY <2>1 DEF IInv, TypeOK, Owned, Insert
    <3>2. clients' \in {clients, [clients EXCEPT ![req[w].id] = req[w].entity]}
      BY <2>1 DEF Insert
    <3> QED
      BY <3>1, <3>2
  <2>2. ASSUME NEW w \in Workers, Update(w) PROVE Stays
    BY <2>2, UpdateKeeps
  <2>3. ASSUME NEW c \in Clients, Remove(c) PROVE Stays
    BY <2>3 DEF Remove, IInv, TypeOK
  <2>4. CASE clients' = clients
    BY <2>4
  <2> QED
    BY <2>1, <2>2, <2>3, <2>4
       DEF Next, Select, List, Interrupt, StartMe, StartUpdate, StartChangeStatus,
           StartConsult, StartRegister, IssueToken, TokenExpires
<1> QED
  BY <1>1, Invariance, PTL DEF Spec, DeletedStaysDeleted

-----------------------------------------------------------------------------
(* Access ends at once.  Two admins editing one client at the same time     *)
(* break this (the run race_access), so the hypothesis is one editor.       *)

OneEditor == \A v, w \in Editors : v = w

Editing(r) == r.step \in {"select", "update"}

\* The entity of an edit has the status of its row, unless it is to change it;
\* a status its UPDATE leaves out is the row's already.
EditsAreCurrent ==
  \A w \in Workers : Editing(req[w]) =>
    /\ w \in Editors
    /\ clients[req[w].id].row # "absent"
    /\ ~req[w].changesStatus => req[w].entity.status = clients[req[w].id].status
    /\ req[w].step = "update" /\ "status" \notin req[w].dirty =>
         req[w].entity.status = clients[req[w].id].status

BarredAreInactive ==
  \A c \in barred : clients[c].row # "absent" /\ ~IsActive(c)

EditorInv == IInv /\ EditsAreCurrent /\ BarredAreInactive /\ AccessEndsAtOnce

LEMMA InitEditorInv == Init => EditorInv
  BY InitIInv DEF Init, EditorInv, EditsAreCurrent, BarredAreInactive, AccessEndsAtOnce,
                  Editing, Idle

\* What the table of clients and the other requests look like to a new request.
LEMMA ArrivingEditor ==
  ASSUME EditorInv, NEW w \in Workers, NEW r \in Request, Arrive(w, r),
         UNCHANGED <<clients, tokens, barred>>,
         r.step = "list" => ~r.late,
         Editing(r) =>
           /\ w \in Editors /\ clients[r.id].row # "absent" /\ r.step = "select"
           /\ ~r.changesStatus => r.entity.status = clients[r.id].status
  PROVE  (EditsAreCurrent /\ BarredAreInactive /\ AccessEndsAtOnce)'
<1>1. req'[w] = r /\ \A v \in Workers \ {w} : req'[v] = req[v]
  BY DEF EditorInv, IInv, TypeOK, Arrive
<1>2. EditsAreCurrent'
  BY <1>1 DEF EditorInv, EditsAreCurrent, Editing
<1>3. BarredAreInactive' /\ AccessEndsAtOnce'
  BY <1>1 DEF EditorInv, BarredAreInactive, IsActive, AccessEndsAtOnce
<1> QED
  BY <1>2, <1>3

LEMMA ArrivalIsCurrent ==
  ASSUME EditorInv, NEW w \in Workers, NEW c \in Clients,
         \/ StartMe(w, c)
         \/ \E n \in Names : StartUpdate(w, c, n)
         \/ \E s \in ClientStatus : StartChangeStatus(w, c, s)
         \/ \E doc \in Documents : \/ StartConsult(w, c, doc)
                                   \/ \E n \in Names : StartRegister(w, c, doc, n)
  PROVE  (EditsAreCurrent /\ BarredAreInactive /\ AccessEndsAtOnce)'
<1>1. clients[c] \in ClientRow /\ Idle \in Request
  BY IdleRequest DEF EditorInv, IInv, TypeOK
<1>2. CASE StartMe(w, c)
  <2>1. (c \in barred) = FALSE
    BY <1>2 DEF StartMe, ActiveClientId, EditorInv, BarredAreInactive
  <2> DEFINE r == [Idle EXCEPT !.step = "list", !.id = c, !.late = FALSE]
  <2>2. Arrive(w, r) /\ UNCHANGED <<clients, tokens, barred>>
    BY <1>2, <2>1 DEF StartMe, Arrive
  <2>3. r \in Request /\ r.step = "list" /\ ~r.late
    BY <1>1 DEF Request, Step
  <2> QED
    BY <2>2, <2>3, ArrivingEditor DEF Editing
<1>3. ASSUME NEW n \in Names, StartUpdate(w, c, n)
      PROVE  (EditsAreCurrent /\ BarredAreInactive /\ AccessEndsAtOnce)'
  <2> DEFINE e == [clients[c] EXCEPT !.name = n]
             r == [Idle EXCEPT !.step = "select", !.id = c, !.entity = e]
  <2>1. e \in ClientRow /\ e.status = clients[c].status
    BY <1>1 DEF ClientRow
  <2>2. r \in Request /\ r.id = c /\ r.step = "select" /\ r.entity = e
    BY <1>1, <2>1 DEF Request, Step
  <2>3. w \in Editors /\ clients[c].row # "absent" /\ Arrive(w, r)
        /\ UNCHANGED <<clients, tokens, barred>>
    BY <1>3 DEF StartUpdate
  <2> QED
    BY <2>1, <2>2, <2>3, ArrivingEditor
<1>4. ASSUME NEW s \in ClientStatus, StartChangeStatus(w, c, s)
      PROVE  (EditsAreCurrent /\ BarredAreInactive /\ AccessEndsAtOnce)'
  <2> DEFINE e == [clients[c] EXCEPT !.status = s]
             r == [Idle EXCEPT !.step = "select", !.id = c, !.changesStatus = TRUE, !.entity = e]
  <2>1. e \in ClientRow
    BY <1>1 DEF ClientRow
  <2>2. r \in Request /\ r.id = c /\ r.step = "select" /\ r.changesStatus
    BY <1>1, <2>1 DEF Request, Step
  <2>3. w \in Editors /\ clients[c].row # "absent" /\ Arrive(w, r)
        /\ UNCHANGED <<clients, tokens, barred>>
    BY <1>4 DEF StartChangeStatus
  <2> QED
    BY <2>2, <2>3, ArrivingEditor
<1>5. ASSUME NEW doc \in Documents, NEW n \in Names, StartRegister(w, c, doc, n)
      PROVE  (EditsAreCurrent /\ BarredAreInactive /\ AccessEndsAtOnce)'
  <2> DEFINE e == NewClient(doc, n)
             r == [Idle EXCEPT !.step = "insert", !.id = c, !.entity = e]
  <2>1. e \in ClientRow
    BY DEF NewClient, ClientRow, Presence, ClientStatus
  <2>2. r \in Request /\ r.step = "insert"
    BY <1>1, <2>1 DEF Request, Step
  <2> QED
    BY <1>5, <2>2, ArrivingEditor DEF StartRegister, Editing
<1>6. ASSUME NEW doc \in Documents, StartConsult(w, c, doc)
      PROVE  (EditsAreCurrent /\ BarredAreInactive /\ AccessEndsAtOnce)'
  <2> DEFINE r == [Idle EXCEPT !.step = "list", !.id = c]
  <2>1. Arrive(w, r) /\ UNCHANGED <<clients, tokens, barred>>
    BY <1>6 DEF StartConsult
  <2>2. r \in Request /\ r.step = "list" /\ ~r.late
    BY <1>1 DEF Request, Step, Idle
  <2> QED
    BY <2>1, <2>2, ArrivingEditor DEF Editing
<1> QED
  BY <1>2, <1>3, <1>4, <1>5, <1>6

\* An insert fills an absent row, that no edit and no bar is about.
LEMMA InsertIsCurrent ==
  ASSUME EditorInv, NEW w \in Workers, Insert(w)
  PROVE  (EditsAreCurrent /\ BarredAreInactive /\ AccessEndsAtOnce)'
<1>1. /\ req \in [Workers -> Request] /\ clients \in [Clients -> ClientRow]
      /\ req' = [req EXCEPT ![w] = Idle] /\ UNCHANGED barred
      /\ req[w].id \in Clients /\ clients[req[w].id].row = "absent"
  BY DEF EditorInv, IInv, TypeOK, Owned, Insert, Finish
<1>2. \A c \in Clients : clients[c].row # "absent" => clients'[c] = clients[c]
  BY <1>1 DEF Insert
<1>3. req'[w].step = "idle" /\ \A v \in Workers \ {w} : req'[v] = req[v]
  BY <1>1 DEF Idle
<1>4. \A v \in Workers : req[v].step # "idle" => req[v].id \in Clients
  BY DEF EditorInv, IInv, Owned
<1>5. barred \subseteq Clients
  BY DEF EditorInv, IInv, TypeOK
<1>6. EditsAreCurrent'
  BY <1>2, <1>3, <1>4 DEF EditorInv, EditsAreCurrent, Editing
<1>7. BarredAreInactive' /\ AccessEndsAtOnce'
  BY <1>1, <1>2, <1>3, <1>5 DEF EditorInv, BarredAreInactive, IsActive, AccessEndsAtOnce
<1> QED
  BY <1>6, <1>7

\* The SELECT leaves out the status only where the row has the entity's.
LEMMA SelectIsCurrent ==
  ASSUME EditorInv, NEW w \in Workers, Select(w)
  PROVE  (EditsAreCurrent /\ BarredAreInactive /\ AccessEndsAtOnce)'
<1> DEFINE differing == {c \in Column : clients[req[w].id][c] # req[w].entity[c]}
<1>1. /\ req[w].step = "select" /\ UNCHANGED <<clients, barred>>
      /\ req' = [req EXCEPT ![w].dirty = differing, ![w].step = "update"]
  BY Zenon DEF Select
<1>2. "status" \notin differing => req[w].entity.status = clients[req[w].id].status
  BY DEF Column
<1> HIDE DEF differing
<1>3. req \in [Workers -> Request]
  BY DEF EditorInv, IInv, TypeOK
<1>4. /\ req'[w].step = "update" /\ req'[w].dirty = differing /\ req'[w].id = req[w].id
      /\ req'[w].entity = req[w].entity /\ req'[w].changesStatus = req[w].changesStatus
      /\ \A v \in Workers \ {w} : req'[v] = req[v]
  <2> DEFINE r == [req[w] EXCEPT !.dirty = differing, !.step = "update"]
  <2>1. /\ r.step = "update" /\ r.dirty = differing /\ r.id = req[w].id
        /\ r.entity = req[w].entity /\ r.changesStatus = req[w].changesStatus
    BY <1>3 DEF Request
  <2>2. req' = [req EXCEPT ![w] = r]
    BY <1>1, <1>3
  <2> HIDE DEF r
  <2> QED
    BY <1>3, <2>1, <2>2
<1>5. EditsAreCurrent'
  <2>1. /\ w \in Editors /\ clients[req[w].id].row # "absent"
        /\ ~req[w].changesStatus => req[w].entity.status = clients[req[w].id].status
    BY <1>1 DEF EditorInv, EditsAreCurrent, Editing
  <2>2. \A v \in Workers \ {w} : Editing(req[v]) =>
          /\ v \in Editors
          /\ clients[req[v].id].row # "absent"
          /\ ~req[v].changesStatus => req[v].entity.status = clients[req[v].id].status
          /\ req[v].step = "update" /\ "status" \notin req[v].dirty =>
               req[v].entity.status = clients[req[v].id].status
    BY DEF EditorInv, EditsAreCurrent
  <2>3. /\ ~req'[w].changesStatus => req'[w].entity.status = clients'[req'[w].id].status
        /\ "status" \notin req'[w].dirty =>
             req'[w].entity.status = clients'[req'[w].id].status
        /\ clients'[req'[w].id].row # "absent"
    BY <1>1, <1>2, <1>4, <2>1
  <2>4. \A v \in Workers \ {w} : req'[v] = req[v] /\ UNCHANGED clients
    BY <1>1, <1>4
  <2> QED
    BY <2>1, <2>2, <2>3, <2>4 DEF EditsAreCurrent, Editing
<1>6. BarredAreInactive' /\ AccessEndsAtOnce'
  BY <1>1, <1>4 DEF EditorInv, BarredAreInactive, IsActive, AccessEndsAtOnce
<1> QED
  BY <1>5, <1>6

\* The UPDATE of the one editor leaves its row with the status of the entity.
LEMMA UpdateIsCurrent ==
  ASSUME OneEditor, EditorInv, NEW w \in Workers, Update(w)
  PROVE  (EditsAreCurrent /\ BarredAreInactive /\ AccessEndsAtOnce)'
<1> DEFINE c == req[w].id
           new == Overwrite(clients[c], req[w].entity, req[w].dirty)
<1>1. /\ req \in [Workers -> Request] /\ clients \in [Clients -> ClientRow]
      /\ req[w] \in Request /\ req[w].entity \in ClientRow /\ barred \subseteq Clients
  BY DEF EditorInv, IInv, TypeOK, Request
<1>2. c \in Clients /\ req[w].step = "update" /\ w \in Editors
      /\ clients[c].row # "absent"
  BY DEF EditorInv, IInv, Owned, EditsAreCurrent, Editing, Update
<1>3. /\ ~req[w].changesStatus => req[w].entity.status = clients[c].status
      /\ "status" \notin req[w].dirty => req[w].entity.status = clients[c].status
  BY <1>2 DEF EditorInv, EditsAreCurrent, Editing
<1>4. new.row = clients[c].row /\ new.status = req[w].entity.status
  BY <1>1, <1>2, <1>3 DEF Overwrite, ClientRow
<1>5. clients' = [clients EXCEPT ![c] = new] /\ req' = [req EXCEPT ![w] = Idle]
  BY DEF Update, Finish
<1> HIDE DEF new
<1>6. /\ clients'[c] = new /\ \A d \in Clients \ {c} : clients'[d] = clients[d]
      /\ req'[w].step = "idle" /\ \A v \in Workers \ {w} : req'[v] = req[v]
  BY <1>1, <1>2, <1>5 DEF Idle
<1>7. EditsAreCurrent'
  BY <1>2, <1>6 DEF OneEditor, EditorInv, EditsAreCurrent, Editing
<1>8. AccessEndsAtOnce'
  BY <1>6 DEF EditorInv, AccessEndsAtOnce
<1>9. BarredAreInactive'
  <2>1. \A d \in Clients \ {c} : d \in barred' => d \in barred
    BY DEF Update
  <2>2. \A d \in Clients \ {c} : d \in barred' =>
         clients'[d].row # "absent"
         /\ ~(clients'[d].row = "live" /\ clients'[d].status = "ATIVO")
    BY <1>6, <2>1 DEF EditorInv, BarredAreInactive, IsActive
  <2>3. c \in barred' =>
         clients'[c].row # "absent"
         /\ ~(clients'[c].row = "live" /\ clients'[c].status = "ATIVO")
    <3>1. CASE ~req[w].changesStatus
      BY <1>2, <1>3, <1>4, <1>6, <3>1 DEF Update, EditorInv, BarredAreInactive, IsActive
    <3>2. CASE req[w].changesStatus /\ req[w].entity.status = "INATIVO"
      BY <1>2, <1>4, <1>6, <3>2
    <3>3. CASE req[w].changesStatus /\ req[w].entity.status # "INATIVO"
      BY <3>3 DEF Update
    <3> QED
      BY <3>1, <3>2, <3>3
  <2>4. barred' \subseteq Clients
    BY <1>1, <1>2 DEF Update
  <2> QED
    BY <2>2, <2>3, <2>4 DEF BarredAreInactive, IsActive
<1> QED
  BY <1>7, <1>8, <1>9

LEMMA RemoveIsCurrent ==
  ASSUME EditorInv, NEW c \in Clients, Remove(c)
  PROVE  (EditsAreCurrent /\ BarredAreInactive /\ AccessEndsAtOnce)'
<1>1. clients \in [Clients -> ClientRow] /\ barred \subseteq Clients
  BY DEF EditorInv, IInv, TypeOK
<1>2. /\ clients'[c].row = "deleted" /\ clients'[c].status = clients[c].status
      /\ \A d \in Clients \ {c} : clients'[d] = clients[d]
      /\ UNCHANGED req /\ barred' = barred \union {c}
  BY <1>1 DEF Remove, ClientRow
<1>3. \A v \in Workers : req[v].step # "idle" => req[v].id \in Clients
  BY DEF EditorInv, IInv, Owned
<1>4. EditsAreCurrent'
  BY <1>2, <1>3 DEF EditorInv, EditsAreCurrent, Editing
<1>5. BarredAreInactive' /\ AccessEndsAtOnce'
  BY <1>1, <1>2 DEF EditorInv, BarredAreInactive, IsActive, AccessEndsAtOnce
<1> QED
  BY <1>4, <1>5

LEMMA LeavingIsCurrent ==
  ASSUME EditorInv, NEW w \in Workers, Finish(w), UNCHANGED <<clients, tokens, barred>>
  PROVE  (EditsAreCurrent /\ BarredAreInactive /\ AccessEndsAtOnce)'
<1>1. req'[w].step = "idle" /\ \A v \in Workers \ {w} : req'[v] = req[v]
  BY DEF EditorInv, IInv, TypeOK, Finish, Idle
<1>2. EditsAreCurrent'
  BY <1>1 DEF EditorInv, EditsAreCurrent, Editing
<1>3. BarredAreInactive' /\ AccessEndsAtOnce'
  BY <1>1 DEF EditorInv, BarredAreInactive, IsActive, AccessEndsAtOnce
<1> QED
  BY <1>2, <1>3

LEMMA EditorStep == OneEditor /\ EditorInv /\ [Next]_vars => EditorInv'
<1> SUFFICES ASSUME OneEditor, EditorInv, [Next]_vars PROVE EditorInv'
  OBVIOUS
<1> DEFINE Goal == EditsAreCurrent /\ BarredAreInactive /\ AccessEndsAtOnce
<1>1. ASSUME NEW w \in Workers, Insert(w) PROVE Goal'
  BY <1>1, InsertIsCurrent
<1>2. ASSUME NEW w \in Workers, Select(w) PROVE Goal'
  BY <1>2, SelectIsCurrent
<1>3. ASSUME NEW w \in Workers, Update(w) PROVE Goal'
  BY <1>3, UpdateIsCurrent
<1>4. ASSUME NEW w \in Workers, List(w) \/ Interrupt(w) PROVE Goal'
  BY <1>4, LeavingIsCurrent DEF List, Interrupt
<1>5. ASSUME NEW w \in Workers, NEW c \in Clients,
             \/ StartMe(w, c)
             \/ \E n \in Names : StartUpdate(w, c, n)
             \/ \E s \in ClientStatus : StartChangeStatus(w, c, s)
             \/ \E doc \in Documents : \/ StartConsult(w, c, doc)
                                       \/ \E n \in Names : StartRegister(w, c, doc, n)
      PROVE  Goal'
  BY <1>5, ArrivalIsCurrent
<1>6. ASSUME NEW c \in Clients, Remove(c) PROVE Goal'
  BY <1>6, RemoveIsCurrent
<1>7. ASSUME UNCHANGED <<clients, req, barred>> PROVE Goal'
  <2>1. EditsAreCurrent'
    BY <1>7 DEF EditorInv, EditsAreCurrent, Editing
  <2>2. BarredAreInactive' /\ AccessEndsAtOnce'
    BY <1>7 DEF EditorInv, BarredAreInactive, IsActive, AccessEndsAtOnce
  <2> QED
    BY <2>1, <2>2
<1>8. IInv'
  BY StepKeeps DEF EditorInv
<1> HIDE DEF Goal
<1>9. ASSUME NEW c \in Clients, IssueToken(c) \/ TokenExpires(c) PROVE Goal'
  BY <1>7, <1>9 DEF IssueToken, TokenExpires
<1>10. ASSUME UNCHANGED vars PROVE Goal'
  BY <1>7, <1>10 DEF vars
<1>11. Goal'
  BY <1>1, <1>2, <1>3, <1>4, <1>5, <1>6, <1>9, <1>10 DEF Next
<1> QED
  BY <1>8, <1>11 DEF EditorInv, Goal

\* With one admin editing at a time, whatever else is in flight, no answer of
\* /me goes to a request that arrived after its client was barred.
THEOREM AccessEnds == ASSUME OneEditor PROVE Spec => []AccessEndsAtOnce
<1>1. EditorInv /\ [Next]_vars => EditorInv'
  BY EditorStep
<1>2. EditorInv => AccessEndsAtOnce
  BY DEF EditorInv
<1> QED
  BY InitEditorInv, <1>1, <1>2, PTL DEF Spec

-----------------------------------------------------------------------------
(* Behind the guards.                                                      *)

LEMMA InitRefines == AccessInit => Init
BY DEF AccessInit

LEMMA StepRefines == [AccessNext]_<<vars, avars>> => [Next]_vars
<1> SUFFICES ASSUME [AccessNext]_<<vars, avars>> PROVE [Next]_vars
  OBVIOUS
<1>1. ASSUME NEW name \in {"jwt", "webhook"}, Rotate(name) PROVE [Next]_vars
  BY <1>1 DEF Rotate
<1>2. CASE TellPartner \/ ColdStart \/ AdminTokenExpires
  BY <1>2 DEF TellPartner, ColdStart, AdminTokenExpires
<1>3. ASSUME NEW p \in Pods, Boot(p) \/ Stop(p) \/ Login(p) PROVE [Next]_vars
  BY <1>3 DEF Boot, Stop, Login
<1>4. ASSUME NEW w \in Workers, Proceed(w) PROVE [Next]_vars
  BY <1>4 DEF Proceed, Next
<1>5. ASSUME NEW c \in Clients, SignClient(c) \/ ClientTokenExpires(c) PROVE [Next]_vars
  BY <1>5 DEF SignClient, ClientTokenExpires, Next
<1>6. ASSUME NEW c \in Clients, NEW w \in Workers, Administrate(w, c) PROVE [Next]_vars
  BY <1>6 DEF Administrate, Next
<1>7. ASSUME NEW c \in Clients, NEW w \in Workers, Consult(w, c) \/ Me(w, c) PROVE [Next]_vars
  BY <1>7 DEF Consult, Me, Next
<1>8. CASE UNCHANGED <<vars, avars>>
  BY <1>8
<1> QED
  BY <1>1, <1>2, <1>3, <1>4, <1>5, <1>6, <1>7, <1>8 DEF AccessNext

\* Guards, secrets and replicas only restrict who starts a request: every
\* behaviour behind them is a behaviour of ClientAccess.
THEOREM AccessRefines == AccessSpec => Spec
BY InitRefines, StepRefines, PTL DEF AccessSpec, Spec

\* The documents of live clients differ, whoever the guards let in.
THEOREM DocumentsSafeBehindGuards == AccessSpec => []DocumentsAreUnique
BY AccessRefines, DocumentsSafe, PTL

\* No statement of a request that was admitted brings a deleted client back.
THEOREM DeletionsStandBehindGuards == AccessSpec => DeletedStaysDeleted
BY AccessRefines, DeletionsStand, PTL

\* Access ends at once, whoever the guards let in.
THEOREM AccessEndsBehindGuards == ASSUME OneEditor PROVE AccessSpec => []AccessEndsAtOnce
BY AccessRefines, AccessEnds, PTL

-----------------------------------------------------------------------------
(* Access by role.                                                         *)

\* The secrets are typed; a replica that is up has a JWT secret.
SecretsTypeOK ==
  /\ env \in [jwt : Secret, webhook : Secret]
  /\ pod \in [Pods -> [up : BOOLEAN, jwt : Secret, webhook : Secret]]
  /\ lambda \in Secret /\ adminKey \in Secret /\ partner \in Secret
  /\ signed \in [Clients -> Secret]

BootedHasSecret == \A p \in Pods : pod[p].up => pod[p].jwt # 0

SecretInv == SecretsTypeOK /\ BootedHasSecret

LEMMA InitSecretInv == AccessInit => SecretInv
<1> SUFFICES ASSUME AccessInit PROVE SecretInv
  OBVIOUS
<1>1. 0 \in Secret
  BY SecretAssumption DEF Secret
<1> QED
  BY <1>1 DEF AccessInit, SecretInv, SecretsTypeOK, BootedHasSecret

LEMMA StepSecretInv == SecretInv /\ [AccessNext]_<<vars, avars>> => SecretInv'
<1> SUFFICES ASSUME SecretInv, [AccessNext]_<<vars, avars>> PROVE SecretInv'
  OBVIOUS
<1> USE DEF SecretInv, SecretsTypeOK, BootedHasSecret
<1>1. ASSUME NEW name \in {"jwt", "webhook"}, Rotate(name) PROVE SecretInv'
  <2>1. env[name] + 1 \in Secret
    BY <1>1, SecretAssumption DEF Rotate, Secret
  <2>2. env' = [env EXCEPT ![name] = env[name] + 1]
    BY <1>1 DEF Rotate
  <2>3. env' \in [jwt : Secret, webhook : Secret]
    BY <2>1, <2>2
  <2> QED
    BY <1>1, <2>3 DEF Rotate
<1>2. CASE TellPartner \/ ColdStart \/ AdminTokenExpires
  <2>1. 0 \in Secret
    BY SecretAssumption DEF Secret
  <2> QED
    BY <1>2, <2>1 DEF TellPartner, ColdStart, AdminTokenExpires
<1>3. ASSUME NEW p \in Pods, Boot(p) PROVE SecretInv'
  BY <1>3 DEF Boot, Resolves
<1>4. ASSUME NEW p \in Pods, Stop(p) PROVE SecretInv'
  BY <1>4 DEF Stop
<1>5. ASSUME NEW p \in Pods, Login(p) PROVE SecretInv'
  BY <1>5 DEF Login
<1>6. ASSUME NEW w \in Workers, Proceed(w) PROVE SecretInv'
  BY <1>6 DEF Proceed, avars
<1>7. ASSUME NEW c \in Clients, SignClient(c) PROVE SecretInv'
  BY <1>7 DEF SignClient
<1>8. ASSUME NEW c \in Clients, ClientTokenExpires(c) PROVE SecretInv'
  <2>1. 0 \in Secret
    BY SecretAssumption DEF Secret
  <2> QED
    BY <1>8, <2>1 DEF ClientTokenExpires
<1>9. ASSUME NEW c \in Clients, NEW w \in Workers,
             Administrate(w, c) \/ Consult(w, c) \/ Me(w, c)
      PROVE  SecretInv'
  BY <1>9 DEF Administrate, Consult, Me, avars
<1>10. CASE UNCHANGED <<vars, avars>>
  BY <1>10 DEF avars
<1> QED
  BY <1>1, <1>2, <1>3, <1>4, <1>5, <1>6, <1>7, <1>8, <1>9, <1>10 DEF AccessNext

\* The four kinds of route.
Open(r) ==
  /\ r.guards \subseteq {"RateLimitGuard"} /\ r.roles = {}
  /\ r.class \in {"health", "consult"} \/ (r.class = "auth" /\ r.handler = "login")

ForPartners(r) ==
  /\ r.guards = {"WebhookAuthGuard"} /\ r.roles = {}
  /\ r.class \in {"webhooks/service-orders", "webhooks/budgets"} /\ r.handler # "login"

ForClients(r) ==
  /\ r.guards = {"JwtAuthGuard", "RolesGuard"} /\ r.roles = {"client"}
  /\ r.class = "me" /\ r.handler # "login"

ForAdmin(r) ==
  /\ r.guards = {"JwtAuthGuard", "RolesGuard"} /\ r.roles = {"admin"}
  /\ r.class \notin {"health", "consult", "me", "webhooks/service-orders", "webhooks/budgets"}
  /\ r.handler # "login"

LEMMA RouteFields ==
  ASSUME NEW class, NEW guards, NEW roles, NEW handlers,
         NEW r \in Routes(class, guards, roles, handlers)
  PROVE  /\ r.class = class /\ r.guards = guards /\ r.roles = roles
         /\ r.handler \in handlers
BY DEF Routes

LEMMA RouteKinds ==
  ASSUME NEW r \in AllRoutes PROVE Open(r) \/ ForPartners(r) \/ ForClients(r) \/ ForAdmin(r)
<1>1. ASSUME NEW class, NEW handlers, r \in ForAdmins(class, handlers), "login" \notin handlers,
             class \notin {"health", "consult", "me", "webhooks/service-orders", "webhooks/budgets"}
      PROVE  ForAdmin(r)
  BY <1>1, RouteFields DEF ForAdmins, ForAdmin
<1>2. r \in AuthRoutes => Open(r) \/ ForAdmin(r)
  BY <1>1, RouteFields DEF AuthRoutes, Open
<1>3. r \in ClientRoutes \/ r \in VehicleRoutes => ForAdmin(r)
  BY <1>1 DEF ClientRoutes, VehicleRoutes
<1>4. r \in ServiceRoutes \/ r \in PartRoutes => ForAdmin(r)
  BY <1>1 DEF ServiceRoutes, PartRoutes
<1>5. r \in BudgetRoutes \/ r \in ServiceOrderRoutes => ForAdmin(r)
  BY <1>1 DEF BudgetRoutes, ServiceOrderRoutes
<1>6. r \in MeRoutes => ForClients(r)
  BY RouteFields DEF MeRoutes, ForClients
<1>7. r \in WebhookRoutes \/ r \in BudgetWebhookRoutes => ForPartners(r)
  BY RouteFields DEF WebhookRoutes, BudgetWebhookRoutes, ForPartners
<1>8. r \in ConsultRoutes \/ r \in HealthRoutes => Open(r)
  BY RouteFields DEF ConsultRoutes, HealthRoutes, Open
<1>9. \/ r \in AuthRoutes \/ r \in ClientRoutes \/ r \in VehicleRoutes
      \/ r \in ServiceRoutes \/ r \in PartRoutes \/ r \in BudgetRoutes
      \/ r \in ServiceOrderRoutes \/ r \in MeRoutes \/ r \in WebhookRoutes
      \/ r \in BudgetWebhookRoutes \/ r \in ConsultRoutes \/ r \in HealthRoutes
  BY Zenon DEF AllRoutes
<1> QED
  BY <1>2, <1>3, <1>4, <1>5, <1>6, <1>7, <1>8, <1>9, Zenon

\* What the table says of each kind.
LEMMA KindsOfTheTable ==
  ASSUME NEW party, NEW r
  PROVE  /\ Open(r) => MayCall(party, r)
         /\ ForPartners(r) => (MayCall(party, r) <=> party = "partner")
         /\ ForClients(r) => (MayCall(party, r) <=> party = "client")
         /\ ForAdmin(r) => (MayCall(party, r) <=> party = "admin")
<1>1. Open(r) => MayCall(party, r)
  BY DEF Open, MayCall
<1>2. ForPartners(r) => (MayCall(party, r) <=> party = "partner")
  BY DEF ForPartners, MayCall
<1>3. ForClients(r) => (MayCall(party, r) <=> party = "client")
  BY DEF ForClients, MayCall
<1>4. ForAdmin(r) => (MayCall(party, r) <=> party = "admin")
  BY DEF ForAdmin, MayCall
<1> QED
  BY <1>1, <1>2, <1>3, <1>4

\* What the guards ask on each kind.
LEMMA KindsOfTheGuards ==
  ASSUME NEW s, NEW cred, NEW r
  PROVE  /\ Open(r) => Admits(s, r, cred)
         /\ ForPartners(r) => (Admits(s, r, cred) <=> WebhookAuthGuard(s, cred))
         /\ ForClients(r) => (Admits(s, r, cred) <=>
              JwtAuthGuard(s, cred) /\ cred.role = "client")
         /\ ForAdmin(r) => (Admits(s, r, cred) <=>
              JwtAuthGuard(s, cred) /\ cred.role = "admin")
BY DEF Open, ForPartners, ForClients, ForAdmin, Admits, RolesGuard

\* A credential is worth to the guards of a replica what it proves to it.
LEMMA CredentialIsWorth ==
  ASSUME SecretInv, NEW p \in Pods, pod[p].up, NEW cred \in Credentials, tokens \subseteq Clients
  PROVE  /\ WebhookAuthGuard(pod[p], cred) <=> Party(pod[p], cred) = "partner"
         /\ JwtAuthGuard(pod[p], cred) /\ cred.role = "client"
              <=> Party(pod[p], cred) = "client"
         /\ JwtAuthGuard(pod[p], cred) /\ cred.role = "admin"
              <=> Party(pod[p], cred) = "admin"
<1> DEFINE s == pod[p]
<1>1. s.jwt # 0
  BY DEF SecretInv, BootedHasSecret
<1>2. ASSUME cred.bearer = "jwt", cred.of \in {"admin", "client"}, cred.role = cred.of,
             cred.iss = ISSUER_BY_ROLE[cred.role]
      PROVE  /\ ~WebhookAuthGuard(s, cred)
             /\ JwtAuthGuard(s, cred) <=> cred.key = s.jwt
             /\ Party(s, cred) = IF cred.key = s.jwt THEN cred.of ELSE "anyone"
  BY <1>2 DEF WebhookAuthGuard, JwtAuthGuard, Validate, Role, Party
<1>3. CASE cred = AdminToken
  <2>1. /\ cred.bearer = "jwt" /\ cred.of = "admin" /\ cred.role = "admin"
        /\ cred.iss = ISSUER_BY_ROLE[cred.role]
    BY <1>3 DEF AdminToken, Jwt, NoCredential
  <2> QED
    BY <1>2, <2>1
<1>4. ASSUME NEW c \in Clients, cred = ClientToken(c)
      PROVE  /\ ~WebhookAuthGuard(s, cred) /\ Party(s, cred) # "partner"
             /\ JwtAuthGuard(s, cred) /\ cred.role = "client" <=> Party(s, cred) = "client"
             /\ JwtAuthGuard(s, cred) /\ cred.role = "admin" <=> Party(s, cred) = "admin"
  <2>1. /\ cred.bearer = "jwt" /\ cred.of = "client" /\ cred.role = "client"
        /\ cred.iss = ISSUER_BY_ROLE[cred.role]
    BY <1>4 DEF ClientToken, Jwt, NoCredential
  <2> QED
    BY <1>2, <2>1
<1>5. CASE cred \in {OldAdminToken, UnsetToken}
  <2>1. cred.bearer = "jwt" /\ cred.of = "anyone" /\ cred.role = "admin"
    BY <1>5 DEF OldAdminToken, UnsetToken, Jwt, NoCredential
  <2>2. cred.iss = "none" \/ cred.key = 0
    BY <1>5 DEF OldAdminToken, UnsetToken, Jwt, NoCredential
  <2> QED
    BY <1>1, <2>1, <2>2
       DEF WebhookAuthGuard, JwtAuthGuard, Validate, ISSUER_BY_ROLE, Party
<1>6. CASE cred = NoCredential
  BY <1>6 DEF NoCredential, WebhookAuthGuard, JwtAuthGuard, Party
<1>7. CASE cred \in {InHeader, InBody}
  <2>1. /\ cred.of = "partner"
        /\ \/ cred.bearer = "secret" /\ cred.secret = partner
           \/ cred.bearer = "nothing" /\ cred.body = partner
    BY <1>7 DEF InHeader, InBody, NoCredential
  <2> QED
    BY <2>1 DEF WebhookAuthGuard, JwtAuthGuard, Party
<1> QED
  BY <1>3, <1>4, <1>5, <1>6, <1>7 DEF Credentials

\* However secrets are set and rotated and replicas restarted, every handler is
\* reached by exactly those the table of access by role names.
THEOREM AccessIsByRole == AccessSpec => []AccessByRole
<1>1. SecretInv /\ IInv => AccessByRole
  <2> SUFFICES ASSUME SecretInv, IInv, NEW p \in Pods, pod[p].up,
                      NEW cred \in Credentials, NEW r \in AllRoutes
               PROVE  Admits(pod[p], r, cred) <=> MayCall(Party(pod[p], cred), r)
    BY DEF AccessByRole
  <2>1. tokens \subseteq Clients
    BY DEF IInv, TypeOK
  <2> QED
    BY <2>1, RouteKinds, KindsOfTheTable, KindsOfTheGuards, CredentialIsWorth
<1>2. AccessSpec => []SecretInv
  BY InitSecretInv, StepSecretInv, PTL DEF AccessSpec
<1> QED
  BY <1>1, <1>2, AccessRefines, Invariance, PTL
=============================================================================
