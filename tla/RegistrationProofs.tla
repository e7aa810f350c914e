------------------------- MODULE RegistrationProofs -------------------------
(***************************************************************************)
(* What holds of Registry for any number of rows, keys, requests in flight *)
(* and replicas, of the values of ValueObjects for every document and every*)
(* plate, and of the base SeedDemo fills for any number of runs.           *)
(***************************************************************************)
EXTENDS Registry, SeedDemo, SequenceTheorems, SumTheorems, TLAPS

\* A key as the tables keep it.
Canonical(s) == s \in Spelling /\ ~s.padded /\ (kind # "service" => ~s.cased)

\* Only keys of that form are in the table and on their way to it.
Canon ==
  /\ \A r \in Rows : rows[r].row # "absent" => Canonical(rows[r].key)
  /\ \A w \in Workers : req[w].step # "idle" => Canonical(req[w].key)

\* What the index guarantees.
Indexed ==
  \A q, r \in Rows :
    (rows[q].row = "live" /\ rows[r].row = "live" /\ rows[q].key = rows[r].key) => q = r

\* A registration under way has an id of its own; nothing saves or seeds where
\* the table has no such operation.
Owned ==
  /\ \A w \in Workers :
       /\ req[w].step # "idle" => req[w].id \in Rows
       /\ req[w].step = "insert" => rows[req[w].id].row = "absent"
       /\ req[w].step = "save" => kind # "admin" /\ rows[req[w].id].row # "absent"
       /\ req[w].step = "insert" => \A v \in Workers \ {w} : req[v].id # req[w].id
  /\ (seed # None \/ \E r \in Replicas : replica[r] # "down") => kind = "admin"
  /\ \A r \in Replicas : replica[r] = "seeding" => seed # None

IInv == TypeOK /\ Canon /\ Indexed /\ Owned /\ FirstAdminExists

LEMMA StoredIsCanonical ==
  ASSUME kind \in Kinds, NEW s \in Spelling
  PROVE  Canonical(Stored(s))
  BY DEF Canonical, Stored, Trim, Fold, Spelling, Kinds

LEMMA SameWord ==
  ASSUME NEW s \in Spelling
  PROVE  /\ Trim(s) \in Spelling /\ Trim(s).word = s.word
         /\ Fold(s) \in Spelling /\ Fold(s).word = s.word
  BY DEF Trim, Fold, Spelling

LEMMA SeedIsCanonical ==
  ASSUME kind \in Kinds, seed \in Spelling
  PROVE  /\ Canonical(Stored(SeedEmail))
         /\ SeedEmail.word = seed.word /\ Stored(SeedEmail).word = seed.word
<1>1. SeedEmail \in Spelling /\ SeedEmail.word = seed.word
  BY SameWord DEF SeedEmail
<1>2. Stored(SeedEmail).word = seed.word
  BY <1>1, SameWord DEF Stored
<1>. QED
  BY <1>1, <1>2, StoredIsCanonical

LEMMA IdleRequest == Idle \in Request
<1>1. AnySpelling \in Spelling
  <2>1. PICK x \in Words : TRUE
    BY WordAssumption
  <2>2. [word |-> x, padded |-> FALSE, cased |-> FALSE] \in Spelling
    BY DEF Spelling
  <2>. QED
    BY <2>2 DEF AnySpelling
<1>. QED
  BY <1>1 DEF Idle, Request

LEMMA InitIInv == Init => IInv
<1> SUFFICES ASSUME Init PROVE IInv
  OBVIOUS
<1>1. TypeOK
  BY IdleRequest DEF Init, TypeOK, Row, Presence, Request, Idle
<1>2. Canon /\ Indexed /\ FirstAdminExists
  BY DEF Init, Canon, Indexed, FirstAdminExists, Idle
<1>3. Owned
  BY DEF Init, Owned, Idle
<1>. QED
  BY <1>1, <1>2, <1>3 DEF IInv

\* A request that arrives with a canonical key changes nothing else.
LEMMA ArriveKeeps ==
  ASSUME IInv, NEW w \in Workers, NEW r \in Request,
         r.step = "insert" \/ r.step = "save", r.id \in Rows, Canonical(r.key),
         r.step = "insert" => Fresh(r.id),
         r.step = "save" => kind # "admin" /\ rows[r.id].row # "absent",
         Arrive(w, r), UNCHANGED <<kind, rows, seed, replica>>
  PROVE  IInv'
<1>1. /\ req' = [req EXCEPT ![w] = r] /\ req \in [Workers -> Request]
      /\ req[w].step = "idle"
  BY DEF Arrive, IInv, TypeOK
<1>2. TypeOK'
  BY <1>1 DEF IInv, TypeOK
<1>3. Canon'
  BY <1>1 DEF IInv, Canon, Canonical
<1>4. Indexed' /\ FirstAdminExists'
  BY DEF IInv, Indexed, FirstAdminExists
<1>5. ASSUME NEW u \in Workers
      PROVE  /\ req'[u].step # "idle" => req'[u].id \in Rows
             /\ req'[u].step = "insert" => rows[req'[u].id].row = "absent"
             /\ req'[u].step = "save" => kind # "admin" /\ rows[req'[u].id].row # "absent"
  BY <1>1 DEF IInv, Owned, Fresh
<1>6. ASSUME NEW u \in Workers, req'[u].step = "insert", NEW v \in Workers \ {u}
      PROVE  req'[v].id # req'[u].id
  <2>1. CASE u = w
    BY <1>1, <1>6, <2>1 DEF Fresh
  <2>2. CASE u # w /\ v # w
    BY <1>1, <1>6, <2>2 DEF IInv, Owned
  <2>3. CASE u # w /\ v = w
    <3>1. rows[req[u].id].row = "absent" /\ req'[u] = req[u] /\ req'[v] = r
      BY <1>1, <1>6, <2>3 DEF IInv, Owned
    <3>2. CASE r.step = "insert"
      BY <2>3, <3>1, <3>2 DEF Fresh
    <3>3. CASE r.step = "save"
      BY <3>1, <3>3
    <3>. QED
      BY <3>2, <3>3
  <2>. QED
    BY <2>1, <2>2, <2>3
<1>7. Owned'
  BY <1>5, <1>6 DEF IInv, Owned
<1>. QED
  BY <1>2, <1>3, <1>4, <1>7 DEF IInv

\* A request that ends changes nothing else.
LEMMA FinishKeeps ==
  ASSUME IInv, NEW w \in Workers, Finish(w)
  PROVE  /\ req' \in [Workers -> Request] /\ req'[w] = Idle
         /\ \A v \in Workers \ {w} : req'[v] = req[v]
  BY IdleRequest DEF IInv, TypeOK, Finish

LEMMA FinishOwned ==
  ASSUME IInv, NEW w \in Workers, Finish(w), UNCHANGED <<kind, seed, replica>>,
         \A v \in Workers \ {w} :
           /\ req[v].step = "insert" => rows'[req[v].id].row = "absent"
           /\ req[v].step = "save" => rows'[req[v].id].row # "absent"
  PROVE  Owned'
<1>1. /\ req'[w].step = "idle" /\ req'[w].id = None
      /\ \A v \in Workers \ {w} : req'[v] = req[v]
  BY FinishKeeps DEF Idle
<1>2. ASSUME NEW u \in Workers
      PROVE  /\ req'[u].step # "idle" => req'[u].id \in Rows
             /\ req'[u].step = "insert" => rows'[req'[u].id].row = "absent"
             /\ req'[u].step = "save" => kind' # "admin" /\ rows'[req'[u].id].row # "absent"
  <2>1. CASE u = w
    BY <1>1, <2>1
  <2>2. CASE u # w
    BY <1>1, <2>2 DEF IInv, Owned
  <2>. QED
    BY <2>1, <2>2
<1>3. ASSUME NEW u \in Workers, req'[u].step = "insert", NEW v \in Workers \ {u}
      PROVE  req'[v].id # req'[u].id
  <2>1. u # w /\ req'[u] = req[u] /\ rows[req[u].id].row = "absent" /\ req[u].id \in Rows
    BY <1>1, <1>3 DEF IInv, Owned
  <2>2. CASE v # w
    BY <1>1, <1>3, <2>1, <2>2 DEF IInv, Owned
  <2>3. CASE v = w
    BY <1>1, <2>1, <2>3, NoneAssumption
  <2>. QED
    BY <2>2, <2>3
<1>. QED
  BY <1>2, <1>3 DEF IInv, Owned

LEMMA InsertKeeps ==
  ASSUME IInv, NEW w \in Workers, Insert(w)
  PROVE  IInv'
<1> DEFINE id == req[w].id
           key == req[w].key
<1>1. /\ req' \in [Workers -> Request] /\ req'[w] = Idle
      /\ \A v \in Workers \ {w} : req'[v] = req[v]
  BY FinishKeeps DEF Insert
<1>2. /\ id \in Rows /\ rows[id].row = "absent" /\ Canonical(key) /\ key \in Spelling
      /\ \A v \in Workers \ {w} : req[v].id # id
      /\ rows \in [Rows -> Row] /\ UNCHANGED <<kind, seed, replica>>
  BY DEF Insert, IInv, Owned, Canon, TypeOK, Request
<1>3. \/ rows' = rows
      \/ Holders(key) = {} /\ rows' = [rows EXCEPT ![id] = NewRow(key)]
  BY DEF Insert
<1>4. TypeOK'
  BY <1>1, <1>2, <1>3 DEF IInv, TypeOK, Row, Presence, NewRow
<1>5. Canon'
  BY <1>1, <1>2, <1>3 DEF IInv, Canon, Canonical, NewRow, Idle
<1>6. Indexed'
  BY <1>2, <1>3 DEF IInv, Indexed, Holders, NewRow
<1>7. Owned'
  <2>1. \A v \in Workers \ {w} :
          /\ req[v].step = "insert" => rows'[req[v].id].row = "absent"
          /\ req[v].step = "save" => rows'[req[v].id].row # "absent"
    BY <1>2, <1>3 DEF IInv, Owned
  <2>. QED
    BY <1>2, <2>1, FinishOwned DEF Insert
<1>8. FirstAdminExists'
  BY <1>2, <1>3 DEF IInv, FirstAdminExists, NewRow
<1>. QED
  BY <1>4, <1>5, <1>6, <1>7, <1>8 DEF IInv

LEMMA SaveKeeps ==
  ASSUME IInv, NEW w \in Workers, Save(w)
  PROVE  IInv'
<1> DEFINE id == req[w].id
           key == req[w].key
<1>1. /\ req' \in [Workers -> Request] /\ req'[w] = Idle
      /\ \A v \in Workers \ {w} : req'[v] = req[v]
  BY FinishKeeps DEF Save
<1>2. /\ id \in Rows /\ rows[id].row # "absent" /\ Canonical(key) /\ key \in Spelling
      /\ kind # "admin" /\ seed = None
      /\ rows \in [Rows -> Row] /\ UNCHANGED <<kind, seed, replica>>
  BY DEF Save, IInv, Owned, Canon, TypeOK, Request
<1>3. \/ rows' = rows
      \/ /\ rows[id].row = "live" => Holders(key) \ {id} = {}
         /\ rows' = [rows EXCEPT ![id].key = key]
  BY DEF Save
<1>4. TypeOK'
  BY <1>1, <1>2, <1>3 DEF IInv, TypeOK, Row
<1>5. Canon'
  <2>1. \A r \in Rows : rows'[r].row # "absent" => Canonical(rows'[r].key)
    <3>1. ASSUME NEW r \in Rows, r # id, rows'[r].row # "absent" PROVE Canonical(rows'[r].key)
      BY <1>2, <1>3, <3>1 DEF IInv, Canon
    <3>2. rows'[id].key = key \/ rows' = rows
      BY <1>2, <1>3 DEF Row
    <3>. QED
      BY <1>2, <3>1, <3>2 DEF IInv, Canon
  <2>2. \A v \in Workers : req'[v].step # "idle" => Canonical(req'[v].key)
    BY <1>1 DEF IInv, Canon, Idle
  <2>. QED
    BY <1>2, <2>1, <2>2 DEF Canon, Canonical
<1>6. Indexed'
  BY <1>2, <1>3 DEF IInv, TypeOK, Row, Indexed, Holders
<1>7. \A r \in Rows : rows'[r].row = rows[r].row
  BY <1>2, <1>3 DEF Row
<1>8. Owned'
  <2>1. \A v \in Workers \ {w} :
          /\ req[v].step = "insert" => rows'[req[v].id].row = "absent"
          /\ req[v].step = "save" => rows'[req[v].id].row # "absent"
    BY <1>7 DEF IInv, Owned
  <2>. QED
    BY <1>2, <2>1, FinishOwned DEF Save
<1>9. FirstAdminExists'
  BY <1>2 DEF FirstAdminExists
<1>. QED
  BY <1>4, <1>5, <1>6, <1>8, <1>9 DEF IInv

LEMMA RemoveKeeps ==
  ASSUME IInv, NEW r \in Rows, Remove(r)
  PROVE  IInv'
<1>1. /\ rows[r].row = "live" /\ kind # "admin" /\ seed = None
      /\ rows \in [Rows -> Row] /\ rows' = [rows EXCEPT ![r].row = "deleted"]
      /\ UNCHANGED <<kind, req, seed, replica>>
  BY DEF Remove, IInv, Owned, TypeOK
<1>2. TypeOK'
  BY <1>1 DEF IInv, TypeOK, Row, Presence
<1>3. Canon'
  BY <1>1 DEF IInv, Canon, Canonical, Row
<1>4. Indexed'
  BY <1>1 DEF IInv, Indexed, Row
<1>5. Owned'
  BY <1>1 DEF IInv, Owned, Row
<1>6. FirstAdminExists'
  BY <1>1 DEF FirstAdminExists
<1>. QED
  BY <1>2, <1>3, <1>4, <1>5, <1>6 DEF IInv

LEMMA InterruptKeeps ==
  ASSUME IInv, NEW w \in Workers, Interrupt(w)
  PROVE  IInv'
<1>1. /\ req' \in [Workers -> Request] /\ req'[w] = Idle
      /\ \A v \in Workers \ {w} : req'[v] = req[v]
      /\ UNCHANGED <<kind, rows, seed, replica>>
  BY FinishKeeps DEF Interrupt
<1>2. TypeOK' /\ Indexed' /\ FirstAdminExists'
  BY <1>1 DEF IInv, TypeOK, Indexed, FirstAdminExists
<1>3. Canon'
  BY <1>1 DEF IInv, Canon, Canonical, Idle
<1>4. Owned'
  <2>1. \A v \in Workers \ {w} :
          /\ req[v].step = "insert" => rows'[req[v].id].row = "absent"
          /\ req[v].step = "save" => rows'[req[v].id].row # "absent"
    BY <1>1 DEF IInv, Owned
  <2>. QED
    BY <1>1, <2>1, FinishOwned DEF Interrupt
<1>. QED
  BY <1>2, <1>3, <1>4 DEF IInv

\* A boot writes at most one row, the configured administrator, under a new id.
LEMMA BootKeeps ==
  ASSUME IInv, NEW r \in Replicas, StartBoot(r) \/ SeedInsert(r) \/ Crash(r)
  PROVE  IInv'
<1>1. /\ replica \in [Replicas -> {"down", "seeding", "failed", "up"}]
      /\ rows \in [Rows -> Row] /\ kind = "admin" /\ UNCHANGED <<kind, req, seed>>
  BY DEF StartBoot, SeedInsert, Crash, IInv, TypeOK, Owned
<1> DEFINE email == Stored(SeedEmail)
<1>2. seed # None => /\ Canonical(email) /\ email \in Spelling
                     /\ email.word = seed.word /\ SeedEmail.word = seed.word
  BY <1>1, SeedIsCanonical DEF IInv, TypeOK, Canonical
<1>3. CASE StartBoot(r)
  <2>1. /\ UNCHANGED rows
        /\ \/ /\ seed = None \/ Holders(SeedEmail) # {}
              /\ replica' = [replica EXCEPT ![r] = "up"]
           \/ seed # None /\ replica' = [replica EXCEPT ![r] = "seeding"]
    BY <1>3 DEF StartBoot
  <2>2. TypeOK' /\ Canon' /\ Indexed' /\ Owned'
    BY <1>1, <2>1 DEF IInv, TypeOK, Canon, Canonical, Indexed, Owned
  <2>3. FirstAdminExists'
    BY <1>1, <1>2, <2>1 DEF IInv, FirstAdminExists, Holders
  <2>. QED
    BY <2>2, <2>3 DEF IInv
<1>4. CASE SeedInsert(r)
  <2>1. seed # None /\ replica[r] = "seeding"
    BY <1>4 DEF SeedInsert, IInv, Owned
  <2>2. CASE rows' = rows /\ replica' = [replica EXCEPT ![r] = "failed"]
    <3>1. TypeOK' /\ Canon' /\ Indexed' /\ Owned'
      BY <1>1, <2>1, <2>2 DEF IInv, TypeOK, Canon, Canonical, Indexed, Owned
    <3>2. FirstAdminExists'
      BY <1>1, <2>2 DEF IInv, FirstAdminExists
    <3>. QED
      BY <3>1, <3>2 DEF IInv
  <2>3. ASSUME NEW q \in Rows, Fresh(q), Holders(email) = {},
               rows' = [rows EXCEPT ![q] = NewRow(email)],
               replica' = [replica EXCEPT ![r] = "up"]
        PROVE  IInv'
    <3>1. /\ rows[q].row = "absent" /\ \A w \in Workers : req[w].id # q
          /\ rows'[q] = [row |-> "live", key |-> email]
          /\ \A p \in Rows \ {q} : rows'[p] = rows[p]
      BY <1>1, <2>3 DEF Fresh, NewRow
    <3>2. TypeOK'
      BY <1>1, <1>2, <2>1, <2>3 DEF IInv, TypeOK, Row, Presence, NewRow, Canonical
    <3>3. Canon'
      BY <1>1, <1>2, <2>1, <3>1 DEF IInv, Canon, Canonical
    <3>4. Indexed'
      BY <2>3, <3>1 DEF IInv, Indexed, Holders
    <3>5. Owned'
      BY <1>1, <2>1, <2>3, <3>1 DEF IInv, Owned
    <3>6. FirstAdminExists'
      BY <1>1, <1>2, <2>1, <3>1 DEF FirstAdminExists
    <3>. QED
      BY <3>2, <3>3, <3>4, <3>5, <3>6 DEF IInv
  <2>. QED
    BY <1>2, <1>4, <2>1, <2>2, <2>3 DEF SeedInsert
<1>5. CASE Crash(r)
  <2>1. UNCHANGED rows /\ replica' = [replica EXCEPT ![r] = "down"]
    BY <1>5 DEF Crash
  <2>2. TypeOK' /\ Canon' /\ Indexed' /\ Owned'
    BY <1>1, <2>1 DEF IInv, TypeOK, Canon, Canonical, Indexed, Owned
  <2>3. FirstAdminExists'
    BY <1>1, <2>1 DEF IInv, FirstAdminExists
  <2>. QED
    BY <2>2, <2>3 DEF IInv
<1>. QED
  BY <1>3, <1>4, <1>5

LEMMA StepIInv == IInv /\ [Next]_vars => IInv'
<1> SUFFICES ASSUME IInv, [Next]_vars PROVE IInv'
  OBVIOUS
<1>1. ASSUME NEW w \in Workers, NEW r \in Rows, NEW s \in Spelling, StartRegister(w, r, s)
      PROVE  IInv'
  <2>1. Canonical(Stored(s)) /\ Stored(s) \in Spelling
    BY StoredIsCanonical DEF IInv, TypeOK, Canonical
  <2>2. [step |-> "insert", id |-> r, key |-> Stored(s)] \in Request
    BY <2>1 DEF Request
  <2>. QED
    BY <1>1, <2>1, <2>2, ArriveKeeps DEF StartRegister, FreshForRequest
<1>2. ASSUME NEW w \in Workers, NEW r \in Rows, NEW s \in Spelling, StartRename(w, r, s)
      PROVE  IInv'
  <2>1. Canonical(Stored(s)) /\ Stored(s) \in Spelling
    BY StoredIsCanonical DEF IInv, TypeOK, Canonical
  <2>2. [step |-> "save", id |-> r, key |-> Stored(s)] \in Request
    BY <2>1 DEF Request
  <2>. QED
    BY <1>2, <2>1, <2>2, ArriveKeeps DEF StartRename
<1>3. ASSUME NEW w \in Workers, NEW r \in Rows, StartEdit(w, r)
      PROVE  IInv'
  <2>1. Canonical(rows[r].key) /\ rows[r].key \in Spelling
    BY <1>3 DEF StartEdit, IInv, Canon, Canonical
  <2>2. [step |-> "save", id |-> r, key |-> rows[r].key] \in Request
    BY <2>1 DEF Request
  <2>. QED
    BY <1>3, <2>1, <2>2, ArriveKeeps DEF StartEdit
<1>4. CASE UNCHANGED vars
  BY <1>4 DEF vars, IInv, TypeOK, Canon, Canonical, Indexed, Owned, FirstAdminExists
<1>. QED
  BY <1>1, <1>2, <1>3, <1>4, InsertKeeps, SaveKeeps, InterruptKeeps, RemoveKeeps, BootKeeps
  DEF Next

\* Canonical keys that mean the same are the same.
LEMMA DistinctKeys == IInv => KeysAreDistinct
<1> SUFFICES ASSUME IInv, NEW q \in Rows, NEW r \in Rows,
                    rows[q].row = "live", rows[r].row = "live",
                    Meaning(rows[q].key) = Meaning(rows[r].key)
             PROVE  q = r
  BY DEF KeysAreDistinct
<1>1. Canonical(rows[q].key) /\ Canonical(rows[r].key)
  BY DEF IInv, Canon
<1>2. /\ rows[q].key.word = rows[r].key.word
      /\ (kind = "service" /\ rows[q].key.cased) <=> (kind = "service" /\ rows[r].key.cased)
  BY DEF Meaning
<1>3. rows[q].key = rows[r].key
  BY <1>1, <1>2 DEF Canonical, Spelling
<1>. QED
  BY <1>3 DEF IInv, Indexed

LEMMA Invariance == Spec => []IInv
  BY InitIInv, StepIInv, PTL DEF Spec

\* Keys of live rows mean different things, in each of the four tables, for any
\* number of registrations, renames, stale saves, deletions and booting replicas.
THEOREM DistinctSafe == Spec => []KeysAreDistinct
  BY Invariance, DistinctKeys, PTL

\* No replica serves before the configured administrator is stored, for any number
\* of replicas booting and crashing.
THEOREM FirstAdminSafe == Spec => []FirstAdminExists
<1>1. IInv => FirstAdminExists
  BY DEF IInv
<1>. QED
  BY <1>1, Invariance, PTL
-----------------------------------------------------------------------------
(* The check digits of CPF and CNPJ, for every document.                   *)

\* At most one digit completes a sum to a multiple of 11.
LEMMA OneCompletion ==
  ASSUME NEW sum \in Nat, NEW c \in Digit, NEW e \in Digit,
         (sum + c) % 11 = 0, (sum + e) % 11 = 0
  PROVE  c = e
  BY SMT DEF Digit

\* A digit that completes the sum is the official one.
LEMMA Completes ==
  ASSUME NEW sum \in Nat, NEW c \in Digit, (sum + c) % 11 = 0
  PROVE  OfficialDigit(sum) = c
<1> DEFINE e == CHOOSE e \in Digit : (sum + e) % 11 = 0
<1>1. e \in Digit /\ (sum + e) % 11 = 0
  OBVIOUS
<1>2. e = c
  BY <1>1, OneCompletion
<1>3. OfficialDigit(sum) = e
  BY DEF OfficialDigit
<1>. QED
  BY <1>2, <1>3

\* If none does, the official one is 0.
LEMMA Falls ==
  ASSUME NEW sum \in Nat, sum % 11 = 1
  PROVE  OfficialDigit(sum) = 0
<1>1. \A c \in Digit : (sum + c) % 11 # 0
  BY SMT DEF Digit
<1>. QED
  BY <1>1 DEF OfficialDigit

LEMMA CpfRule ==
  ASSUME NEW sum \in Nat
  PROVE  CpfDigit(sum) = OfficialDigit(sum)
<1>1. CASE sum % 11 = 1
  <2>1. (sum * 10) % 11 = 10
    BY <1>1, SMT
  <2>. QED
    BY <1>1, <2>1, Falls DEF CpfDigit
<1>2. CASE sum % 11 # 1
  <2> DEFINE r == (sum * 10) % 11
  <2>1. r \in Digit /\ (sum + r) % 11 = 0
    BY <1>2, SMT DEF Digit
  <2>. QED
    BY <2>1, Completes DEF CpfDigit, Digit
<1>. QED
  BY <1>1, <1>2

LEMMA CnpjRule ==
  ASSUME NEW sum \in Nat
  PROVE  CnpjDigit(sum) = OfficialDigit(sum)
<1>1. CASE sum % 11 = 1
  BY <1>1, Falls DEF CnpjDigit
<1>2. CASE sum % 11 = 0
  <2>1. 0 \in Digit /\ (sum + 0) % 11 = 0
    BY <1>2, SMT DEF Digit
  <2>. QED
    BY <1>2, <2>1, Completes DEF CnpjDigit
<1>3. CASE sum % 11 \notin {0, 1}
  <2> DEFINE c == 11 - (sum % 11)
  <2>1. c \in Digit /\ (sum + c) % 11 = 0
    BY <1>3, SMT DEF Digit
  <2>2. CnpjDigit(sum) = c
    BY <1>3, SMT DEF CnpjDigit
  <2>. QED
    BY <2>1, <2>2, Completes
<1>. QED
  BY <1>1, <1>2, <1>3

\* What has been typed is symbols of a plate, or digits of a document.
Typed ==
  /\ field \in {"cpf", "cnpj", "plate"}
  /\ typed \in Seq(IF field = "plate" THEN Symbol ELSE Digit)

LEMMA InitTyped == TypingInit => Typed
  BY DEF TypingInit, Typed

LEMMA StepTyped == Typed /\ [Type]_typing => Typed'
  BY TypeableAssumption DEF Typed, Type, typing, Alphabet

LEMMA NatSums == \A m \in Nat, n \in Nat : m + n \in Nat /\ m * n \in Nat
  OBVIOUS

LEMMA CpfAccepted ==
  ASSUME NEW d \in Seq(Digit), Len(d) = 11
  PROVE  ValidateCpf(d) <=>
           /\ ~Repeated(d)
           /\ d[10] = OfficialDigit(CpfSum1(d)) /\ d[11] = OfficialDigit(CpfSum2(d))
<1>1. /\ d[1] \in Nat /\ d[2] \in Nat /\ d[3] \in Nat /\ d[4] \in Nat
      /\ d[5] \in Nat /\ d[6] \in Nat /\ d[7] \in Nat /\ d[8] \in Nat
      /\ d[9] \in Nat /\ d[10] \in Nat /\ d[11] \in Nat
  <2>1. ASSUME NEW i \in 1..11 PROVE d[i] \in Digit
    BY ElementOfSeq
  <2>2. Digit \subseteq Nat
    BY DEF Digit
  <2>3. ASSUME NEW i \in 1..11 PROVE d[i] \in Nat
    BY <2>1, <2>2
  <2>. QED
    BY <2>3
<1>2. CpfSum1(d) \in Nat
  BY <1>1, NatSums DEF CpfSum1
<1>3. CpfSum2(d) \in Nat
  BY <1>1, NatSums, ZenonT(60) DEF CpfSum2
<1>. QED
  BY <1>2, <1>3, CpfRule DEF ValidateCpf

LEMMA CnpjAccepted ==
  ASSUME NEW d \in Seq(Digit), Len(d) = 14
  PROVE  ValidateCnpj(d) <=>
           /\ ~Repeated(d)
           /\ d[13] = OfficialDigit(CnpjSum1(d)) /\ d[14] = OfficialDigit(CnpjSum2(d))
<1>1. /\ d[1] \in Nat /\ d[2] \in Nat /\ d[3] \in Nat /\ d[4] \in Nat
      /\ d[5] \in Nat /\ d[6] \in Nat /\ d[7] \in Nat /\ d[8] \in Nat
      /\ d[9] \in Nat /\ d[10] \in Nat /\ d[11] \in Nat /\ d[12] \in Nat
      /\ d[13] \in Nat /\ d[14] \in Nat
  <2>1. ASSUME NEW i \in 1..14 PROVE d[i] \in Digit
    BY ElementOfSeq
  <2>2. Digit \subseteq Nat
    BY DEF Digit
  <2>3. ASSUME NEW i \in 1..14 PROVE d[i] \in Nat
    BY <2>1, <2>2
  <2>. QED
    BY <2>3
<1>2. CnpjSum1(d) \in Nat
  BY <1>1, NatSums, ZenonT(60) DEF CnpjSum1
<1>3. CnpjSum2(d) \in Nat
  BY <1>1, NatSums, ZenonT(60) DEF CnpjSum2
<1>. QED
  BY <1>2, <1>3, CnpjRule DEF ValidateCnpj

LEMMA TypedOfficial == Typed => DocumentsAreOfficial
<1> SUFFICES ASSUME Typed, NEW a \in Digit, NEW b \in Digit
             PROVE  LET d == typed \o <<a, b>>
                    IN  /\ field = "cpf" /\ Len(typed) = 9 =>
                             (ValidateCpf(d) <=> /\ ~Repeated(d)
                                                 /\ a = OfficialDigit(CpfSum1(d))
                                                 /\ b = OfficialDigit(CpfSum2(d)))
                        /\ field = "cnpj" /\ Len(typed) = 12 =>
                             (ValidateCnpj(d) <=> /\ ~Repeated(d)
                                                  /\ a = OfficialDigit(CnpjSum1(d))
                                                  /\ b = OfficialDigit(CnpjSum2(d)))
  BY DEF DocumentsAreOfficial
<1> DEFINE d == typed \o <<a, b>>
<1>1. ASSUME field # "plate"
      PROVE  /\ d \in Seq(Digit) /\ Len(d) = Len(typed) + 2
             /\ d[Len(typed) + 1] = a /\ d[Len(typed) + 2] = b
  BY <1>1 DEF Typed
<1>2. CASE field = "cpf" /\ Len(typed) = 9
  <2>1. d \in Seq(Digit) /\ Len(d) = 11 /\ d[10] = a /\ d[11] = b
    BY <1>1, <1>2
  <2>. QED
    BY <1>2, <2>1, CpfAccepted
<1>3. CASE field = "cnpj" /\ Len(typed) = 12
  <2>1. d \in Seq(Digit) /\ Len(d) = 14 /\ d[13] = a /\ d[14] = b
    BY <1>1, <1>3
  <2>. QED
    BY <1>3, <2>1, CnpjAccepted
<1>. QED
  BY <1>2, <1>3

\* Every CPF and CNPJ that can be typed, not only those with the digits that the
\* run tries, is accepted iff it has the official check digits.
THEOREM DocumentsOfficial == TypingSpec => []DocumentsAreOfficial
  BY InitTyped, StepTyped, TypedOfficial, PTL DEF TypingSpec

-----------------------------------------------------------------------------
(* Plates of any length.                                                   *)

\* What Without has kept of the first n symbols.
Keeps(f, raw, dropped, N) ==
  f = [n \in 0..N |-> IF n = 0 THEN <<>>
                      ELSE IF raw[n] \in dropped THEN f[n - 1] ELSE Append(f[n - 1], raw[n])]

Kept(raw, dropped) == CHOOSE f : Keeps(f, raw, dropped, Len(raw))

LEMMA KeepsExist ==
  ASSUME NEW raw, NEW dropped, NEW L \in Nat
  PROVE  \E f : Keeps(f, raw, dropped, L)
<1> DEFINE Bad == {N \in Nat : ~ \E f : Keeps(f, raw, dropped, N)}
<1>1. SUFFICES Bad = {}
  OBVIOUS
<1>2. SUFFICES ASSUME Bad # {} PROVE FALSE
  OBVIOUS
<1>3. PICK N \in Bad : \A m \in Bad : N <= m
  <2>1. Bad \subseteq Nat
    OBVIOUS
  <2> HIDE DEF Bad
  <2> QED
    BY <1>2, <2>1, LeastNatural
<1>4. CASE N = 0
  <2> DEFINE g == [n \in 0..0 |-> <<>>]
  <2>1. Keeps(g, raw, dropped, 0)
    BY DEF Keeps
  <2> QED
    BY <1>3, <1>4, <2>1
<1>5. CASE N # 0
  <2>1. N - 1 \in Nat /\ N - 1 \notin Bad /\ N \in Nat
    BY <1>3, <1>5
  <2>2. PICK f : Keeps(f, raw, dropped, N - 1)
    BY <2>1
  <2> DEFINE last == IF raw[N] \in dropped THEN f[N - 1] ELSE Append(f[N - 1], raw[N])
             g == [n \in 0..N |-> IF n = N THEN last ELSE f[n]]
             G == [n \in 0..N |-> IF n = 0 THEN <<>>
                                  ELSE IF raw[n] \in dropped THEN g[n - 1] ELSE Append(g[n - 1], raw[n])]
  <2>3. \A n \in 0..N - 1 :
          f[n] = IF n = 0 THEN <<>>
                 ELSE IF raw[n] \in dropped THEN f[n - 1] ELSE Append(f[n - 1], raw[n])
    <3> DEFINE F == [n \in 0..N - 1 |->
                       IF n = 0 THEN <<>>
                       ELSE IF raw[n] \in dropped THEN f[n - 1] ELSE Append(f[n - 1], raw[n])]
    <3>1. f = F
      BY <2>2 DEF Keeps
    <3>2. \A n \in 0..N - 1 :
            F[n] = IF n = 0 THEN <<>>
                   ELSE IF raw[n] \in dropped THEN f[n - 1] ELSE Append(f[n - 1], raw[n])
      OBVIOUS
    <3> HIDE DEF F
    <3> QED
      BY <3>1, <3>2
  <2>4. ASSUME NEW n \in 0..N  PROVE g[n] = G[n]
    <3>1. CASE n = 0
      BY <1>5, <2>1, <2>3, <3>1
    <3>2. CASE n = N
      <4>1. g[N - 1] = f[N - 1] /\ g[N] = last
        BY <2>1
      <4> QED
        BY <1>5, <2>1, <3>2, <4>1
    <3>3. CASE n # 0 /\ n # N
      <4>1. g[n] = f[n] /\ g[n - 1] = f[n - 1] /\ n \in 0..N - 1
        BY <2>1, <3>3
      <4> QED
        BY <2>1, <2>3, <3>3, <4>1
    <3> QED
      BY <3>1, <3>2, <3>3
  <2>5. g = G
    BY <2>4
  <2>6. Keeps(g, raw, dropped, N)
    BY <2>5 DEF Keeps
  <2> QED
    BY <1>3, <2>6
<1> QED
  BY <1>4, <1>5

LEMMA WithoutStep ==
  ASSUME NEW S, NEW raw \in Seq(S), NEW dropped
  PROVE  /\ Without(raw, dropped) = Kept(raw, dropped)[Len(raw)]
         /\ Kept(raw, dropped)[0] = <<>>
         /\ \A n \in 1..Len(raw) :
              Kept(raw, dropped)[n] = IF raw[n] \in dropped THEN Kept(raw, dropped)[n - 1]
                                      ELSE Append(Kept(raw, dropped)[n - 1], raw[n])
<1> DEFINE k == Kept(raw, dropped)
<1>1. Without(raw, dropped) = k[Len(raw)]
  BY DEF Without, Kept, Keeps
<1>2. Len(raw) \in Nat
  BY LenProperties
<1>3. Keeps(k, raw, dropped, Len(raw))
  BY <1>2, KeepsExist DEF Kept
<1> HIDE DEF k
<1> DEFINE K == [n \in 0..Len(raw) |->
                   IF n = 0 THEN <<>>
                   ELSE IF raw[n] \in dropped THEN k[n - 1] ELSE Append(k[n - 1], raw[n])]
<1>4. k = K
  BY <1>3 DEF Keeps
<1>5. /\ K[0] = <<>>
      /\ \A n \in 1..Len(raw) :
           K[n] = IF raw[n] \in dropped THEN k[n - 1] ELSE Append(k[n - 1], raw[n])
  BY <1>2
<1> HIDE DEF K
<1> QED
  BY <1>1, <1>4, <1>5 DEF k

Separators == {"-", " "}

LEMMA UpperIs ==
  ASSUME NEW s \in Seq(Symbol)
  PROVE  /\ UpperCase(s) \in Seq(Symbol) /\ Len(UpperCase(s)) = Len(s)
         /\ \A i \in 1..Len(s) : UpperCase(s)[i] = Upper(s[i])
         /\ s \in Seq(Symbol \ Separators) => UpperCase(s) \in Seq(Symbol \ Separators)
         /\ UpperCase(UpperCase(s)) = UpperCase(s)
         /\ \A c \in Symbol : UpperCase(Append(s, c)) = Append(UpperCase(s), Upper(c))
<1>1. /\ DOMAIN s = 1..Len(s) /\ Len(s) \in Nat /\ \A i \in 1..Len(s) : s[i] \in Symbol
  BY LenProperties, ElementOfSeq
<1>2. \A c \in Symbol : /\ Upper(c) \in Symbol /\ Upper(Upper(c)) = Upper(c)
                        /\ c \in Separators <=> Upper(c) \in Separators
  BY DEF Upper, Symbol, Separators
<1> DEFINE u == UpperCase(s)
<1>3. u \in [1..Len(s) -> Symbol] /\ \A i \in 1..Len(s) : u[i] = Upper(s[i])
  BY <1>1, <1>2 DEF UpperCase
<1>4. u \in Seq(Symbol) /\ Len(u) = Len(s) /\ DOMAIN u = 1..Len(s)
  BY <1>1, <1>3, IsASeq
<1>5. ASSUME s \in Seq(Symbol \ Separators)  PROVE u \in Seq(Symbol \ Separators)
  <2>1. \A i \in 1..Len(s) : s[i] \in Symbol \ Separators
    BY <1>5, ElementOfSeq
  <2>2. u \in [1..Len(s) -> Symbol \ Separators]
    BY <1>1, <1>2, <1>3, <2>1
  <2> QED
    BY <1>1, <2>2, IsASeq
<1>6. UpperCase(u) = u
  <2>1. UpperCase(u) = [i \in 1..Len(s) |-> Upper(u[i])]
    BY <1>4 DEF UpperCase
  <2>2. \A i \in 1..Len(s) : Upper(u[i]) = u[i]
    BY <1>1, <1>2, <1>3
  <2>3. u = [i \in 1..Len(s) |-> u[i]]
    BY <1>3
  <2> HIDE DEF u
  <2> QED
    BY <2>1, <2>2, <2>3
<1>7. ASSUME NEW c \in Symbol  PROVE UpperCase(Append(s, c)) = Append(u, Upper(c))
  <2> DEFINE l == UpperCase(Append(s, c))
             r == Append(u, Upper(c))
  <2>1. /\ DOMAIN Append(s, c) = 1..Len(s) + 1
        /\ \A i \in 1..Len(s) : Append(s, c)[i] = s[i]
        /\ Append(s, c)[Len(s) + 1] = c
    BY <1>1, AppendProperties
  <2>2. /\ l = [i \in 1..Len(s) + 1 |-> Upper(Append(s, c)[i])]
    BY <2>1 DEF UpperCase
  <2>3. \A i \in 1..Len(s) : l[i] = u[i]
    BY <1>1, <1>3, <2>1, <2>2
  <2>4. l[Len(s) + 1] = Upper(c)
    BY <1>1, <2>1, <2>2
  <2> HIDE DEF u
  <2>5. /\ r \in Seq(Symbol) /\ DOMAIN r = 1..Len(s) + 1 /\ r[Len(s) + 1] = Upper(c)
        /\ \A i \in 1..Len(s) : r[i] = u[i]
    BY <1>1, <1>2, <1>4, AppendProperties, LenProperties
  <2>6. r = [i \in 1..Len(s) + 1 |-> r[i]] /\ l = [i \in 1..Len(s) + 1 |-> l[i]]
    BY <2>2, <2>5, LenProperties
  <2>7. \A i \in 1..Len(s) + 1 : l[i] = r[i]
    BY <1>1, <2>3, <2>4, <2>5
  <2> HIDE DEF l, r
  <2>8. l = r
    BY <2>6, <2>7
  <2> QED
    BY <2>8 DEF l, r, u
<1> QED
  BY <1>3, <1>4, <1>5, <1>6, <1>7

\* Taking the separators out before or after the letters are raised is the same.
LEMMA WithoutUpper ==
  ASSUME NEW raw \in Seq(Symbol)
  PROVE  /\ Without(raw, Separators) \in Seq(Symbol \ Separators)
         /\ Without(UpperCase(raw), Separators) = UpperCase(Without(raw, Separators))
<1> DEFINE k == Kept(raw, Separators)
           u == Kept(UpperCase(raw), Separators)
           P == {n \in 0..Len(raw) : k[n] \in Seq(Symbol \ Separators) /\ u[n] = UpperCase(k[n])}
<1>1. Len(raw) \in Nat /\ \A n \in 1..Len(raw) : raw[n] \in Symbol
  BY LenProperties, ElementOfSeq
<1>2. /\ UpperCase(raw) \in Seq(Symbol) /\ Len(UpperCase(raw)) = Len(raw)
      /\ \A n \in 1..Len(raw) : UpperCase(raw)[n] = Upper(raw[n])
  BY UpperIs
<1>3. /\ Without(raw, Separators) = k[Len(raw)] /\ k[0] = <<>>
      /\ \A n \in 1..Len(raw) :
           k[n] = IF raw[n] \in Separators THEN k[n - 1] ELSE Append(k[n - 1], raw[n])
  BY WithoutStep
<1>4. /\ Without(UpperCase(raw), Separators) = u[Len(raw)] /\ u[0] = <<>>
      /\ \A n \in 1..Len(raw) :
           u[n] = IF UpperCase(raw)[n] \in Separators THEN u[n - 1]
                  ELSE Append(u[n - 1], UpperCase(raw)[n])
  <2>1. LET R == UpperCase(raw) IN
        /\ Without(R, Separators) = u[Len(R)] /\ u[0] = <<>>
        /\ \A n \in 1..Len(R) :
             u[n] = IF R[n] \in Separators THEN u[n - 1] ELSE Append(u[n - 1], R[n])
    BY <1>2, WithoutStep
  <2> HIDE DEF u
  <2> QED
    BY <1>2, <2>1
<1> HIDE DEF k, u
<1>5. 0 \in P
  <2>1. <<>> \in Seq(Symbol \ Separators) /\ UpperCase(<<>>) = <<>>
    BY DEF UpperCase
  <2>2. k[0] \in Seq(Symbol \ Separators) /\ u[0] = UpperCase(k[0])
    BY <1>3, <1>4, <2>1
  <2> QED
    BY <1>1, <2>2
<1>6. ASSUME NEW n \in 1..Len(raw), n - 1 \in P  PROVE n \in P
  <2>1. /\ k[n - 1] \in Seq(Symbol \ Separators) /\ u[n - 1] = UpperCase(k[n - 1])
        /\ k[n - 1] \in Seq(Symbol) /\ raw[n] \in Symbol /\ n \in 0..Len(raw)
    BY <1>1, <1>6
  <2>2. raw[n] \in Separators <=> UpperCase(raw)[n] \in Separators
    BY <1>2, <2>1 DEF Upper, Symbol, Separators
  <2>3. CASE raw[n] \in Separators
    BY <1>3, <1>4, <2>1, <2>2, <2>3
  <2>4. CASE raw[n] \notin Separators
    <3>1. k[n] = Append(k[n - 1], raw[n]) /\ u[n] = Append(u[n - 1], Upper(raw[n]))
      BY <1>2, <1>3, <1>4, <2>2, <2>4
    <3>2. k[n] \in Seq(Symbol \ Separators)
      BY <2>1, <2>4, <3>1, AppendProperties
    <3>3. UpperCase(Append(k[n - 1], raw[n])) = Append(UpperCase(k[n - 1]), Upper(raw[n]))
      BY <2>1, UpperIs
    <3> QED
      BY <2>1, <3>1, <3>2, <3>3
  <2> QED
    BY <2>3, <2>4
<1>7. Len(raw) \in P
  <2> HIDE DEF P
  <2>1. 0..Len(raw) \subseteq P
    BY <1>1, <1>5, <1>6, GoesOn
  <2> QED
    BY <1>1, <2>1
<1> QED
  BY <1>3, <1>4, <1>7

\* Where there are no separators, nothing is taken out.
LEMMA WithoutNone ==
  ASSUME NEW raw \in Seq(Symbol \ Separators)
  PROVE  Without(raw, Separators) = raw
<1> DEFINE k == Kept(raw, Separators)
           P == {n \in 0..Len(raw) : /\ k[n] \in Seq(Symbol) /\ Len(k[n]) = n
                                     /\ \A i \in 1..n : k[n][i] = raw[i]}
<1>1. /\ Len(raw) \in Nat /\ DOMAIN raw = 1..Len(raw)
      /\ \A n \in 1..Len(raw) : raw[n] \in Symbol /\ raw[n] \notin Separators
  BY LenProperties, ElementOfSeq
<1>2. /\ Without(raw, Separators) = k[Len(raw)] /\ k[0] = <<>>
      /\ \A n \in 1..Len(raw) :
           k[n] = IF raw[n] \in Separators THEN k[n - 1] ELSE Append(k[n - 1], raw[n])
  BY WithoutStep
<1> HIDE DEF k
<1>3. 0 \in P
  <2>1. k[0] \in Seq(Symbol) /\ Len(k[0]) = 0
    BY <1>2
  <2> QED
    BY <1>1, <2>1
<1>4. ASSUME NEW n \in 1..Len(raw), n - 1 \in P  PROVE n \in P
  <2> DEFINE s == k[n - 1]
  <2>1. /\ s \in Seq(Symbol) /\ Len(s) = n - 1 /\ \A i \in 1..n - 1 : s[i] = raw[i]
        /\ k[n] = Append(s, raw[n]) /\ raw[n] \in Symbol
    BY <1>1, <1>2, <1>4
  <2> HIDE DEF s
  <2>2. /\ k[n] \in Seq(Symbol) /\ Len(k[n]) = n /\ k[n][n] = raw[n]
        /\ \A i \in 1..n - 1 : k[n][i] = s[i]
    BY <2>1, AppendProperties
  <2>3. \A i \in 1..n : k[n][i] = raw[i]
    BY <2>1, <2>2
  <2> QED
    BY <1>1, <2>2, <2>3
<1>5. Len(raw) \in P
  <2> HIDE DEF P
  <2>1. 0..Len(raw) \subseteq P
    BY <1>1, <1>3, <1>4, GoesOn
  <2> QED
    BY <1>1, <2>1
<1>6. k[Len(raw)] = raw
  BY <1>1, <1>5, SeqEqual
<1> QED
  BY <1>2, <1>6

LEMMA PlatesLoad ==
  ASSUME NEW raw \in Seq(Symbol)
  PROVE  PlateProbe(raw) = Normalize(raw) /\ Normalize(Normalize(raw)) = Normalize(raw)
<1> DEFINE kept == Without(raw, Separators)
           stored == UpperCase(kept)
<1>1. /\ kept \in Seq(Symbol \ Separators) /\ Without(UpperCase(raw), Separators) = stored
  BY WithoutUpper
<1> HIDE DEF kept
<1>2. stored \in Seq(Symbol \ Separators) /\ UpperCase(stored) = stored
  <2>1. kept \in Seq(Symbol)
    BY <1>1
  <2> QED
    BY <1>1, <2>1, UpperIs
<1> HIDE DEF stored
<1>3. Without(stored, Separators) = stored
  BY <1>2, WithoutNone
<1>4. Normalize(raw) = stored
  BY DEF Normalize, stored, kept, Separators
<1>5. Normalize(stored) = stored
  BY <1>2, <1>3 DEF Normalize, Separators
<1> QED
  BY <1>1, <1>4, <1>5 DEF PlateProbe, Separators

\* Every plate that is accepted, however long and with whatever hyphens and blanks
\* it was typed, is looked for as it will be stored, and loads again unchanged.
THEOREM PlatesAlwaysLoad == TypingSpec => []StoredPlatesLoad
<1>1. Typed => StoredPlatesLoad
  BY PlatesLoad DEF Typed, StoredPlatesLoad, PlateAccepted
<1> QED
  BY <1>1, InitTyped, StepTyped, PTL DEF TypingSpec

-----------------------------------------------------------------------------
(* The base a run of seed-demo.ts fills, for any number of runs started,   *)
(* forced and killed in any order.                                         *)

TableName == {"clients", "vehicles", "services", "parts"}
Phase == Ended \union TableName \union {"open", "decide", "patch"}

Run == [phase : Phase, at : Nat, steps : Seq(ServiceOrderStatus), stopped : Phase \union {"nowhere"}]
DemoEntity == [row : {"live"}, status : ServiceOrderStatus, budgetId : Nat \union {NoBudget},
               history : Seq(StatusHistoryEntry)]
DemoRow == [so : DemoEntity, budget : {"none", "PENDENTE", "APROVADO", "RECUSADO"}]

SeedTypes ==
  /\ base \in [TableName -> Nat] /\ stock \in [1..12 -> Int]
  /\ opened \in Seq(DemoRow) /\ seeder \in [Seeders -> Run]

\* A run that has registered the first client.
Leads(s) ==
  \/ seeder[s].phase \in {"vehicles", "services", "parts", "open", "decide", "patch", "done"}
  \/ At(s, "clients") /\ seeder[s].at # 1

\* The first client is registered once, so there is one such run at most: the
\* others are refused there.
OneLeads == \A s, t \in Seeders : Leads(s) /\ Leads(t) => s = t
LeadersWereFirst == \A s \in Seeders : Leads(s) \/ At(s, "refused") => base["clients"] > 0
RefusedAtOnce ==
  \A s \in Seeders : At(s, "refused") => seeder[s].stopped = "clients" /\ seeder[s].at = 1

Blank == (\A t \in TableName : base[t] = 0) /\ opened = <<>> /\ \A p \in 1..12 : stock[p] = 0
BlankUntilLed == base["clients"] = 0 => Blank

\* About to register row i of the k-th table.
AtTable(k, i) ==
  /\ i \in 1..RowsOf(Tables[k])
  /\ \A j \in 1..4 : base[Tables[j]] = IF j < k THEN RowsOf(Tables[j]) ELSE IF j = k THEN i - 1 ELSE 0
  /\ opened = <<>>
  /\ \A p \in 1..12 : stock[p] = IF p <= base["parts"] THEN PARTS[p] ELSE 0

\* The orders whose budget the script approves, and what the first n of them took.
Approves(k) == ORDERS[k].target \in {"EM_EXECUCAO", "PAUSADO", "FINALIZADA", "ENTREGUE"}
Taken(n, p) == IF \E k \in 1..n : Approves(k) /\ p \in ORDERS[k].items THEN Quantity ELSE 0

Served(n) ==
  \A k \in 1..n : /\ opened[k].so.status = ORDERS[k].target
                  /\ opened[k].budget = "APROVADO" <=> Approves(k)
LeftAfter(n) == \A p \in 1..12 : stock[p] = PARTS[p] - Taken(n, p)

\* Where an order stands when its path begins, the path, and what a path must be:
\* steps of the matrix that end at the target.
Start(k) == IF HasItems(ORDERS[k]) THEN "AGUARDANDO_APROVACAO" ELSE "RECEBIDA"
PathOf(k) == (IF HasItems(ORDERS[k]) THEN PATH_FROM_AGUARDANDO ELSE PATH_FROM_RECEBIDA)[ORDERS[k].target]
Walk(from, steps, to) ==
  IF steps = <<>> THEN from = to
  ELSE /\ <<from, steps[1]>> \in ALLOWED_TRANSITIONS /\ steps[Len(steps)] = to
       /\ \A k \in 1..(Len(steps) - 1) : <<steps[k], steps[k + 1]>> \in ALLOWED_TRANSITIONS

\* About to open order i, to decide on its budget, to take it along its path.
AtOpen(i) == i \in 1..14 /\ Len(opened) = i - 1 /\ Served(i - 1) /\ LeftAfter(i - 1)
AtDecide(i, steps) ==
  /\ i \in 1..14 /\ Len(opened) = i /\ Served(i - 1) /\ LeftAfter(i - 1)
  /\ opened[i].budget = IF HasItems(ORDERS[i]) THEN "PENDENTE" ELSE "none"
  /\ opened[i].so.status = Start(i) /\ steps = PathOf(i)
AtPatch(i, steps) ==
  /\ i \in 1..14 /\ Len(opened) = i /\ Served(i - 1) /\ LeftAfter(i)
  /\ opened[i].budget = "APROVADO" <=> Approves(i)
  /\ Walk(opened[i].so.status, steps, ORDERS[i].target)
  /\ (\E j \in DOMAIN steps : steps[j] = "EM_EXECUCAO") => opened[i].so.budgetId # NoBudget
AtDone == Len(opened) = 14 /\ Served(14) /\ LeftAfter(14)

Stands(s) ==
  /\ \A k \in 1..4 : At(s, Tables[k]) => AtTable(k, seeder[s].at)
  /\ At(s, "open") => AtOpen(seeder[s].at)
  /\ At(s, "decide") => AtDecide(seeder[s].at, seeder[s].steps)
  /\ At(s, "patch") => AtPatch(seeder[s].at, seeder[s].steps)
  /\ At(s, "done") => AtDone
LeadersStand == \A s \in Seeders : Leads(s) => Stands(s)

SeedIInv ==
  SeedTypes /\ OneLeads /\ LeadersWereFirst /\ RefusedAtOnce /\ BlankUntilLed /\ LeadersStand

LEMMA TablesAre ==
  /\ DOMAIN Tables = 1..4
  /\ Tables[1] = "clients" /\ Tables[2] = "vehicles" /\ Tables[3] = "services" /\ Tables[4] = "parts"
  /\ After(1) = "vehicles" /\ After(2) = "services" /\ After(3) = "parts" /\ After(4) = "open"
  /\ {Tables[k] : k \in DOMAIN Tables} = TableName
<1>1. /\ DOMAIN Tables = 1..4 /\ Len(Tables) = 4
      /\ Tables[1] = "clients" /\ Tables[2] = "vehicles" /\ Tables[3] = "services"
      /\ Tables[4] = "parts"
  BY DEF Tables
<1>2. 1..4 = {1, 2, 3, 4}
  OBVIOUS
<1>3. /\ After(1) = "vehicles" /\ After(2) = "services" /\ After(3) = "parts" /\ After(4) = "open"
  BY <1>1 DEF After
<1>4. {Tables[k] : k \in DOMAIN Tables} = {Tables[1], Tables[2], Tables[3], Tables[4]}
  BY <1>1, <1>2
<1> QED
  BY <1>1, <1>3, <1>4 DEF TableName

LEMMA RowsAre ==
  /\ RowsOf("clients") = 8 /\ RowsOf("vehicles") = 10 /\ RowsOf("services") = 10
  /\ RowsOf("parts") = 12
<1>1. Len(CLIENTS) = 8
  BY DEF CLIENTS
<1>2. Len(VEHICLES) = 10
  BY DEF VEHICLES
<1>3. Cardinality(SERVICES) = 10
  <2>1. 1 \in Int /\ 10 \in Int
    OBVIOUS
  <2>2. Cardinality(1..10) = IF 1 > 10 THEN 0 ELSE 10 - 1 + 1
    BY <2>1, FS_Interval
  <2> QED
    BY <2>2 DEF SERVICES
<1>4. Len(PARTS) = 12
  BY DEF PARTS
<1> QED
  BY <1>1, <1>2, <1>3, <1>4 DEF RowsOf

LEMMA PartsAre == DOMAIN PARTS = 1..12 /\ \A p \in 1..12 : PARTS[p] \in Nat /\ PARTS[p] >= 2
<1>1. 1..12 = {1, 2, 3, 4, 5, 6, 7, 8, 9, 10, 11, 12}
  OBVIOUS
<1>2. DOMAIN PARTS = 1..12
  BY DEF PARTS
<1>3. /\ PARTS[1] = 120 /\ PARTS[2] = 200 /\ PARTS[3] = 45 /\ PARTS[4] = 28 /\ PARTS[5] = 16
      /\ PARTS[6] = 90 /\ PARTS[7] = 74 /\ PARTS[8] = 12 /\ PARTS[9] = 8 /\ PARTS[10] = 4
      /\ PARTS[11] = 150 /\ PARTS[12] = 3
  BY DEF PARTS
<1> QED
  BY <1>1, <1>2, <1>3

LEMMA OrdersAre ==
  /\ Len(ORDERS) = 14 /\ DOMAIN ORDERS = 1..14
  /\ ORDERS[1] = DemoOrder(1, 1, {1, 2}, {1, 2}, "EM_EXECUCAO")
  /\ ORDERS[2] = DemoOrder(2, 2, {3}, {3, 4}, "EM_EXECUCAO")
  /\ ORDERS[3] = DemoOrder(3, 3, {4}, {5}, "EM_EXECUCAO")
  /\ ORDERS[4] = DemoOrder(4, 4, {6}, {12}, "AGUARDANDO_APROVACAO")
  /\ ORDERS[5] = DemoOrder(5, 5, {5}, {11}, "AGUARDANDO_APROVACAO")
  /\ ORDERS[6] = DemoOrder(6, 6, {8}, {9}, "AGUARDANDO_APROVACAO")
  /\ ORDERS[7] = DemoOrder(7, 7, {}, {}, "EM_DIAGNOSTICO")
  /\ ORDERS[8] = DemoOrder(8, 8, {}, {}, "EM_DIAGNOSTICO")
  /\ ORDERS[9] = DemoOrder(1, 9, {}, {}, "RECEBIDA")
  /\ ORDERS[10] = DemoOrder(2, 10, {}, {}, "RECEBIDA")
  /\ ORDERS[11] = DemoOrder(1, 1, {7}, {10}, "PAUSADO")
  /\ ORDERS[12] = DemoOrder(2, 2, {9}, {8}, "FINALIZADA")
  /\ ORDERS[13] = DemoOrder(3, 3, {2}, {}, "ENTREGUE")
  /\ ORDERS[14] = DemoOrder(4, 4, {10}, {}, "ENCERRADA_SEM_EXECUCAO")
<1>1. Len(ORDERS) = 14 /\ DOMAIN ORDERS = 1..14
  BY DEF ORDERS
<1>2. /\ ORDERS[1] = DemoOrder(1, 1, {1, 2}, {1, 2}, "EM_EXECUCAO")
      /\ ORDERS[2] = DemoOrder(2, 2, {3}, {3, 4}, "EM_EXECUCAO")
      /\ ORDERS[3] = DemoOrder(3, 3, {4}, {5}, "EM_EXECUCAO")
      /\ ORDERS[4] = DemoOrder(4, 4, {6}, {12}, "AGUARDANDO_APROVACAO")
      /\ ORDERS[5] = DemoOrder(5, 5, {5}, {11}, "AGUARDANDO_APROVACAO")
  BY DEF ORDERS
<1>3. /\ ORDERS[6] = DemoOrder(6, 6, {8}, {9}, "AGUARDANDO_APROVACAO")
      /\ ORDERS[7] = DemoOrder(7, 7, {}, {}, "EM_DIAGNOSTICO")
      /\ ORDERS[8] = DemoOrder(8, 8, {}, {}, "EM_DIAGNOSTICO")
      /\ ORDERS[9] = DemoOrder(1, 9, {}, {}, "RECEBIDA")
      /\ ORDERS[10] = DemoOrder(2, 10, {}, {}, "RECEBIDA")
  BY DEF ORDERS
<1>4. /\ ORDERS[11] = DemoOrder(1, 1, {7}, {10}, "PAUSADO")
      /\ ORDERS[12] = DemoOrder(2, 2, {9}, {8}, "FINALIZADA")
      /\ ORDERS[13] = DemoOrder(3, 3, {2}, {}, "ENTREGUE")
      /\ ORDERS[14] = DemoOrder(4, 4, {10}, {}, "ENCERRADA_SEM_EXECUCAO")
  BY DEF ORDERS
<1> QED
  BY <1>1, <1>2, <1>3, <1>4

LEMMA OrderIs ==
  ASSUME NEW k \in 1..14
  PROVE  /\ OwnerOf(ORDERS[k].vehicle) = ORDERS[k].client
         /\ ORDERS[k].items \subseteq 1..12
         /\ HasItems(ORDERS[k]) <=> ORDERS[k].target \notin {"RECEBIDA", "EM_DIAGNOSTICO"}
         /\ ORDERS[k].target \in ServiceOrderStatus
<1> DEFINE Is(o) == /\ OwnerOf(o.vehicle) = o.client
                    /\ o.items \subseteq 1..12
                    /\ HasItems(o) <=> o.target \notin {"RECEBIDA", "EM_DIAGNOSTICO"}
                    /\ o.target \in ServiceOrderStatus
<1>1. Len(CLIENTS) = 8
  BY RowsAre DEF RowsOf
<1>2. \A v \in 1..10 : OwnerOf(v) = IF v <= 8 THEN v ELSE v - 8
  BY <1>1 DEF OwnerOf
<1>3. Is(ORDERS[1])
  <2>1. /\ ORDERS[1].client = 1 /\ ORDERS[1].vehicle = 1 /\ ORDERS[1].services = {1, 2}
        /\ ORDERS[1].items = {1, 2} /\ ORDERS[1].target = "EM_EXECUCAO"
    BY OrdersAre DEF DemoOrder
  <2> QED
    BY <1>2, <2>1 DEF HasItems, ServiceOrderStatus
<1>4. Is(ORDERS[2])
  <2>1. /\ ORDERS[2].client = 2 /\ ORDERS[2].vehicle = 2 /\ ORDERS[2].services = {3}
        /\ ORDERS[2].items = {3, 4} /\ ORDERS[2].target = "EM_EXECUCAO"
    BY OrdersAre DEF DemoOrder
  <2> QED
    BY <1>2, <2>1 DEF HasItems, ServiceOrderStatus
<1>5. Is(ORDERS[3])
  <2>1. /\ ORDERS[3].client = 3 /\ ORDERS[3].vehicle = 3 /\ ORDERS[3].services = {4}
        /\ ORDERS[3].items = {5} /\ ORDERS[3].target = "EM_EXECUCAO"
    BY OrdersAre DEF DemoOrder
  <2> QED
    BY <1>2, <2>1 DEF HasItems, ServiceOrderStatus
<1>6. Is(ORDERS[4])
  <2>1. /\ ORDERS[4].client = 4 /\ ORDERS[4].vehicle = 4 /\ ORDERS[4].services = {6}
        /\ ORDERS[4].items = {12} /\ ORDERS[4].target = "AGUARDANDO_APROVACAO"
    BY OrdersAre DEF DemoOrder
  <2> QED
    BY <1>2, <2>1 DEF HasItems, ServiceOrderStatus
<1>7. Is(ORDERS[5])
  <2>1. /\ ORDERS[5].client = 5 /\ ORDERS[5].vehicle = 5 /\ ORDERS[5].services = {5}
        /\ ORDERS[5].items = {11} /\ ORDERS[5].target = "AGUARDANDO_APROVACAO"
    BY OrdersAre DEF DemoOrder
  <2> QED
    BY <1>2, <2>1 DEF HasItems, ServiceOrderStatus
<1>8. Is(ORDERS[6])
  <2>1. /\ ORDERS[6].client = 6 /\ ORDERS[6].vehicle = 6 /\ ORDERS[6].services = {8}
        /\ ORDERS[6].items = {9} /\ ORDERS[6].target = "AGUARDANDO_APROVACAO"
    BY OrdersAre DEF DemoOrder
  <2> QED
    BY <1>2, <2>1 DEF HasItems, ServiceOrderStatus
<1>9. Is(ORDERS[7])
  <2>1. /\ ORDERS[7].client = 7 /\ ORDERS[7].vehicle = 7 /\ ORDERS[7].services = {}
        /\ ORDERS[7].items = {} /\ ORDERS[7].target = "EM_DIAGNOSTICO"
    BY OrdersAre DEF DemoOrder
  <2> QED
    BY <1>2, <2>1 DEF HasItems, ServiceOrderStatus
<1>10. Is(ORDERS[8])
  <2>1. /\ ORDERS[8].client = 8 /\ ORDERS[8].vehicle = 8 /\ ORDERS[8].services = {}
        /\ ORDERS[8].items = {} /\ ORDERS[8].target = "EM_DIAGNOSTICO"
    BY OrdersAre DEF DemoOrder
  <2> QED
    BY <1>2, <2>1 DEF HasItems, ServiceOrderStatus
<1>11. Is(ORDERS[9])
  <2>1. /\ ORDERS[9].client = 1 /\ ORDERS[9].vehicle = 9 /\ ORDERS[9].services = {}
        /\ ORDERS[9].items = {} /\ ORDERS[9].target = "RECEBIDA"
    BY OrdersAre DEF DemoOrder
  <2> QED
    BY <1>2, <2>1 DEF HasItems, ServiceOrderStatus
<1>12. Is(ORDERS[10])
  <2>1. /\ ORDERS[10].client = 2 /\ ORDERS[10].vehicle = 10 /\ ORDERS[10].services = {}
        /\ ORDERS[10].items = {} /\ ORDERS[10].target = "RECEBIDA"
    BY OrdersAre DEF DemoOrder
  <2> QED
    BY <1>2, <2>1 DEF HasItems, ServiceOrderStatus
<1>13. Is(ORDERS[11])
  <2>1. /\ ORDERS[11].client = 1 /\ ORDERS[11].vehicle = 1 /\ ORDERS[11].services = {7}
        /\ ORDERS[11].items = {10} /\ ORDERS[11].target = "PAUSADO"
    BY OrdersAre DEF DemoOrder
  <2> QED
    BY <1>2, <2>1 DEF HasItems, ServiceOrderStatus
<1>14. Is(ORDERS[12])
  <2>1. /\ ORDERS[12].client = 2 /\ ORDERS[12].vehicle = 2 /\ ORDERS[12].services = {9}
        /\ ORDERS[12].items = {8} /\ ORDERS[12].target = "FINALIZADA"
    BY OrdersAre DEF DemoOrder
  <2> QED
    BY <1>2, <2>1 DEF HasItems, ServiceOrderStatus
<1>15. Is(ORDERS[13])
  <2>1. /\ ORDERS[13].client = 3 /\ ORDERS[13].vehicle = 3 /\ ORDERS[13].services = {2}
        /\ ORDERS[13].items = {} /\ ORDERS[13].target = "ENTREGUE"
    BY OrdersAre DEF DemoOrder
  <2> QED
    BY <1>2, <2>1 DEF HasItems, ServiceOrderStatus
<1>16. Is(ORDERS[14])
  <2>1. /\ ORDERS[14].client = 4 /\ ORDERS[14].vehicle = 4 /\ ORDERS[14].services = {10}
        /\ ORDERS[14].items = {} /\ ORDERS[14].target = "ENCERRADA_SEM_EXECUCAO"
    BY OrdersAre DEF DemoOrder
  <2> QED
    BY <1>2, <2>1 DEF HasItems, ServiceOrderStatus
<1> HIDE DEF Is
<1>17. Is(ORDERS[k])
  BY <1>3, <1>4, <1>5, <1>6, <1>7, <1>8, <1>9, <1>10, <1>11, <1>12, <1>13, <1>14, <1>15, <1>16
<1> QED
  BY <1>17 DEF Is

LEMMA ApprovedAre ==
  ASSUME NEW j \in 1..14, NEW k \in 1..14, j # k, Approves(j), Approves(k)
  PROVE  ORDERS[j].items \intersect ORDERS[k].items = {}
<1>1. /\ ORDERS[1].items = {1, 2} /\ ORDERS[2].items = {3, 4} /\ ORDERS[3].items = {5}
      /\ ORDERS[11].items = {10} /\ ORDERS[12].items = {8} /\ ORDERS[13].items = {}
  BY OrdersAre DEF DemoOrder
<1>2. \A i \in {4, 5, 6, 7, 8, 9, 10, 14} : ~Approves(i)
  BY OrdersAre DEF DemoOrder, Approves
<1>3. j \in {1, 2, 3, 11, 12, 13} /\ k \in {1, 2, 3, 11, 12, 13}
  BY <1>2
<1>4. \A i \in {1, 2, 3, 11, 12, 13}, p \in {1, 2, 3, 4, 5, 8, 10} :
        p \in ORDERS[i].items <=> i = CASE p \in {1, 2} -> 1 [] p \in {3, 4} -> 2
                                      [] p = 5 -> 3 [] p = 10 -> 11 [] p = 8 -> 12
  BY <1>1
<1>5. \A i \in {1, 2, 3, 11, 12, 13} : ORDERS[i].items \subseteq {1, 2, 3, 4, 5, 8, 10}
  BY <1>1
<1> QED
  BY <1>3, <1>4, <1>5

LEMMA PathIs ==
  ASSUME NEW k \in 1..14
  PROVE  /\ ORDERS[k].target \in
              DOMAIN (IF HasItems(ORDERS[k]) THEN PATH_FROM_AGUARDANDO ELSE PATH_FROM_RECEBIDA)
         /\ PathOf(k) \in Seq(ServiceOrderStatus)
         /\ (\E j \in DOMAIN PathOf(k) : PathOf(k)[j] = "EM_EXECUCAO") <=> Approves(k)
         /\ IF ORDERS[k].target = "ENCERRADA_SEM_EXECUCAO" THEN PathOf(k) = <<>>
            ELSE Walk(Start(k), PathOf(k), ORDERS[k].target)
<1> DEFINE t == ORDERS[k].target
           table == IF HasItems(ORDERS[k]) THEN PATH_FROM_AGUARDANDO ELSE PATH_FROM_RECEBIDA
           path == PathOf(k)
           Good(p) == /\ p \in Seq(ServiceOrderStatus)
                      /\ (\E j \in DOMAIN p : p[j] = "EM_EXECUCAO") <=> Approves(k)
                      /\ IF t = "ENCERRADA_SEM_EXECUCAO" THEN p = <<>> ELSE Walk(Start(k), p, t)
<1>1. /\ HasItems(ORDERS[k]) <=> t \notin {"RECEBIDA", "EM_DIAGNOSTICO"}
      /\ t \in ServiceOrderStatus
  BY OrderIs
<1>2. Start(k) = IF t \in {"RECEBIDA", "EM_DIAGNOSTICO"} THEN "RECEBIDA" ELSE "AGUARDANDO_APROVACAO"
  BY <1>1 DEF Start
<1>3. path = table[t]
  BY DEF PathOf
<1>4. CASE t = "RECEBIDA"
  <2>1. t \in DOMAIN table /\ path = <<>>
    BY <1>1, <1>3, <1>4 DEF PATH_FROM_RECEBIDA
  <2> HIDE DEF path
  <2>2. Good(path)
    BY <1>2, <1>4, <2>1 DEF Walk, Approves
  <2> QED
    BY <2>1, <2>2 DEF path
<1>5. CASE t = "EM_DIAGNOSTICO"
  <2>1. t \in DOMAIN table /\ path = <<"EM_DIAGNOSTICO">>
    BY <1>1, <1>3, <1>5 DEF PATH_FROM_RECEBIDA
  <2> HIDE DEF path
  <2>2. Good(path)
    BY <1>2, <1>5, <2>1 DEF Walk, Approves, ALLOWED_TRANSITIONS, ServiceOrderStatus
  <2> QED
    BY <2>1, <2>2 DEF path
<1>6. CASE t = "AGUARDANDO_APROVACAO" \/ t = "ENCERRADA_SEM_EXECUCAO"
  <2>1. t \in DOMAIN table /\ path = <<>>
    BY <1>1, <1>3, <1>6 DEF PATH_FROM_AGUARDANDO, Paths
  <2> HIDE DEF path
  <2>2. Good(path)
    BY <1>2, <1>6, <2>1 DEF Walk, Approves
  <2> QED
    BY <2>1, <2>2 DEF path
<1>7. CASE t = "EM_EXECUCAO"
  <2>1. t \in DOMAIN table /\ path = <<"EM_EXECUCAO">>
    BY <1>1, <1>3, <1>7 DEF PATH_FROM_AGUARDANDO, Paths
  <2> HIDE DEF path
  <2>2. Good(path)
    BY <1>2, <1>7, <2>1 DEF Walk, Approves, ALLOWED_TRANSITIONS, ServiceOrderStatus
  <2> QED
    BY <2>1, <2>2 DEF path
<1>8. CASE t = "PAUSADO" \/ t = "FINALIZADA"
  <2>1. t \in DOMAIN table /\ path = <<"EM_EXECUCAO", t>>
    BY <1>1, <1>3, <1>8 DEF PATH_FROM_AGUARDANDO, Paths
  <2> HIDE DEF path
  <2>2. Good(path)
    BY <1>2, <1>8, <2>1 DEF Walk, Approves, ALLOWED_TRANSITIONS, ServiceOrderStatus
  <2> QED
    BY <2>1, <2>2 DEF path
<1>9. CASE t = "ENTREGUE"
  <2>1. t \in DOMAIN table /\ path = <<"EM_EXECUCAO", "FINALIZADA", "ENTREGUE">>
    BY <1>1, <1>3, <1>9 DEF PATH_FROM_AGUARDANDO, Paths
  <2> HIDE DEF path
  <2>2. Good(path)
    BY <1>2, <1>9, <2>1 DEF Walk, Approves, ALLOWED_TRANSITIONS, ServiceOrderStatus
  <2> QED
    BY <2>1, <2>2 DEF path
<1> HIDE DEF t
<1>10. t \in ServiceOrderStatus
  BY <1>1
<1> QED
  BY <1>4, <1>5, <1>6, <1>7, <1>8, <1>9, <1>10 DEF ServiceOrderStatus

-----------------------------------------------------------------------------
(* Every document the script makes up is one the API accepts.              *)

LEMMA TotalUpTo ==
  ASSUME NEW n \in Nat, NEW f, \A i \in 1..n + 1 : f[i] \in Int
  PROVE  Total(f, 1..n + 1) = f[n + 1] + Total(f, 1..n)
<1>1. IsFiniteSet(1..n) /\ n + 1 \notin 1..n /\ 1..n + 1 = (1..n) \union {n + 1}
  BY FS_Interval
<1>2. f[n + 1] \in Int /\ \A i \in 1..n : f[i] \in Int
  OBVIOUS
<1> QED
  BY <1>1, <1>2, TotalGrow

LEMMA TotalOfTen ==
  ASSUME NEW f, \A i \in 1..9 : f[i] \in Int
  PROVE  /\ Total(f, 1..9) = f[1] + f[2] + f[3] + f[4] + f[5] + f[6] + f[7] + f[8] + f[9]
         /\ f[10] \in Int => Total(f, 1..10) = Total(f, 1..9) + f[10]
<1>1. Total(f, 1..0) = 0
  <2>1. 1..0 = {}
    OBVIOUS
  <2> QED
    BY <2>1, TotalOfNone
<1>2. \A n \in 0..8 : Total(f, 1..n + 1) = f[n + 1] + Total(f, 1..n)
  <2> TAKE n \in 0..8
  <2>1. n \in Nat /\ \A i \in 1..n + 1 : f[i] \in Int
    OBVIOUS
  <2> QED
    BY <2>1, TotalUpTo
<1>3. /\ Total(f, 1..1) = f[1] + Total(f, 1..0) /\ Total(f, 1..2) = f[2] + Total(f, 1..1)
      /\ Total(f, 1..3) = f[3] + Total(f, 1..2) /\ Total(f, 1..4) = f[4] + Total(f, 1..3)
      /\ Total(f, 1..5) = f[5] + Total(f, 1..4) /\ Total(f, 1..6) = f[6] + Total(f, 1..5)
      /\ Total(f, 1..7) = f[7] + Total(f, 1..6) /\ Total(f, 1..8) = f[8] + Total(f, 1..7)
      /\ Total(f, 1..9) = f[9] + Total(f, 1..8)
  BY <1>2
<1>4. Total(f, 1..9) = f[1] + f[2] + f[3] + f[4] + f[5] + f[6] + f[7] + f[8] + f[9]
  BY <1>1, <1>3
<1>5. ASSUME f[10] \in Int  PROVE Total(f, 1..10) = Total(f, 1..9) + f[10]
  <2>1. \A i \in 1..9 + 1 : f[i] \in Int
    BY <1>5
  <2>2. Total(f, 1..9 + 1) = f[9 + 1] + Total(f, 1..9)
    BY <2>1, TotalUpTo
  <2>3. Total(f, 1..9) \in Int
    BY <1>4
  <2> QED
    BY <1>5, <2>2, <2>3
<1> QED
  BY <1>4, <1>5

LEMMA CheckIs ==
  ASSUME NEW d \in Seq(Digit)
  PROVE  /\ Len(d) = 9 => Check(d) = CpfDigit(CpfSum1(d))
         /\ Len(d) = 10 => Check(d) = CpfDigit(CpfSum2(d))
         /\ Len(d) \in {9, 10} => Check(d) \in Digit
<1> DEFINE w == [i \in DOMAIN d |-> d[i] * (Len(d) + 2 - i)]
<1>1. /\ DOMAIN d = 1..Len(d) /\ Len(d) \in Nat /\ \A i \in 1..Len(d) : d[i] \in Digit
  BY LenProperties, ElementOfSeq
<1>2. \A i \in 1..Len(d) : d[i] \in Nat
  BY <1>1 DEF Digit
<1>3. \A i \in 1..Len(d) : w[i] = d[i] * (Len(d) + 2 - i) /\ w[i] \in Int
  BY <1>1, <1>2
<1>4. Check(d) = CpfDigit(Total(w, DOMAIN d))
  BY DEF Check, CpfDigit, Total
<1> HIDE DEF w
<1>5. ASSUME Len(d) = 9  PROVE Check(d) = CpfDigit(CpfSum1(d))
  <2>1. DOMAIN d = 1..9 /\ \A i \in 1..9 : d[i] \in Nat /\ w[i] = d[i] * (9 + 2 - i) /\ w[i] \in Int
    BY <1>1, <1>2, <1>3, <1>5
  <2>2. \A n \in Nat :
          /\ n * (9 + 2 - 1) = 10 * n /\ n * (9 + 2 - 2) = 9 * n /\ n * (9 + 2 - 3) = 8 * n
          /\ n * (9 + 2 - 4) = 7 * n /\ n * (9 + 2 - 5) = 6 * n /\ n * (9 + 2 - 6) = 5 * n
          /\ n * (9 + 2 - 7) = 4 * n /\ n * (9 + 2 - 8) = 3 * n /\ n * (9 + 2 - 9) = 2 * n
    OBVIOUS
  <2>3. w[1] = 10 * d[1]
    BY <2>1, <2>2
  <2>4. w[2] = 9 * d[2]
    BY <2>1, <2>2
  <2>5. w[3] = 8 * d[3]
    BY <2>1, <2>2
  <2>6. w[4] = 7 * d[4]
    BY <2>1, <2>2
  <2>7. w[5] = 6 * d[5]
    BY <2>1, <2>2
  <2>8. w[6] = 5 * d[6]
    BY <2>1, <2>2
  <2>9. w[7] = 4 * d[7]
    BY <2>1, <2>2
  <2>10. w[8] = 3 * d[8]
    BY <2>1, <2>2
  <2>11. w[9] = 2 * d[9]
    BY <2>1, <2>2
  <2>12. \A i \in 1..9 : w[i] \in Int
    BY <2>1
  <2>13. Total(w, 1..9) = w[1] + w[2] + w[3] + w[4] + w[5] + w[6] + w[7] + w[8] + w[9]
    BY <2>12, TotalOfTen
  <2>14. Total(w, 1..9) = CpfSum1(d)
    BY <2>3, <2>4, <2>5, <2>6, <2>7, <2>8, <2>9, <2>10, <2>11, <2>13, Zenon DEF CpfSum1
  <2> QED
    BY <1>4, <2>1, <2>14, Zenon
<1>6. ASSUME Len(d) = 10  PROVE Check(d) = CpfDigit(CpfSum2(d))
  <2>1. DOMAIN d = 1..10 /\ \A i \in 1..10 : d[i] \in Nat /\ w[i] = d[i] * (10 + 2 - i) /\ w[i] \in Int
    BY <1>1, <1>2, <1>3, <1>6
  <2>2. \A n \in Nat :
          /\ n * (10 + 2 - 1) = 11 * n /\ n * (10 + 2 - 2) = 10 * n /\ n * (10 + 2 - 3) = 9 * n
          /\ n * (10 + 2 - 4) = 8 * n /\ n * (10 + 2 - 5) = 7 * n /\ n * (10 + 2 - 6) = 6 * n
          /\ n * (10 + 2 - 7) = 5 * n /\ n * (10 + 2 - 8) = 4 * n /\ n * (10 + 2 - 9) = 3 * n
          /\ n * (10 + 2 - 10) = 2 * n
    OBVIOUS
  <2>3. w[1] = 11 * d[1]
    BY <2>1, <2>2
  <2>4. w[2] = 10 * d[2]
    BY <2>1, <2>2
  <2>5. w[3] = 9 * d[3]
    BY <2>1, <2>2
  <2>6. w[4] = 8 * d[4]
    BY <2>1, <2>2
  <2>7. w[5] = 7 * d[5]
    BY <2>1, <2>2
  <2>8. w[6] = 6 * d[6]
    BY <2>1, <2>2
  <2>9. w[7] = 5 * d[7]
    BY <2>1, <2>2
  <2>10. w[8] = 4 * d[8]
    BY <2>1, <2>2
  <2>11. w[9] = 3 * d[9]
    BY <2>1, <2>2
  <2>12. w[10] = 2 * d[10]
    BY <2>1, <2>2
  <2>13. \A i \in 1..9 : w[i] \in Int
    <3>1. \A i \in 1..9 : i \in 1..10
      OBVIOUS
    <3> QED
      BY <2>1, <3>1
  <2>14. Total(w, 1..9) = w[1] + w[2] + w[3] + w[4] + w[5] + w[6] + w[7] + w[8] + w[9]
    BY <2>13, TotalOfTen
  <2>15. w[10] \in Int
    BY <2>1
  <2>16. Total(w, 1..10) = Total(w, 1..9) + w[10]
    BY <2>13, <2>15, TotalOfTen
  <2>17. Total(w, 1..10) = CpfSum2(d)
    BY <2>3, <2>4, <2>5, <2>6, <2>7, <2>8, <2>9, <2>10, <2>11, <2>12, <2>14, <2>16, Zenon DEF CpfSum2
  <2> QED
    BY <1>4, <1>6, <2>1, <2>17, Zenon
<1>7. ASSUME Len(d) \in {9, 10}  PROVE Check(d) \in Digit
  <2>1. CpfSum1(d) \in Nat /\ (Len(d) = 10 => CpfSum2(d) \in Nat)
    <3>1. /\ d[1] \in Nat /\ d[2] \in Nat /\ d[3] \in Nat /\ d[4] \in Nat /\ d[5] \in Nat
          /\ d[6] \in Nat /\ d[7] \in Nat /\ d[8] \in Nat /\ d[9] \in Nat
          /\ Len(d) = 10 => d[10] \in Nat
      BY <1>2, <1>7
    <3> QED
      BY <3>1, NatSums, ZenonT(60) DEF CpfSum1, CpfSum2
  <2>2. \A n \in Nat : CpfDigit(n) \in Digit
    BY SMT DEF CpfDigit, Digit
  <2> QED
    BY <1>5, <1>6, <1>7, <2>1, <2>2
<1> QED
  BY <1>5, <1>6, <1>7

\* Append under a name that the provers leave folded.
More(s, e) == Append(s, e)

Extends(t, s, e, n) ==
  Len(t) = n + 1 /\ t[n + 1] = e /\ \A i \in 1..n : t[i] = s[i]

LEMMA OneMore ==
  ASSUME NEW S, NEW s \in Seq(S), NEW e \in S
  PROVE  More(s, e) \in Seq(S) /\ Extends(More(s, e), s, e, Len(s))
  BY AppendProperties, LenProperties DEF More, Extends

LEMMA OneMoreDigit ==
  \A s \in Seq(Digit), e \in Digit :
    More(s, e) \in Seq(Digit) /\ Extends(More(s, e), s, e, Len(s))
  BY OneMore

LEMMA OneMoreSymbol ==
  \A s \in Seq(Symbol), e \in Symbol :
    More(s, e) \in Seq(Symbol) /\ Extends(More(s, e), s, e, Len(s))
  BY OneMore

LEMMA CpfIsValid ==
  ASSUME NEW d \in Seq(Digit), Len(d) = 9, ~Repeated(d)
  PROVE  ValidateCpf(Cpf(d))
<1> DEFINE a == Check(d)
           first == More(d, a)
           b == Check(first)
           all == More(first, b)
<1>1. a = CpfDigit(CpfSum1(d)) /\ a \in Digit
  BY CheckIs
<1> HIDE DEF a
<1>2. /\ first \in Seq(Digit) /\ Len(first) = 10 /\ first[10] = a
      /\ \A i \in 1..9 : first[i] = d[i]
  <2>1. More(d, a) \in Seq(Digit) /\ Extends(More(d, a), d, a, 9)
    BY <1>1, OneMoreDigit
  <2> QED
    BY <2>1 DEF Extends
<1> HIDE DEF first
<1>3. b = CpfDigit(CpfSum2(first)) /\ b \in Digit
  BY <1>2, CheckIs
<1> HIDE DEF b
<1>4. /\ all \in Seq(Digit) /\ Len(all) = 11 /\ all[11] = b
      /\ \A i \in 1..10 : all[i] = first[i]
  <2>1. More(first, b) \in Seq(Digit) /\ Extends(More(first, b), first, b, 10)
    BY <1>2, <1>3, OneMoreDigit
  <2> QED
    BY <2>1 DEF Extends
<1> HIDE DEF all
<1>5. \A i \in 1..9 : all[i] = d[i]
  BY <1>2, <1>4
<1>6. all[10] = a
  BY <1>2, <1>4
<1>7. /\ all[1] = d[1] /\ all[2] = d[2] /\ all[3] = d[3] /\ all[4] = d[4] /\ all[5] = d[5]
      /\ all[6] = d[6] /\ all[7] = d[7] /\ all[8] = d[8] /\ all[9] = d[9]
  BY <1>5
<1>8. /\ all[1] = first[1] /\ all[2] = first[2] /\ all[3] = first[3] /\ all[4] = first[4]
      /\ all[5] = first[5] /\ all[6] = first[6] /\ all[7] = first[7] /\ all[8] = first[8]
      /\ all[9] = first[9] /\ all[10] = first[10]
  BY <1>4
<1>9. ~Repeated(all)
  <2>1. DOMAIN d = 1..9 /\ DOMAIN all = 1..11
    BY <1>4, LenProperties
  <2>2. PICK i \in 1..9 : d[i] # d[1]
    BY <2>1 DEF Repeated
  <2> QED
    BY <1>5, <1>7, <2>1, <2>2 DEF Repeated
<1>10. Cpf(d) = all
  BY DEF Cpf, all, b, first, a, More
<1>11. CpfSum1(all) = CpfSum1(d)
  BY <1>7 DEF CpfSum1
<1>12. CpfSum2(all) = CpfSum2(first)
  BY <1>8 DEF CpfSum2
<1> QED
  BY <1>1, <1>3, <1>4, <1>6, <1>9, <1>10, <1>11, <1>12 DEF ValidateCpf

LEMMA ClientsAccepted == ASSUME NEW i \in 1..8 PROVE Accepts("clients", i)
<1>1. ASSUME NEW d \in Seq(Digit), Len(d) = 9, d[2] # d[1]  PROVE ValidateCpf(Cpf(d))
  <2>1. ~Repeated(d)
    <3>1. 2 \in DOMAIN d
      BY <1>1, LenProperties
    <3> QED
      BY <1>1, <3>1 DEF Repeated
  <2> QED
    BY <1>1, <2>1, CpfIsValid
<1>2. ASSUME NEW d \in Seq(Digit), Len(d) = 9, d[4] # d[1]  PROVE ValidateCpf(Cpf(d))
  <2>1. ~Repeated(d)
    <3>1. 4 \in DOMAIN d
      BY <1>2, LenProperties
    <3> QED
      BY <1>2, <3>1 DEF Repeated
  <2> QED
    BY <1>2, <2>1, CpfIsValid
<1>3. /\ CLIENTS[1] = <<5,2,9,9,8,2,2,4,7>> /\ CLIENTS[2] = <<1,1,1,4,4,4,7,7,7>>
      /\ CLIENTS[3] = <<3,9,0,5,3,3,4,4,7>> /\ CLIENTS[4] = <<1,2,8,1,4,3,7,4,0>>
      /\ CLIENTS[5] = <<2,4,6,8,1,3,5,7,9>> /\ CLIENTS[6] = <<1,3,5,7,9,2,4,6,8>>
      /\ CLIENTS[7] = <<8,6,4,1,9,7,5,3,2>> /\ CLIENTS[8] = <<7,5,3,1,9,8,6,4,2>>
  BY DEF CLIENTS
<1> DEFINE Fine(d) == d \in Seq(Digit) /\ Len(d) = 9 /\ (d[2] # d[1] \/ d[4] # d[1])
<1>4. Fine(CLIENTS[1])
  <2>1. Fine(<<5,2,9,9,8,2,2,4,7>>)
    BY DEF Digit
  <2> QED
    BY <1>3, <2>1
<1>5. Fine(CLIENTS[2])
  <2>1. Fine(<<1,1,1,4,4,4,7,7,7>>)
    BY DEF Digit
  <2> QED
    BY <1>3, <2>1
<1>6. Fine(CLIENTS[3])
  <2>1. Fine(<<3,9,0,5,3,3,4,4,7>>)
    BY DEF Digit
  <2> QED
    BY <1>3, <2>1
<1>7. Fine(CLIENTS[4])
  <2>1. Fine(<<1,2,8,1,4,3,7,4,0>>)
    BY DEF Digit
  <2> QED
    BY <1>3, <2>1
<1>8. Fine(CLIENTS[5])
  <2>1. Fine(<<2,4,6,8,1,3,5,7,9>>)
    BY DEF Digit
  <2> QED
    BY <1>3, <2>1
<1>9. Fine(CLIENTS[6])
  <2>1. Fine(<<1,3,5,7,9,2,4,6,8>>)
    BY DEF Digit
  <2> QED
    BY <1>3, <2>1
<1>10. Fine(CLIENTS[7])
  <2>1. Fine(<<8,6,4,1,9,7,5,3,2>>)
    BY DEF Digit
  <2> QED
    BY <1>3, <2>1
<1>11. Fine(CLIENTS[8])
  <2>1. Fine(<<7,5,3,1,9,8,6,4,2>>)
    BY DEF Digit
  <2> QED
    BY <1>3, <2>1
<1>13. Fine(CLIENTS[i])
  <2> HIDE DEF Fine
  <2> QED
    BY <1>4, <1>5, <1>6, <1>7, <1>8, <1>9, <1>10, <1>11
<1>14. ValidateCpf(Cpf(CLIENTS[i]))
  BY <1>1, <1>2, <1>13
<1> QED
  BY <1>14 DEF Accepts

LEMMA VehiclesAccepted == ASSUME NEW i \in 1..10 PROVE Accepts("vehicles", i)
<1> DEFINE raw == <<"A", "A", "A", "-", "0", "A", "0", "0">>
           k == Kept(raw, Separators)
<1>1. /\ raw \in Seq(Symbol) /\ Len(raw) = 8
      /\ raw[1] = "A" /\ raw[2] = "A" /\ raw[3] = "A" /\ raw[4] = "-" /\ raw[5] = "0"
      /\ raw[6] = "A" /\ raw[7] = "0" /\ raw[8] = "0"
  BY DEF Symbol
<1>2. VEHICLES[i] = raw
  BY DEF VEHICLES
<1> HIDE DEF raw
<1>3. /\ Without(raw, Separators) = k[8] /\ k[0] = <<>>
      /\ \A n \in 1..8 :
           k[n] = IF raw[n] \in Separators THEN k[n - 1] ELSE More(k[n - 1], raw[n])
  <2>1. /\ Without(raw, Separators) = k[Len(raw)] /\ k[0] = <<>>
        /\ \A n \in 1..Len(raw) :
             k[n] = IF raw[n] \in Separators THEN k[n - 1] ELSE Append(k[n - 1], raw[n])
    <3>1. raw \in Seq(Symbol)
      BY <1>1
    <3> QED
      BY <3>1, WithoutStep
  <2> HIDE DEF k
  <2>2. Len(raw) = 8
    BY <1>1
  <2> QED
    BY <2>1, <2>2, Zenon DEF More
<1> HIDE DEF k
<1>4. /\ k[1] = More(k[0], "A") /\ k[2] = More(k[1], "A") /\ k[3] = More(k[2], "A")
      /\ k[4] = k[3] /\ k[5] = More(k[4], "0") /\ k[6] = More(k[5], "A")
      /\ k[7] = More(k[6], "0") /\ k[8] = More(k[7], "0")
  <2>1. \A m \in 0..7 : k[m + 1] = IF raw[m + 1] \in Separators THEN k[m] ELSE More(k[m], raw[m + 1])
    <3> TAKE m \in 0..7
    <3>1. m + 1 \in 1..8 /\ (m + 1) - 1 = m
      OBVIOUS
    <3> QED
      BY <1>3, <3>1
  <2>2. "A" \notin Separators /\ "0" \notin Separators /\ "-" \in Separators
    BY DEF Separators
  <2>3. k[1] = More(k[0], "A")
    BY <1>1, <2>1, <2>2
  <2>4. k[2] = More(k[1], "A")
    BY <1>1, <2>1, <2>2
  <2>5. k[3] = More(k[2], "A")
    BY <1>1, <2>1, <2>2
  <2>6. k[4] = k[3]
    BY <1>1, <2>1, <2>2
  <2>7. k[5] = More(k[4], "0")
    BY <1>1, <2>1, <2>2
  <2>8. k[6] = More(k[5], "A")
    BY <1>1, <2>1, <2>2
  <2>9. k[7] = More(k[6], "0")
    BY <1>1, <2>1, <2>2
  <2>10. k[8] = More(k[7], "0")
    BY <1>1, <2>1, <2>2
  <2> QED
    BY <2>3, <2>4, <2>5, <2>6, <2>7, <2>8, <2>9, <2>10
<1>5. k[8] = MercosulPlate
  <2>2. "A" \in Symbol /\ "0" \in Symbol
    BY DEF Symbol
  <2>3. k[0] \in Seq(Symbol) /\ Len(k[0]) = 0
    BY <1>3
  <2>4. k[1] \in Seq(Symbol) /\ Extends(k[1], k[0], "A", 0)
    <3>1. k[0] \in Seq(Symbol) /\ Len(k[0]) = 0
      BY <1>4, <2>3
    <3>2. k[1] = More(k[0], "A")
      BY <1>4
    <3>3. More(k[0], "A") \in Seq(Symbol) /\ Extends(More(k[0], "A"), k[0], "A", Len(k[0]))
      BY <2>2, <3>1, OneMoreSymbol
    <3> QED
      BY <3>1, <3>2, <3>3
  <2>5. /\ k[1] \in Seq(Symbol) /\ Len(k[1]) = 1
        /\ k[1][1] = "A"
    BY <1>4, <2>3, <2>4 DEF Extends
  <2>6. k[2] \in Seq(Symbol) /\ Extends(k[2], k[1], "A", 1)
    <3>1. k[1] \in Seq(Symbol) /\ Len(k[1]) = 1
      BY <1>4, <2>5
    <3>2. k[2] = More(k[1], "A")
      BY <1>4
    <3>3. More(k[1], "A") \in Seq(Symbol) /\ Extends(More(k[1], "A"), k[1], "A", Len(k[1]))
      BY <2>2, <3>1, OneMoreSymbol
    <3> QED
      BY <3>1, <3>2, <3>3
  <2>7. /\ k[2] \in Seq(Symbol) /\ Len(k[2]) = 2
        /\ k[2][1] = "A" /\ k[2][2] = "A"
    BY <1>4, <2>5, <2>6 DEF Extends
  <2>8. k[3] \in Seq(Symbol) /\ Extends(k[3], k[2], "A", 2)
    <3>1. k[2] \in Seq(Symbol) /\ Len(k[2]) = 2
      BY <1>4, <2>7
    <3>2. k[3] = More(k[2], "A")
      BY <1>4
    <3>3. More(k[2], "A") \in Seq(Symbol) /\ Extends(More(k[2], "A"), k[2], "A", Len(k[2]))
      BY <2>2, <3>1, OneMoreSymbol
    <3> QED
      BY <3>1, <3>2, <3>3
  <2>9. /\ k[3] \in Seq(Symbol) /\ Len(k[3]) = 3
        /\ k[3][1] = "A" /\ k[3][2] = "A" /\ k[3][3] = "A"
    BY <1>4, <2>7, <2>8 DEF Extends
  <2>10. k[5] \in Seq(Symbol) /\ Extends(k[5], k[4], "0", 3)
    <3>1. k[4] \in Seq(Symbol) /\ Len(k[4]) = 3
      BY <1>4, <2>9
    <3>2. k[5] = More(k[4], "0")
      BY <1>4
    <3>3. More(k[4], "0") \in Seq(Symbol) /\ Extends(More(k[4], "0"), k[4], "0", Len(k[4]))
      BY <2>2, <3>1, OneMoreSymbol
    <3> QED
      BY <3>1, <3>2, <3>3
  <2>11. /\ k[5] \in Seq(Symbol) /\ Len(k[5]) = 4
        /\ k[5][1] = "A" /\ k[5][2] = "A" /\ k[5][3] = "A" /\ k[5][4] = "0"
    BY <1>4, <2>9, <2>10 DEF Extends
  <2>12. k[6] \in Seq(Symbol) /\ Extends(k[6], k[5], "A", 4)
    <3>1. k[5] \in Seq(Symbol) /\ Len(k[5]) = 4
      BY <1>4, <2>11
    <3>2. k[6] = More(k[5], "A")
      BY <1>4
    <3>3. More(k[5], "A") \in Seq(Symbol) /\ Extends(More(k[5], "A"), k[5], "A", Len(k[5]))
      BY <2>2, <3>1, OneMoreSymbol
    <3> QED
      BY <3>1, <3>2, <3>3
  <2>13. /\ k[6] \in Seq(Symbol) /\ Len(k[6]) = 5
        /\ k[6][1] = "A" /\ k[6][2] = "A" /\ k[6][3] = "A" /\ k[6][4] = "0" /\ k[6][5] = "A"
    BY <1>4, <2>11, <2>12 DEF Extends
  <2>14. k[7] \in Seq(Symbol) /\ Extends(k[7], k[6], "0", 5)
    <3>1. k[6] \in Seq(Symbol) /\ Len(k[6]) = 5
      BY <1>4, <2>13
    <3>2. k[7] = More(k[6], "0")
      BY <1>4
    <3>3. More(k[6], "0") \in Seq(Symbol) /\ Extends(More(k[6], "0"), k[6], "0", Len(k[6]))
      BY <2>2, <3>1, OneMoreSymbol
    <3> QED
      BY <3>1, <3>2, <3>3
  <2>15. /\ k[7] \in Seq(Symbol) /\ Len(k[7]) = 6
        /\ k[7][1] = "A" /\ k[7][2] = "A" /\ k[7][3] = "A" /\ k[7][4] = "0" /\ k[7][5] = "A"
        /\ k[7][6] = "0"
    BY <1>4, <2>13, <2>14 DEF Extends
  <2>16. k[8] \in Seq(Symbol) /\ Extends(k[8], k[7], "0", 6)
    <3>1. k[7] \in Seq(Symbol) /\ Len(k[7]) = 6
      BY <1>4, <2>15
    <3>2. k[8] = More(k[7], "0")
      BY <1>4
    <3>3. More(k[7], "0") \in Seq(Symbol) /\ Extends(More(k[7], "0"), k[7], "0", Len(k[7]))
      BY <2>2, <3>1, OneMoreSymbol
    <3> QED
      BY <3>1, <3>2, <3>3
  <2>17. /\ k[8] \in Seq(Symbol) /\ Len(k[8]) = 7
        /\ k[8][1] = "A" /\ k[8][2] = "A" /\ k[8][3] = "A" /\ k[8][4] = "0" /\ k[8][5] = "A"
        /\ k[8][6] = "0" /\ k[8][7] = "0"
    BY <1>4, <2>15, <2>16 DEF Extends
  <2>18. MercosulPlate \in Seq(Symbol) /\ Len(MercosulPlate) = 7
    BY DEF MercosulPlate, Symbol
  <2>19. \A m \in 1..7 : k[8][m] = MercosulPlate[m]
    BY <2>17 DEF MercosulPlate
  <2> QED
    BY <2>17, <2>18, <2>19, SeqEqual
<1>6. UpperCase(MercosulPlate) = MercosulPlate
  BY DEF UpperCase, MercosulPlate, Upper
<1> QED
  BY <1>2, <1>3, <1>5, <1>6 DEF Accepts, PlateAccepted, Normalize, Separators

-----------------------------------------------------------------------------
(* The invariant is inductive.                                             *)

LEMMA SeedStarts == SeedInit => SeedIInv
<1> SUFFICES ASSUME SeedInit PROVE SeedIInv
  OBVIOUS
<1>1. /\ base = [t \in TableName |-> 0] /\ stock = [p \in 1..12 |-> 0] /\ opened = <<>>
      /\ seeder = [s \in Seeders |-> Resting]
  BY TablesAre, PartsAre DEF SeedInit
<1>2. Resting \in Run /\ Resting.phase = "resting"
  BY DEF Resting, Run, Phase, Ended
<1>3. \A s \in Seeders : seeder[s] \in Run /\ ~Leads(s) /\ ~At(s, "refused")
  BY <1>1, <1>2 DEF Leads, At
<1>4. SeedTypes
  BY <1>1, <1>2 DEF SeedTypes
<1>5. OneLeads /\ LeadersWereFirst /\ RefusedAtOnce /\ LeadersStand
  BY <1>3 DEF OneLeads, LeadersWereFirst, RefusedAtOnce, LeadersStand
<1>6. BlankUntilLed
  BY <1>1 DEF BlankUntilLed, Blank
<1> QED
  BY <1>4, <1>5, <1>6 DEF SeedIInv

\* A run that stands where it stood, and finds the base as it was, does so still.
LEMMA StandsStill ==
  ASSUME NEW s, UNCHANGED <<base, stock, opened>>, seeder'[s] = seeder[s]
  PROVE  /\ Leads(s)' <=> Leads(s)
         /\ \A x : At(s, x)' <=> At(s, x)
         /\ Stands(s) => Stands(s)'
<1>1. Leads(s)' <=> Leads(s)
  BY DEF Leads, At
<1>2. \A x : At(s, x)' <=> At(s, x)
  BY DEF At
<1>3. ASSUME Stands(s) PROVE Stands(s)'
  <2>1. \A k \in 1..4 : \A i : AtTable(k, i) => AtTable(k, i)'
    BY DEF AtTable
  <2>2. \A i : (AtOpen(i) => AtOpen(i)') /\ (AtDone => AtDone')
    BY DEF AtOpen, AtDone, Served, LeftAfter
  <2>3. \A i, steps : AtDecide(i, steps) => AtDecide(i, steps)'
    BY DEF AtDecide, Served, LeftAfter
  <2>4. \A i, steps : AtPatch(i, steps) => AtPatch(i, steps)'
    BY DEF AtPatch, Served, LeftAfter
  <2> QED
    BY <1>2, <1>3, <2>1, <2>2, <2>3, <2>4 DEF Stands
<1> QED
  BY <1>1, <1>2, <1>3

\* A step that changes the run only, and after which it does not lead.
LEMMA StandsBack ==
  ASSUME SeedIInv, NEW s \in Seeders, NEW r \in Run, UNCHANGED <<base, stock, opened>>,
         seeder' = [seeder EXCEPT ![s] = r], r.phase \in Ended \union {"clients"}, r.phase # "done",
         r.phase = "clients" => r.at = 1,
         r.phase = "refused" => base["clients"] > 0 /\ r.stopped = "clients" /\ r.at = 1
  PROVE  SeedIInv'
<1>1. /\ SeedTypes /\ OneLeads /\ LeadersWereFirst /\ RefusedAtOnce /\ BlankUntilLed /\ LeadersStand
  BY DEF SeedIInv
<1>2. seeder'[s] = r /\ \A t \in Seeders : t # s => seeder'[t] = seeder[t]
  BY <1>1 DEF SeedTypes
<1>3. ~Leads(s)' /\ (At(s, "refused")' <=> r.phase = "refused")
  BY <1>2 DEF Leads, At, Ended
<1>4. \A t \in Seeders : t # s => /\ Leads(t)' <=> Leads(t)
                                  /\ At(t, "refused")' <=> At(t, "refused")
                                  /\ Stands(t) => Stands(t)'
  BY <1>2, StandsStill
<1>5. SeedTypes'
  BY <1>1 DEF SeedTypes
<1>6. OneLeads' /\ LeadersWereFirst'
  BY <1>1, <1>3, <1>4 DEF OneLeads, LeadersWereFirst
<1>7. RefusedAtOnce'
  BY <1>1, <1>2, <1>3, <1>4 DEF RefusedAtOnce
<1>8. BlankUntilLed'
  BY <1>1 DEF BlankUntilLed, Blank
<1>9. LeadersStand'
  BY <1>1, <1>3, <1>4 DEF LeadersStand
<1> QED
  BY <1>5, <1>6, <1>7, <1>8, <1>9 DEF SeedIInv

\* A step after which the run leads, where no other does.
LEMMA StandsAhead ==
  ASSUME SeedIInv, NEW s \in Seeders, SeedTypes', \A t \in Seeders : t # s => seeder'[t] = seeder[t],
         Leads(s)', \A t \in Seeders : t # s => ~Leads(t), base'["clients"] > 0, Stands(s)'
  PROVE  SeedIInv'
<1>1. RefusedAtOnce
  BY DEF SeedIInv
<1>2. ~At(s, "refused")'
  BY DEF Leads, At
<1>3. \A t \in Seeders : t # s => ~Leads(t)' /\ (At(t, "refused")' <=> At(t, "refused"))
  BY DEF Leads, At
<1>4. OneLeads' /\ LeadersWereFirst'
  BY <1>3 DEF OneLeads, LeadersWereFirst
<1>5. RefusedAtOnce'
  BY <1>1, <1>2, <1>3 DEF RefusedAtOnce
<1>6. BlankUntilLed'
  BY DEF BlankUntilLed
<1>7. LeadersStand'
  BY <1>3 DEF LeadersStand
<1> QED
  BY <1>4, <1>5, <1>6, <1>7 DEF SeedIInv

LEMMA RestingIs ==
  /\ Resting \in Run /\ Resting.at = 1
  /\ \A x \in Phase : [Resting EXCEPT !.phase = x] \in Run
                      /\ [Resting EXCEPT !.phase = x].phase = x /\ [Resting EXCEPT !.phase = x].at = 1
<1>1. Resting \in Run /\ Resting.at = 1
  BY DEF Resting, Run, Phase, Ended
<1> HIDE DEF Resting
<1>2. ASSUME NEW x \in Phase
      PROVE  [Resting EXCEPT !.phase = x] \in Run /\ [Resting EXCEPT !.phase = x].phase = x
             /\ [Resting EXCEPT !.phase = x].at = 1
  BY <1>1 DEF Run
<1> QED
  BY <1>1, <1>2

LEMMA BeginKeeps ==
  ASSUME SeedIInv, NEW s \in Seeders, Begin(s) \/ Kill(s)
  PROVE  SeedIInv'
<1>1. CASE Kill(s)
  <2> DEFINE r == [Resting EXCEPT !.phase = "killed"]
  <2>1. r \in Run /\ r.phase = "killed"
    <3>1. "killed" \in Phase
      BY DEF Phase, Ended
    <3> QED
      BY <3>1, RestingIs
  <2>2. seeder' = [seeder EXCEPT ![s] = r] /\ UNCHANGED <<base, stock, opened>>
    BY <1>1 DEF Kill
  <2> HIDE DEF r
  <2> QED
    BY <2>1, <2>2, StandsBack DEF Ended
<1>2. CASE Begin(s)
  <2>1. PICK x \in {"skipped", "clients"} : seeder' = [seeder EXCEPT ![s] = [Resting EXCEPT !.phase = x]]
    BY <1>2 DEF Begin
  <2> DEFINE r == [Resting EXCEPT !.phase = x]
  <2>2. r \in Run /\ r.phase = x /\ r.at = 1
    <3>1. x \in Phase
      BY DEF Phase, Ended, TableName
    <3> QED
      BY <3>1, RestingIs
  <2>3. seeder' = [seeder EXCEPT ![s] = r] /\ UNCHANGED <<base, stock, opened>>
    BY <1>2, <2>1 DEF Begin
  <2> HIDE DEF r
  <2> QED
    BY <2>2, <2>3, StandsBack DEF Ended
<1> QED
  BY <1>1, <1>2

\* What a run that leads, or that registers a first client, finds.
LEMMA RegisterStands ==
  ASSUME SeedIInv, NEW s \in Seeders, NEW k \in 1..4, At(s, Tables[k]),
         Leads(s) \/ base["clients"] = 0
  PROVE  /\ AtTable(k, seeder[s].at) /\ Accepts(Tables[k], seeder[s].at)
         /\ \A t \in Seeders : t # s => ~Leads(t)
<1>1. AtTable(k, seeder[s].at) /\ \A t \in Seeders : t # s => ~Leads(t)
  <2>1. CASE Leads(s)
    BY <2>1 DEF SeedIInv, LeadersStand, Stands, OneLeads
  <2>2. CASE base["clients"] = 0 /\ ~Leads(s)
    <3>1. Tables[k] = "clients" /\ seeder[s].at = 1
      BY <2>2, TablesAre DEF Leads, At
    <3>2. k = 1
      BY <3>1, TablesAre
    <3>3. Blank /\ \A t \in Seeders : ~Leads(t)
      BY <2>2 DEF SeedIInv, BlankUntilLed, LeadersWereFirst
    <3>4. AtTable(1, 1)
      <4>1. \A j \in 1..4 : base[Tables[j]] = 0
        BY <3>3, TablesAre DEF Blank, TableName
      <4>2. 1 \in 1..RowsOf(Tables[1])
        BY TablesAre, RowsAre
      <4>3. opened = <<>> /\ base["parts"] = 0 /\ \A p \in 1..12 : stock[p] = 0
        BY <3>3 DEF Blank, TableName
      <4> QED
        BY <4>1, <4>2, <4>3 DEF AtTable
    <3> QED
      BY <3>1, <3>2, <3>3, <3>4
  <2> QED
    BY <2>1, <2>2
<1>2. Accepts(Tables[k], seeder[s].at)
  <2>1. seeder[s].at \in 1..RowsOf(Tables[k])
    BY <1>1 DEF AtTable
  <2>2. CASE k = 1
    BY <2>1, <2>2, TablesAre, RowsAre, ClientsAccepted
  <2>3. CASE k = 2
    BY <2>1, <2>3, TablesAre, RowsAre, VehiclesAccepted
  <2>4. CASE k \in {3, 4}
    BY <2>4, TablesAre DEF Accepts
  <2> QED
    BY <2>2, <2>3, <2>4
<1> QED
  BY <1>1, <1>2

\* The order in which the tables are filled.
LEMMA TablesDiffer ==
  /\ \A j, k \in 1..4 : Tables[j] = Tables[k] => j = k
  /\ \A k \in 1..4 : /\ Tables[k] \in TableName /\ After(k) = IF k = 4 THEN "open" ELSE Tables[k + 1]
                     /\ RowsOf(Tables[k]) \in Nat /\ RowsOf(Tables[k]) > 1
  BY TablesAre, RowsAre DEF TableName

LEMMA RegisterKeeps ==
  ASSUME SeedIInv, NEW s \in Seeders, Register(s)
  PROVE  SeedIInv'
<1>0. PICK i \in Nat : i = seeder[s].at
  BY DEF SeedIInv, SeedTypes, Run
<1>1. PICK k \in 1..4 :
        /\ At(s, Tables[k])
        /\ IF base[Tables[k]] < i /\ Accepts(Tables[k], i)
           THEN /\ base' = [base EXCEPT ![Tables[k]] = i]
                /\ stock' = IF Tables[k] = "parts" THEN [stock EXCEPT ![i] = PARTS[i]] ELSE stock
                /\ IF i = RowsOf(Tables[k]) THEN Goes(s, After(k), 1) ELSE Goes(s, Tables[k], i + 1)
                /\ UNCHANGED opened
           ELSE Refused(s)
  BY <1>0, TablesAre DEF Register
<1>2. SeedTypes /\ seeder[s] \in Run /\ i \in Nat /\ i = seeder[s].at
  BY <1>0 DEF SeedIInv, SeedTypes
<1> DEFINE t == Tables[k]
<1>3. t \in TableName /\ base[t] \in Nat /\ base["clients"] \in Nat
  BY <1>2, TablesDiffer DEF SeedTypes, TableName
<1>4. CASE ~Leads(s) /\ base["clients"] > 0
  <2>1. t = "clients" /\ i = 1
    BY <1>0, <1>1, <1>4, TablesAre DEF Leads, At
  <2>2. Refused(s)
    BY <1>1, <1>3, <1>4, <2>1
  <2> DEFINE r == [seeder[s] EXCEPT !.phase = "refused", !.stopped = "clients"]
  <2>3. seeder' = [seeder EXCEPT ![s] = r] /\ UNCHANGED <<base, stock, opened>>
    BY <1>1, <1>2, <2>1, <2>2 DEF Refused, At, SeedTypes
  <2>4. r \in Run /\ r.phase = "refused" /\ r.stopped = "clients" /\ r.at = 1
    BY <1>2, <2>1 DEF Run, Phase, Ended, TableName
  <2> HIDE DEF r
  <2> QED
    BY <1>4, <2>3, <2>4, StandsBack DEF Ended
<1>5. CASE Leads(s) \/ base["clients"] = 0
  <2>1. AtTable(k, i) /\ Accepts(t, i) /\ \A u \in Seeders : u # s => ~Leads(u)
    BY <1>0, <1>1, <1>5, RegisterStands
  <2>2. /\ i \in 1..RowsOf(t) /\ base[t] = i - 1 /\ opened = <<>>
        /\ \A j \in 1..4 :
             base[Tables[j]] = IF j < k THEN RowsOf(Tables[j]) ELSE IF j = k THEN i - 1 ELSE 0
        /\ \A p \in 1..12 : stock[p] = IF p <= base["parts"] THEN PARTS[p] ELSE 0
    BY <2>1 DEF AtTable
  <2>3. /\ base' = [base EXCEPT ![t] = i]
        /\ stock' = IF t = "parts" THEN [stock EXCEPT ![i] = PARTS[i]] ELSE stock
        /\ IF i = RowsOf(t) THEN Goes(s, After(k), 1) ELSE Goes(s, t, i + 1)
        /\ opened' = opened
    BY <1>1, <2>1, <2>2
  <2>4. /\ base'[t] = i
        /\ \A j \in 1..4 : base'[Tables[j]] = IF j < k THEN RowsOf(Tables[j]) ELSE IF j = k THEN i ELSE 0
    <3>1. base'[t] = i /\ \A x \in TableName : x # t => base'[x] = base[x]
      BY <1>2, <1>3, <2>3 DEF SeedTypes
    <3>2. \A j \in 1..4 : j # k => base'[Tables[j]] = base[Tables[j]]
      <4> HIDE DEF t
      <4> QED
        BY <3>1, TablesDiffer DEF t
    <3> QED
      BY <2>2, <3>1, <3>2
  <2>5. /\ stock' \in [1..12 -> Int]
        /\ \A p \in 1..12 : stock'[p] = IF p <= base'["parts"] THEN PARTS[p] ELSE 0
    <3>1. CASE t = "parts"
      <4>1. i \in 1..12 /\ base["parts"] = i - 1 /\ base'["parts"] = i /\ PARTS[i] \in Int
        <5>1. RowsOf(t) = 12
          BY <3>1, RowsAre
        <5>2. base["parts"] = i - 1 /\ base'["parts"] = i
          BY <2>2, <2>4, <3>1
        <5>3. i \in 1..12
          BY <2>2, <5>1
        <5>4. PARTS[i] \in Int
          BY <5>3, PartsAre
        <5> QED
          BY <5>2, <5>3, <5>4
      <4>2. stock' = [stock EXCEPT ![i] = PARTS[i]] /\ stock \in [1..12 -> Int]
        BY <1>2, <2>3, <3>1 DEF SeedTypes
      <4> HIDE DEF t
      <4>3. /\ stock' \in [1..12 -> Int] /\ stock'[i] = PARTS[i]
            /\ \A p \in 1..12 : p # i => stock'[p] = stock[p]
        BY <4>1, <4>2
      <4>4. \A p \in 1..12 : p # i => (p <= i - 1 <=> p <= i)
        BY <4>1
      <4> QED
        <5>1. \A p \in 1..12 : stock[p] = IF p <= i - 1 THEN PARTS[p] ELSE 0
          BY <2>2, <4>1
        <5>2. ASSUME NEW p \in 1..12 PROVE stock'[p] = IF p <= i THEN PARTS[p] ELSE 0
          BY <4>1, <4>3, <4>4, <5>1
        <5> QED
          BY <4>1, <4>3, <5>2
    <3>2. CASE t # "parts"
      <4>1. base'["parts"] = base["parts"]
        BY <1>2, <2>3, <3>2 DEF SeedTypes, TableName
      <4> QED
        BY <1>2, <2>2, <2>3, <3>2, <4>1 DEF SeedTypes
    <3> QED
      BY <3>1, <3>2
  <2>6. base'["clients"] > 0
    <3>1. base'[Tables[1]] = IF 1 < k THEN RowsOf(Tables[1]) ELSE i
      BY <2>4
    <3>2. RowsOf(Tables[1]) > 0
      BY TablesAre, RowsAre
    <3> QED
      BY <2>2, <3>1, <3>2, TablesAre
  <2> DEFINE next == IF i = RowsOf(t) THEN After(k) ELSE t
             at == IF i = RowsOf(t) THEN 1 ELSE i + 1
             r == [seeder[s] EXCEPT !.phase = next, !.at = at]
  <2>7. seeder' = [seeder EXCEPT ![s] = r]
    BY <1>2, <2>3 DEF Goes, SeedTypes
  <2>8. next \in Phase /\ at \in Nat
    BY <1>2, <1>3, TablesDiffer, TablesAre DEF Phase, TableName
  <2> HIDE DEF next, at
  <2>9. r \in Run /\ r.phase = next /\ r.at = at
    BY <1>2, <2>8 DEF Run
  <2> HIDE DEF r
  <2>10. /\ seeder'[s] = r /\ seeder' \in [Seeders -> Run]
         /\ \A u \in Seeders : u # s => seeder'[u] = seeder[u]
    BY <1>2, <2>7, <2>9 DEF SeedTypes
  <2>11. SeedTypes'
    <3>1. base' \in [TableName -> Nat]
      BY <1>2, <1>3, <2>3 DEF SeedTypes
    <3> QED
      BY <1>2, <2>3, <2>5, <2>10, <3>1 DEF SeedTypes
  <2>12. Leads(s)' /\ Stands(s)'
    <3>1. CASE i # RowsOf(t)
      <4>1. next = t /\ at = i + 1 /\ at # 1
        BY <2>2, <3>1 DEF next, at
      <4>2. AtTable(k, i + 1)'
        <5>1. i + 1 \in 1..RowsOf(t) /\ (i + 1) - 1 = i
          <6>1. RowsOf(t) \in Nat
            BY TablesDiffer
          <6> HIDE DEF t
          <6> QED
            BY <2>2, <3>1, <6>1
        <5>2. \A j \in 1..4 : base'[Tables[j]] =
                IF j < k THEN RowsOf(Tables[j]) ELSE IF j = k THEN (i + 1) - 1 ELSE 0
          BY <2>4, <5>1
        <5> QED
          BY <2>2, <2>3, <2>5, <5>1, <5>2 DEF AtTable
      <4>3. Leads(s)'
        BY <1>3, <2>9, <2>10, <4>1 DEF Leads, At, TableName
      <4>4. \A j \in 1..4 : At(s, Tables[j])' => j = k
        BY <2>9, <2>10, <4>1, TablesDiffer DEF At
      <4>5. t \notin {"open", "decide", "patch", "done"}
        BY <1>3 DEF TableName
      <4>6. seeder'[s].phase = t /\ seeder'[s].at = i + 1
        BY <2>9, <2>10, <4>1
      <4>7. \A j \in 1..4 : At(s, Tables[j])' => AtTable(j, seeder[s].at)'
        BY <4>2, <4>4, <4>6
      <4>8. ~At(s, "open")' /\ ~At(s, "decide")' /\ ~At(s, "patch")' /\ ~At(s, "done")'
        BY <4>5, <4>6 DEF At
      <4> QED
        BY <4>3, <4>7, <4>8 DEF Stands
    <3>2. CASE i = RowsOf(t) /\ k # 4
      <4>1. k + 1 \in 1..4 /\ next = Tables[k + 1] /\ at = 1
        BY <3>2, TablesDiffer DEF next, at
      <4>2. AtTable(k + 1, 1)'
        <5>1. 1 \in 1..RowsOf(Tables[k + 1])
          BY <4>1, TablesDiffer
        <5>2. \A j \in 1..4 : base'[Tables[j]] =
                IF j < k + 1 THEN RowsOf(Tables[j]) ELSE IF j = k + 1 THEN 1 - 1 ELSE 0
          BY <2>4, <3>2
        <5> QED
          BY <2>2, <2>3, <2>5, <5>1, <5>2 DEF AtTable
      <4>3. next \in {"vehicles", "services", "parts"}
        BY <3>2, <4>1, TablesAre
      <4>4. Leads(s)'
        BY <2>9, <2>10, <4>3 DEF Leads, At
      <4>5. \A j \in 1..4 : At(s, Tables[j])' => j = k + 1
        BY <2>9, <2>10, <4>1, TablesDiffer DEF At
      <4> QED
        BY <2>9, <2>10, <4>1, <4>2, <4>3, <4>4, <4>5 DEF Stands, At
    <3>3. CASE i = RowsOf(t) /\ k = 4
      <4>1. next = "open" /\ at = 1
        BY <3>3, TablesDiffer DEF next, at
      <4>2. AtOpen(1)'
        <5>1. base'["parts"] = 12
          BY <2>4, <3>3, TablesAre, RowsAre
        <5>2. \A p \in 1..12 : stock'[p] = PARTS[p]
          BY <2>5, <5>1
        <5>3. LeftAfter(0)'
          BY <5>2, PartsAre DEF LeftAfter, Taken
        <5> QED
          BY <2>2, <2>3, <5>3 DEF AtOpen, Served
      <4>3. Leads(s)'
        BY <2>9, <2>10, <4>1 DEF Leads, At
      <4>4. \A j \in 1..4 : ~At(s, Tables[j])'
        BY <2>9, <2>10, <4>1, TablesDiffer DEF At, TableName
      <4> QED
        BY <2>9, <2>10, <4>1, <4>2, <4>3, <4>4 DEF Stands, At
    <3> QED
      BY <3>1, <3>2, <3>3
  <2> QED
    BY <2>1, <2>6, <2>10, <2>11, <2>12, StandsAhead
<1> QED
  BY <1>3, <1>4, <1>5

LEMMA ChangeIs ==
  ASSUME NEW so \in DemoEntity, NEW to \in ServiceOrderStatus, NEW by \in {"system", "staff"}
  PROVE  LET n == ChangeStatus(so, to, by)
         IN  n \in DemoEntity /\ n.status = to /\ n.budgetId = so.budgetId
<1> DEFINE e == Entry(so.status, to, by)
<1>1. e \in StatusHistoryEntry
  BY DEF Entry, StatusHistoryEntry, DemoEntity
<1>2. so.history \in Seq(StatusHistoryEntry)
  BY DEF DemoEntity
<1>3. Append(so.history, e) \in Seq(StatusHistoryEntry)
  BY <1>1, <1>2, AppendProperties
<1> HIDE DEF e
<1> DEFINE h == Append(so.history, e)
<1> HIDE DEF h
<1>4. h \in Seq(StatusHistoryEntry)
  BY <1>3 DEF h
<1>5. ChangeStatus(so, to, by) = [so EXCEPT !.status = to, !.history = h]
  BY DEF ChangeStatus, e, h
<1> QED
  BY <1>4, <1>5 DEF DemoEntity

LEMMA NewIs ==
  /\ NewServiceOrder \in DemoEntity /\ NewServiceOrder.status = "RECEBIDA"
  /\ AdvanceToAwaitingApproval(NewServiceOrder) \in DemoEntity
  /\ AdvanceToAwaitingApproval(NewServiceOrder).status = "AGUARDANDO_APROVACAO"
<1>1. NewServiceOrder \in DemoEntity /\ NewServiceOrder.status = "RECEBIDA"
  <2>1. Entry("none", "RECEBIDA", "system") \in StatusHistoryEntry
    BY DEF Entry, StatusHistoryEntry, ServiceOrderStatus
  <2> QED
    BY <2>1 DEF NewServiceOrder, DemoEntity, ServiceOrderStatus
<1> DEFINE one == ChangeStatus(NewServiceOrder, "EM_DIAGNOSTICO", "system")
           two == ChangeStatus(one, "AGUARDANDO_APROVACAO", "system")
<1>2. AdvanceToAwaitingApproval(NewServiceOrder) = two
  BY <1>1 DEF AdvanceToAwaitingApproval
<1>3. one \in DemoEntity
  BY <1>1, ChangeIs DEF ServiceOrderStatus
<1> HIDE DEF one
<1>4. two \in DemoEntity /\ two.status = "AGUARDANDO_APROVACAO"
  BY <1>3, ChangeIs DEF ServiceOrderStatus
<1> QED
  BY <1>1, <1>2, <1>4

\* What a run that is about to do something finds.
LEMMA LeaderIs ==
  ASSUME SeedIInv, NEW s \in Seeders, seeder[s].phase \in {"open", "decide", "patch", "done"}
  PROVE  /\ SeedTypes /\ Stands(s) /\ base["clients"] > 0 /\ seeder[s] \in Run
         /\ \A t \in Seeders : t # s => ~Leads(t)
  BY DEF SeedIInv, SeedTypes, LeadersStand, LeadersWereFirst, OneLeads, Leads

\* A step of such a run, which still fills no table.
LEMMA LeaderKeeps ==
  ASSUME SeedIInv, NEW s \in Seeders, seeder[s].phase \in {"open", "decide", "patch", "done"},
         NEW r \in Run, seeder' = [seeder EXCEPT ![s] = r], base' = base,
         stock' \in [1..12 -> Int], opened' \in Seq(DemoRow),
         \/ r.phase = "open" /\ AtOpen(r.at)'
         \/ r.phase = "decide" /\ AtDecide(r.at, r.steps)'
         \/ r.phase = "patch" /\ AtPatch(r.at, r.steps)'
         \/ r.phase = "done" /\ AtDone'
  PROVE  SeedIInv'
<1>1. SeedTypes /\ base["clients"] > 0 /\ \A t \in Seeders : t # s => ~Leads(t)
  BY LeaderIs
<1>2. seeder'[s] = r /\ \A t \in Seeders : t # s => seeder'[t] = seeder[t]
  BY <1>1 DEF SeedTypes
<1>3. SeedTypes'
  BY <1>1 DEF SeedTypes
<1>4. Leads(s)'
  BY <1>2 DEF Leads
<1>5. \A x : At(s, x)' <=> r.phase = x
  BY <1>2 DEF At
<1>6. \A k \in 1..4 : ~At(s, Tables[k])'
  BY <1>5, TablesDiffer DEF TableName
<1>7. Stands(s)'
  BY <1>2, <1>5, <1>6 DEF Stands
<1> QED
  BY <1>1, <1>2, <1>3, <1>4, <1>7, StandsAhead

LEMMA OpenOrderKeeps ==
  ASSUME SeedIInv, NEW s \in Seeders, OpenOrder(s)
  PROVE  SeedIInv'
<1>1. At(s, "open") /\ seeder[s].phase = "open"
  BY DEF OpenOrder, At
<1>2. SeedTypes /\ Stands(s) /\ seeder[s] \in Run
  BY <1>1, LeaderIs
<1>3. PICK i \in Nat : i = seeder[s].at
  BY <1>2 DEF Run
<1>4. AtOpen(i)
  BY <1>1, <1>2, <1>3 DEF Stands
<1>5. i \in 1..14 /\ Len(opened) = i - 1 /\ Served(i - 1) /\ LeftAfter(i - 1)
  BY <1>4 DEF AtOpen
<1> DEFINE o == ORDERS[i]
           row == IF HasItems(o)
                  THEN [so |-> AdvanceToAwaitingApproval(NewServiceOrder), budget |-> "PENDENTE"]
                  ELSE [so |-> NewServiceOrder, budget |-> "none"]
<1>6. /\ OwnerOf(o.vehicle) = o.client
      /\ o.target \in DOMAIN (IF HasItems(o) THEN PATH_FROM_AGUARDANDO ELSE PATH_FROM_RECEBIDA)
      /\ PathOf(i) \in Seq(ServiceOrderStatus)
  BY <1>5, OrderIs, PathIs
<1>7. /\ opened' = Append(opened, row)
      /\ seeder' = [seeder EXCEPT ![s].phase = "decide", ![s].steps = PathOf(i)]
      /\ UNCHANGED <<base, stock>>
  BY <1>3, <1>6 DEF OpenOrder, PathOf
<1>8. /\ row \in DemoRow /\ row.budget = (IF HasItems(o) THEN "PENDENTE" ELSE "none")
      /\ row.so.status = Start(i)
  BY NewIs DEF DemoRow, Start
<1> HIDE DEF row, o
<1>9. /\ opened' \in Seq(DemoRow) /\ Len(opened') = i /\ opened'[i] = row
      /\ \A k \in 1..(i - 1) : opened'[k] = opened[k]
  <2>1. opened \in Seq(DemoRow)
    BY <1>2 DEF SeedTypes
  <2>2. More(opened, row) \in Seq(DemoRow) /\ Extends(More(opened, row), opened, row, Len(opened))
    BY <1>8, <2>1, OneMore
  <2>3. opened' = More(opened, row)
    BY <1>7 DEF More
  <2>4. opened' \in Seq(DemoRow) /\ Extends(opened', opened, row, i - 1)
    BY <1>5, <2>2, <2>3
  <2> QED
    BY <1>5, <2>4 DEF Extends
<1>10. AtDecide(i, PathOf(i))'
  BY <1>5, <1>7, <1>8, <1>9 DEF AtDecide, Served, LeftAfter, o
<1>11. PICK r \in Run : /\ seeder' = [seeder EXCEPT ![s] = r] /\ r.phase = "decide"
                        /\ r.at = i /\ r.steps = PathOf(i)
  <2> DEFINE r == [seeder[s] EXCEPT !.phase = "decide", !.steps = PathOf(i)]
  <2>1. seeder' = [seeder EXCEPT ![s] = r]
    BY <1>2, <1>7 DEF SeedTypes
  <2>2. r \in Run /\ r.phase = "decide" /\ r.at = i /\ r.steps = PathOf(i)
    BY <1>2, <1>3, <1>6 DEF Run, Phase
  <2> HIDE DEF r
  <2> QED
    BY <2>1, <2>2
<1>12. AtDecide(r.at, r.steps)'
  BY <1>10, <1>11
<1>13. stock' \in [1..12 -> Int] /\ base' = base
  BY <1>2, <1>7 DEF SeedTypes
<1> QED
  BY <1>1, <1>9, <1>11, <1>12, <1>13, LeaderKeeps

\* An approval takes from the stock what no other approved order took.
LEMMA TakenIs ==
  ASSUME NEW i \in 1..14, NEW p \in 1..12
  PROVE  /\ Taken(i - 1, p) \in {0, Quantity}
         /\ Approves(i) /\ p \in ORDERS[i].items => Taken(i - 1, p) = 0 /\ Taken(i, p) = Quantity
         /\ ~(Approves(i) /\ p \in ORDERS[i].items) => Taken(i, p) = Taken(i - 1, p)
<1>1. \A k \in 1..i : k \in 1..(i - 1) \/ k = i
  OBVIOUS
<1>2. \A k \in 1..(i - 1) : k \in 1..i /\ k \in 1..14 /\ k # i
  OBVIOUS
<1>3. Taken(i - 1, p) \in {0, Quantity}
  BY DEF Taken
<1>4. ASSUME Approves(i), p \in ORDERS[i].items
      PROVE  Taken(i - 1, p) = 0 /\ Taken(i, p) = Quantity
  <2>1. ASSUME NEW k \in 1..(i - 1), Approves(k), p \in ORDERS[k].items PROVE FALSE
    <3>1. ORDERS[k].items \intersect ORDERS[i].items = {}
      BY <1>2, <1>4, <2>1, ApprovedAre
    <3> QED
      BY <1>4, <2>1, <3>1
  <2>2. i \in 1..i
    OBVIOUS
  <2> QED
    BY <1>4, <2>1, <2>2 DEF Taken
<1>5. ASSUME ~(Approves(i) /\ p \in ORDERS[i].items)  PROVE Taken(i, p) = Taken(i - 1, p)
  BY <1>1, <1>2, <1>5 DEF Taken
<1> QED
  BY <1>3, <1>4, <1>5

LEMMA DecideKeeps ==
  ASSUME SeedIInv, NEW s \in Seeders, Decide(s)
  PROVE  SeedIInv'
<1>1. At(s, "decide") /\ seeder[s].phase = "decide"
  BY DEF Decide, At
<1>2. SeedTypes /\ Stands(s) /\ seeder[s] \in Run
  BY <1>1, LeaderIs
<1>3. PICK i \in Nat, steps \in Seq(ServiceOrderStatus) : i = seeder[s].at /\ steps = seeder[s].steps
  BY <1>2 DEF Run
<1>4. AtDecide(i, steps)
  BY <1>1, <1>2, <1>3 DEF Stands
<1>5. /\ i \in 1..14 /\ Len(opened) = i /\ Served(i - 1) /\ LeftAfter(i - 1)
      /\ opened[i].budget = (IF HasItems(ORDERS[i]) THEN "PENDENTE" ELSE "none")
      /\ opened[i].so.status = Start(i) /\ steps = PathOf(i)
  BY <1>4 DEF AtDecide
<1> DEFINE row == opened[i]
           target == ORDERS[i].target
<1>6. /\ opened \in Seq(DemoRow) /\ row \in DemoRow /\ row.so \in DemoEntity
      /\ DOMAIN opened = 1..i /\ stock \in [1..12 -> Int]
  <2>1. opened \in Seq(DemoRow) /\ stock \in [1..12 -> Int]
    BY <1>2 DEF SeedTypes
  <2>2. DOMAIN opened = 1..i
    BY <1>5, <2>1, LenProperties
  <2>3. row \in DemoRow
    <3>1. i \in 1..Len(opened)
      BY <1>5
    <3> QED
      BY <2>1, <3>1, ElementOfSeq
  <2> HIDE DEF row
  <2> QED
    BY <2>1, <2>2, <2>3 DEF DemoRow
<1>7. /\ HasItems(ORDERS[i]) <=> target \notin {"RECEBIDA", "EM_DIAGNOSTICO"}
      /\ (\E j \in DOMAIN steps : steps[j] = "EM_EXECUCAO") <=> Approves(i)
      /\ IF target = "ENCERRADA_SEM_EXECUCAO" THEN steps = <<>> ELSE Walk(Start(i), steps, target)
  BY <1>5, OrderIs, PathIs
<1>8. Approves(i) => target # "ENCERRADA_SEM_EXECUCAO" /\ HasItems(ORDERS[i])
  BY <1>7 DEF Approves
<1> DEFINE refuses == target = "ENCERRADA_SEM_EXECUCAO"
<1>9. /\ row.budget # "none" <=> HasItems(ORDERS[i])
      /\ row.budget # "APROVADO"
  BY <1>5
<1> DEFINE asked == [p \in 1..12 |-> IF p \in ORDERS[i].items THEN 2 ELSE 0]
<1>10. \A p \in 1..12 : asked[p] = (IF p \in ORDERS[i].items THEN 2 ELSE 0) /\ asked[p] \in {0, 2}
  OBVIOUS
<1> HIDE DEF asked
<1>11. \A p \in 1..12 : stock[p] = PARTS[p] - Taken(i - 1, p) /\ PARTS[p] \in Nat /\ PARTS[p] >= 2
  BY <1>5, PartsAre DEF LeftAfter
<1>12. Approves(i) => \A p \in 1..12 : ~(stock[p] < asked[p])
  <2> SUFFICES ASSUME Approves(i), NEW p \in 1..12 PROVE ~(stock[p] < asked[p])
    OBVIOUS
  <2>1. stock[p] = PARTS[p] - Taken(i - 1, p) /\ PARTS[p] \in Nat /\ PARTS[p] >= 2
    BY <1>11
  <2>2. Taken(i - 1, p) \in {0, 2} /\ (p \in ORDERS[i].items => Taken(i - 1, p) = 0)
    BY <1>5, TakenIs DEF Quantity
  <2>3. asked[p] \in {0, 2} /\ (p \notin ORDERS[i].items => asked[p] = 0)
    BY <1>10
  <2> QED
    BY <2>1, <2>2, <2>3
<1>13. /\ stock' = IF Approves(i) THEN [p \in 1..12 |-> stock[p] - asked[p]] ELSE stock
       /\ opened' = IF Approves(i)
            THEN [opened EXCEPT ![i] = [so |-> SetBudget(@.so, i), budget |-> "APROVADO"]]
            ELSE IF refuses
            THEN [opened EXCEPT ![i] = [so |-> ChangeStatus(@.so, "ENCERRADA_SEM_EXECUCAO", "system"),
                                        budget |-> "RECUSADO"]]
            ELSE opened
       /\ Goes(s, "patch", i) /\ base' = base
  <2>1. \A p \in 1..12 : Asked(s, p) = asked[p]
    BY <1>3, <1>10 DEF Asked, Quantity
  <2> QED
    BY <1>3, <1>7, <1>8, <1>9, <1>12, <2>1, PartsAre DEF Decide
<1>14. stock' \in [1..12 -> Int] /\ LeftAfter(i)'
  <2>1. ASSUME NEW p \in 1..12 PROVE stock'[p] = PARTS[p] - Taken(i, p)
    <3>1. CASE Approves(i)
      <4>1. stock'[p] = stock[p] - asked[p]
        BY <1>13, <3>1
      <4>2. stock[p] = PARTS[p] - Taken(i - 1, p) /\ PARTS[p] \in Nat
        BY <1>11
      <4>3. CASE p \in ORDERS[i].items
        <5>1. Taken(i - 1, p) = 0 /\ Taken(i, p) = 2 /\ asked[p] = 2
          BY <1>5, <1>10, <3>1, <4>3, TakenIs DEF Quantity
        <5> QED
          BY <4>1, <4>2, <5>1
      <4>4. CASE p \notin ORDERS[i].items
        <5>1. Taken(i, p) = Taken(i - 1, p) /\ Taken(i - 1, p) \in {0, 2} /\ asked[p] = 0
          BY <1>5, <1>10, <4>4, TakenIs DEF Quantity
        <5> QED
          BY <4>1, <4>2, <5>1
      <4> QED
        BY <4>3, <4>4
    <3>2. CASE ~Approves(i)
      BY <1>5, <1>11, <1>13, <3>2, TakenIs
    <3> QED
      BY <3>1, <3>2
  <2>2. stock' \in [1..12 -> Int]
    <3>1. CASE Approves(i)
      <4>1. stock \in [1..12 -> Int] /\ stock' = [p \in 1..12 |-> stock[p] - asked[p]]
        BY <1>6, <1>13, <3>1
      <4>2. ASSUME NEW p \in 1..12 PROVE stock[p] - asked[p] \in Int
        <5>1. stock[p] \in Int
          BY <4>1
        <5>2. asked[p] \in {0, 2}
          BY <1>10
        <5> QED
          BY <5>1, <5>2
      <4> QED
        BY <4>1, <4>2
    <3>2. CASE ~Approves(i)
      BY <1>6, <1>13, <3>2
    <3> QED
      BY <3>1, <3>2
  <2> QED
    BY <2>1, <2>2 DEF LeftAfter
<1>15. i # NoBudget
  BY <1>5, NoBudgetAssumption, OrdersAre
<1>16. PICK new \in DemoRow :
         /\ opened' = [opened EXCEPT ![i] = new]
         /\ new.budget = "APROVADO" <=> Approves(i)
         /\ Walk(new.so.status, steps, target)
         /\ Approves(i) => new.so.budgetId # NoBudget
  <2>1. CASE Approves(i)
    <3> DEFINE new == [so |-> SetBudget(row.so, i), budget |-> "APROVADO"]
    <3>1. SetBudget(row.so, i) \in DemoEntity /\ SetBudget(row.so, i).budgetId = i
          /\ SetBudget(row.so, i).status = Start(i)
      BY <1>5, <1>6 DEF SetBudget, DemoEntity
    <3>2. opened' = [opened EXCEPT ![i] = new]
      BY <1>13, <2>1
    <3>3. new \in DemoRow /\ new.budget = "APROVADO" /\ new.so = SetBudget(row.so, i)
      BY <3>1 DEF DemoRow
    <3> HIDE DEF new
    <3> QED
      BY <1>7, <1>8, <1>15, <2>1, <3>1, <3>2, <3>3
  <2>2. CASE ~Approves(i) /\ refuses
    <3> DEFINE closed == ChangeStatus(row.so, "ENCERRADA_SEM_EXECUCAO", "system")
               new == [so |-> closed, budget |-> "RECUSADO"]
    <3>1. closed \in DemoEntity /\ closed.status = target
      BY <1>6, <2>2, ChangeIs DEF ServiceOrderStatus
    <3>2. opened' = [opened EXCEPT ![i] = new]
      BY <1>13, <2>2
    <3> HIDE DEF closed
    <3>3. new \in DemoRow /\ new.budget = "RECUSADO" /\ new.so = closed
      BY <3>1 DEF DemoRow
    <3> HIDE DEF new
    <3>4. Walk(new.so.status, steps, target)
      BY <1>7, <2>2, <3>1, <3>3 DEF Walk
    <3> QED
      BY <2>2, <3>2, <3>3, <3>4
  <2>3. CASE ~Approves(i) /\ ~refuses
    <3>1. opened' = [opened EXCEPT ![i] = row]
      BY <1>6, <1>13, <2>3
    <3> QED
      BY <1>5, <1>6, <1>7, <1>9, <2>3, <3>1
  <2> QED
    BY <2>1, <2>2, <2>3
<1>17. /\ opened' \in Seq(DemoRow) /\ Len(opened') = i /\ opened'[i] = new
       /\ \A k \in 1..(i - 1) : opened'[k] = opened[k]
  <2> HIDE DEF row, target
  <2>1. opened \in Seq(DemoRow) /\ Len(opened) = i /\ i \in 1..Len(opened)
    <3>1. i \in 1..14 /\ Len(opened) = i
      BY <1>5
    <3>2. opened \in Seq(DemoRow)
      BY <1>6
    <3>3. i \in 1..i
      BY <3>1
    <3> QED
      BY <3>1, <3>2, <3>3
  <2>2. opened' = [opened EXCEPT ![i] = new]
    BY <1>16
  <2> QED
    BY <2>1, <2>2, ExceptSeq
<1>18. AtPatch(i, steps)'
  <2>1. Served(i - 1)'
    BY <1>5, <1>17 DEF Served
  <2> QED
    BY <1>5, <1>7, <1>14, <1>16, <1>17, <2>1 DEF AtPatch
<1>19. PICK r \in Run : /\ seeder' = [seeder EXCEPT ![s] = r] /\ r.phase = "patch"
                        /\ r.at = i /\ r.steps = steps
  <2> DEFINE r == [seeder[s] EXCEPT !.phase = "patch", !.at = i]
  <2>1. seeder' = [seeder EXCEPT ![s] = r]
    BY <1>2, <1>13 DEF SeedTypes, Goes
  <2>2. r \in Run /\ r.phase = "patch" /\ r.at = i /\ r.steps = steps
    BY <1>2, <1>3 DEF Run, Phase
  <2> HIDE DEF r
  <2> QED
    BY <2>1, <2>2
<1>20. AtPatch(r.at, r.steps)'
  BY <1>18, <1>19
<1> QED
  BY <1>1, <1>13, <1>14, <1>17, <1>19, <1>20, LeaderKeeps

\* A step along the path.
LEMMA WalkOn ==
  ASSUME NEW from, NEW steps \in Seq(ServiceOrderStatus), NEW to, Walk(from, steps, to), steps # <<>>
  PROVE  /\ Head(steps) \in ServiceOrderStatus /\ <<from, Head(steps)>> \in ALLOWED_TRANSITIONS
         /\ Head(steps) = steps[1] /\ 1 \in DOMAIN steps
         /\ Tail(steps) \in Seq(ServiceOrderStatus) /\ Walk(Head(steps), Tail(steps), to)
         /\ \A x : (\E j \in DOMAIN Tail(steps) : Tail(steps)[j] = x) =>
                     \E j \in DOMAIN steps : steps[j] = x
<1> DEFINE rest == Tail(steps)
           n == Len(steps)
<1>1. n \in Nat /\ n # 0 /\ DOMAIN steps = 1..n
  BY LenProperties, EmptySeq
<1>2. /\ Head(steps) = steps[1] /\ steps[1] \in ServiceOrderStatus
      /\ rest \in Seq(ServiceOrderStatus) /\ Len(rest) = n - 1 /\ DOMAIN rest = 1..(n - 1)
      /\ \A j \in 1..(n - 1) : rest[j] = steps[j + 1]
  BY <1>1, HeadTailProperties, ElementOfSeq, LenProperties
<1>3. /\ <<from, steps[1]>> \in ALLOWED_TRANSITIONS /\ steps[n] = to
      /\ \A k \in 1..(n - 1) : <<steps[k], steps[k + 1]>> \in ALLOWED_TRANSITIONS
  BY DEF Walk
<1> HIDE DEF rest, n
<1>4. Walk(steps[1], rest, to)
  <2>1. CASE n = 1
    <3>1. rest = <<>> /\ steps[1] = to
      BY <1>2, <1>3, <2>1, EmptySeq
    <3> QED
      BY <3>1 DEF Walk
  <2>2. CASE n # 1
    <3>1. n - 1 \in 1..(n - 1) /\ 1 \in 1..(n - 1) /\ rest # <<>>
      BY <1>1, <1>2, <2>2
    <3>2. rest[1] = steps[2] /\ rest[Len(rest)] = steps[n]
      BY <1>1, <1>2, <3>1
    <3>3. <<steps[1], rest[1]>> \in ALLOWED_TRANSITIONS
      BY <1>3, <3>1, <3>2
    <3>4. ASSUME NEW k \in 1..(Len(rest) - 1)
          PROVE  <<rest[k], rest[k + 1]>> \in ALLOWED_TRANSITIONS
      <4>1. k \in 1..(n - 1) /\ k + 1 \in 1..(n - 1)
        BY <1>1, <1>2
      <4>2. rest[k] = steps[k + 1] /\ rest[k + 1] = steps[(k + 1) + 1]
        BY <1>2, <4>1
      <4> QED
        BY <1>3, <4>1, <4>2
    <3> QED
      BY <1>3, <3>1, <3>2, <3>3, <3>4 DEF Walk
  <2> QED
    BY <2>1, <2>2
<1>5. ASSUME NEW x, NEW j \in DOMAIN rest, rest[j] = x  PROVE \E m \in DOMAIN steps : steps[m] = x
  <2>1. j + 1 \in DOMAIN steps /\ steps[j + 1] = x
    BY <1>1, <1>2, <1>5
  <2> QED
    BY <2>1
<1>6. 1 \in DOMAIN steps
  BY <1>1
<1> QED
  BY <1>2, <1>3, <1>4, <1>5, <1>6 DEF rest

LEMMA PatchKeeps ==
  ASSUME SeedIInv, NEW s \in Seeders, Patch(s)
  PROVE  SeedIInv'
<1>1. At(s, "patch") /\ seeder[s].phase = "patch" /\ seeder[s].steps # <<>>
  BY DEF Patch, At
<1>2. SeedTypes /\ Stands(s) /\ seeder[s] \in Run
  BY <1>1, LeaderIs
<1>3. PICK i \in Nat, steps \in Seq(ServiceOrderStatus) : i = seeder[s].at /\ steps = seeder[s].steps
  BY <1>2 DEF Run
<1>4. AtPatch(i, steps)
  BY <1>1, <1>2, <1>3 DEF Stands
<1> DEFINE target == ORDERS[i].target
<1>5. /\ i \in 1..14 /\ Len(opened) = i /\ Served(i - 1) /\ LeftAfter(i)
      /\ opened[i].budget = "APROVADO" <=> Approves(i)
      /\ Walk(opened[i].so.status, steps, target)
      /\ (\E j \in DOMAIN steps : steps[j] = "EM_EXECUCAO") => opened[i].so.budgetId # NoBudget
  BY <1>4 DEF AtPatch
<1> HIDE DEF target
<1>6. opened \in Seq(DemoRow) /\ i \in 1..Len(opened)
  <2>1. i \in 1..i
    BY <1>5
  <2> QED
    BY <1>2, <1>5, <2>1 DEF SeedTypes
<1>7. PICK row \in DemoRow : row = opened[i]
  BY <1>6, ElementOfSeq
<1> DEFINE to == Head(steps)
           rest == Tail(steps)
<1>8. /\ to \in ServiceOrderStatus /\ <<row.so.status, to>> \in ALLOWED_TRANSITIONS
      /\ to = steps[1] /\ 1 \in DOMAIN steps
      /\ rest \in Seq(ServiceOrderStatus) /\ Walk(to, rest, target)
      /\ (\E j \in DOMAIN rest : rest[j] = "EM_EXECUCAO") =>
            \E j \in DOMAIN steps : steps[j] = "EM_EXECUCAO"
  BY <1>1, <1>3, <1>5, <1>7, WalkOn
<1> HIDE DEF to, rest
<1>9. to = "EM_EXECUCAO" => row.so.budgetId # NoBudget
  BY <1>5, <1>7, <1>8
<1>10. CanChangeStatus(row.so, to)
  BY <1>8, <1>9 DEF CanChangeStatus
<1> DEFINE so == ChangeStatus(row.so, to, "staff")
           new == [row EXCEPT !.so = so]
<1>11. /\ opened' = [opened EXCEPT ![i] = new]
       /\ seeder' = [seeder EXCEPT ![s].steps = rest] /\ UNCHANGED <<base, stock>>
  <2>1. /\ opened' = [opened EXCEPT ![i].so = ChangeStatus(@, to, "staff")]
        /\ seeder' = [seeder EXCEPT ![s].steps = Tail(@)] /\ UNCHANGED <<base, stock>>
    BY <1>3, <1>7, <1>10 DEF Patch, to
  <2>2. i \in DOMAIN opened
    BY <1>6, LenProperties
  <2> QED
    BY <1>2, <1>3, <1>7, <2>1, <2>2 DEF SeedTypes, rest
<1>12. so \in DemoEntity /\ so.status = to /\ so.budgetId = row.so.budgetId
  BY <1>8, ChangeIs DEF DemoRow
<1> HIDE DEF so
<1>13. new \in DemoRow /\ new.so = so /\ new.budget = row.budget
  BY <1>12 DEF DemoRow
<1> HIDE DEF new
<1>14. /\ opened' \in Seq(DemoRow) /\ Len(opened') = i /\ opened'[i] = new
       /\ \A k \in 1..(i - 1) : opened'[k] = opened[k]
  <2>1. /\ opened' \in Seq(DemoRow) /\ Len(opened') = Len(opened)
        /\ \A k \in 1..Len(opened) : opened'[k] = IF k = i THEN new ELSE opened[k]
    BY <1>6, <1>11, <1>13, ExceptSeq
  <2> QED
    BY <1>5, <1>6, <2>1
<1>15. AtPatch(i, rest)'
  <2>1. Served(i - 1)'
    BY <1>5, <1>14 DEF Served
  <2>2. LeftAfter(i)'
    BY <1>5, <1>11 DEF LeftAfter
  <2>3. (\E j \in DOMAIN rest : rest[j] = "EM_EXECUCAO") => new.so.budgetId # NoBudget
    BY <1>5, <1>7, <1>8, <1>12, <1>13
  <2>4. Walk(new.so.status, rest, target) /\ (new.budget = "APROVADO" <=> Approves(i))
    BY <1>5, <1>7, <1>8, <1>12, <1>13
  <2> QED
    BY <1>5, <1>14, <2>1, <2>2, <2>3, <2>4 DEF AtPatch, target
<1>16. PICK r \in Run : /\ seeder' = [seeder EXCEPT ![s] = r] /\ r.phase = "patch"
                        /\ r.at = i /\ r.steps = rest
  <2> DEFINE r == [seeder[s] EXCEPT !.steps = rest]
  <2>1. seeder' = [seeder EXCEPT ![s] = r]
    BY <1>2, <1>11 DEF SeedTypes
  <2>2. r \in Run /\ r.phase = "patch" /\ r.at = i /\ r.steps = rest
    BY <1>1, <1>2, <1>3, <1>8 DEF Run
  <2> HIDE DEF r
  <2> QED
    BY <2>1, <2>2
<1>17. AtPatch(r.at, r.steps)'
  BY <1>15, <1>16
<1>18. stock' \in [1..12 -> Int] /\ base' = base
  BY <1>2, <1>11 DEF SeedTypes
<1> QED
  BY <1>1, <1>14, <1>16, <1>17, <1>18, LeaderKeeps

LEMMA NextOrderKeeps ==
  ASSUME SeedIInv, NEW s \in Seeders, NextOrder(s)
  PROVE  SeedIInv'
<1>1. At(s, "patch") /\ seeder[s].phase = "patch" /\ seeder[s].steps = <<>>
  BY DEF NextOrder, At
<1>2. SeedTypes /\ Stands(s) /\ seeder[s] \in Run
  BY <1>1, LeaderIs
<1>3. PICK i \in Nat : i = seeder[s].at
  BY <1>2 DEF Run
<1>4. AtPatch(i, <<>>)
  BY <1>1, <1>2, <1>3 DEF Stands
<1>5. /\ i \in 1..14 /\ Len(opened) = i /\ Served(i - 1) /\ LeftAfter(i)
      /\ opened[i].budget = "APROVADO" <=> Approves(i)
      /\ opened[i].so.status = ORDERS[i].target
  BY <1>4 DEF AtPatch, Walk
<1>6. Served(i)
  <2>1. \A k \in 1..i : k \in 1..(i - 1) \/ k = i
    OBVIOUS
  <2> QED
    BY <1>5, <2>1 DEF Served
<1>7. /\ IF i = 14 THEN Goes(s, "done", 1) ELSE Goes(s, "open", i + 1)
      /\ UNCHANGED <<base, stock, opened>>
  BY <1>3, OrdersAre DEF NextOrder
<1>8. Len(opened') = i /\ Served(i)' /\ LeftAfter(i)'
  BY <1>5, <1>6, <1>7 DEF Served, LeftAfter
<1>9. stock' \in [1..12 -> Int] /\ opened' \in Seq(DemoRow) /\ base' = base
  BY <1>2, <1>7 DEF SeedTypes
<1>10. ASSUME NEW x \in {"done", "open"}, NEW n \in Nat, Goes(s, x, n)
       PROVE  \E r \in Run : seeder' = [seeder EXCEPT ![s] = r] /\ r.phase = x /\ r.at = n
  <2> DEFINE r == [seeder[s] EXCEPT !.phase = x, !.at = n]
  <2>1. seeder' = [seeder EXCEPT ![s] = r]
    BY <1>2, <1>10 DEF SeedTypes, Goes
  <2>2. r \in Run /\ r.phase = x /\ r.at = n
    BY <1>2 DEF Run, Phase, Ended
  <2> HIDE DEF r
  <2> QED
    BY <2>1, <2>2
<1>11. CASE i = 14
  <2>1. PICK r \in Run : seeder' = [seeder EXCEPT ![s] = r] /\ r.phase = "done"
    BY <1>7, <1>10, <1>11
  <2>2. AtDone'
    BY <1>8, <1>11 DEF AtDone
  <2> QED
    BY <1>1, <1>9, <2>1, <2>2, LeaderKeeps
<1>12. CASE i # 14
  <2>1. PICK r \in Run : seeder' = [seeder EXCEPT ![s] = r] /\ r.phase = "open" /\ r.at = i + 1
    BY <1>7, <1>10, <1>12
  <2>2. i + 1 \in 1..14 /\ (i + 1) - 1 = i
    BY <1>5, <1>12
  <2>3. AtOpen(i + 1)'
    BY <1>8, <2>2 DEF AtOpen
  <2>4. AtOpen(r.at)'
    BY <2>1, <2>3
  <2> QED
    BY <1>1, <1>9, <2>1, <2>4, LeaderKeeps
<1> QED
  BY <1>11, <1>12

LEMMA SeedKeeps == SeedIInv /\ [Seed]_seeding => SeedIInv'
<1> SUFFICES ASSUME SeedIInv, [Seed]_seeding PROVE SeedIInv'
  OBVIOUS
<1>1. CASE UNCHANGED seeding
  <2>1. UNCHANGED <<base, stock, opened, seeder>>
    BY <1>1 DEF seeding
  <2>2. \A s \in Seeders : /\ Leads(s)' <=> Leads(s)
                           /\ At(s, "refused")' <=> At(s, "refused")
                           /\ Stands(s) => Stands(s)'
    BY <2>1, StandsStill
  <2>3. SeedTypes' /\ BlankUntilLed'
    BY <2>1 DEF SeedIInv, SeedTypes, BlankUntilLed, Blank
  <2> QED
    BY <2>1, <2>2, <2>3
    DEF SeedIInv, OneLeads, LeadersWereFirst, RefusedAtOnce, LeadersStand
<1> QED
  BY <1>1, BeginKeeps, RegisterKeeps, OpenOrderKeeps, DecideKeeps, PatchKeeps, NextOrderKeeps
  DEF Seed

\* Each part is in one approved order at most.
LEMMA AskedOnce ==
  ASSUME Served(14), NEW p \in 1..12
  PROVE  Quantity * Cardinality({i \in DOMAIN ORDERS :
                       opened[i].budget = "APROVADO" /\ p \in ORDERS[i].items}) = Taken(14, p)
<1> DEFINE D == {i \in 1..14 : Approves(i) /\ p \in ORDERS[i].items}
           E == {i \in DOMAIN ORDERS : opened[i].budget = "APROVADO" /\ p \in ORDERS[i].items}
<1>1. E = D
  BY OrdersAre DEF Served
<1>2. \A j, k \in D : j = k
  BY ApprovedAre
<1> HIDE DEF D, E
<1>3. ASSUME D = {}  PROVE Quantity * Cardinality(E) = Taken(14, p)
  <2>1. Taken(14, p) = 0
    BY <1>3 DEF Taken, D
  <2>2. Cardinality(D) = 0
    BY <1>3, FS_EmptySet
  <2> QED
    BY <1>1, <2>1, <2>2 DEF Quantity
<1>4. ASSUME D # {}  PROVE Quantity * Cardinality(E) = Taken(14, p)
  <2>1. PICK k \in D : D = {k}
    BY <1>2, <1>4
  <2>2. Taken(14, p) = Quantity
    BY <2>1 DEF Taken, D
  <2>3. Cardinality(D) = 1
    BY <2>1, FS_Singleton
  <2> QED
    BY <1>1, <2>2, <2>3 DEF Quantity
<1> QED
  BY <1>3, <1>4 DEF E

\* No rule of the API stops seed-demo.ts half way, and a run that ends has brought
\* every order to its target and taken what the approved budgets ask for: for any
\* number of runs, overlapping, forced and killed in any order.
THEOREM SeedSafe == SeedSpec => []SeedReachesTargets
<1>1. SeedIInv => SeedReachesTargets
  <2> SUFFICES ASSUME SeedIInv, NEW s \in Seeders
               PROVE  /\ At(s, "refused") =>
                           seeder[s].stopped = "clients" /\ seeder[s].at = 1 /\ base["clients"] > 0
                      /\ At(s, "done") =>
                           /\ Len(opened) = Len(ORDERS)
                           /\ \A i \in DOMAIN ORDERS : opened[i].so.status = ORDERS[i].target
                           /\ \A p \in DOMAIN PARTS :
                                PARTS[p] - stock[p] =
                                  Quantity * Cardinality({i \in DOMAIN ORDERS :
                                    opened[i].budget = "APROVADO" /\ p \in ORDERS[i].items})
    BY DEF SeedReachesTargets
  <2>1. ASSUME At(s, "refused")
        PROVE  seeder[s].stopped = "clients" /\ seeder[s].at = 1 /\ base["clients"] > 0
    BY <2>1 DEF SeedIInv, RefusedAtOnce, LeadersWereFirst
  <2>2. ASSUME At(s, "done")
        PROVE  /\ Len(opened) = Len(ORDERS)
               /\ \A i \in DOMAIN ORDERS : opened[i].so.status = ORDERS[i].target
               /\ \A p \in DOMAIN PARTS :
                    PARTS[p] - stock[p] =
                      Quantity * Cardinality({i \in DOMAIN ORDERS :
                        opened[i].budget = "APROVADO" /\ p \in ORDERS[i].items})
    <3>1. Len(opened) = 14 /\ Served(14) /\ LeftAfter(14) /\ SeedTypes
      BY <2>2 DEF SeedIInv, LeadersStand, Leads, Stands, At, AtDone
    <3>2. Len(opened) = Len(ORDERS) /\ \A i \in DOMAIN ORDERS : opened[i].so.status = ORDERS[i].target
      BY <3>1, OrdersAre DEF Served
    <3>3. ASSUME NEW p \in DOMAIN PARTS
          PROVE  PARTS[p] - stock[p] =
                   Quantity * Cardinality({i \in DOMAIN ORDERS :
                     opened[i].budget = "APROVADO" /\ p \in ORDERS[i].items})
      <4>1. p \in 1..12 /\ PARTS[p] \in Nat
        BY PartsAre
      <4>2. stock[p] = PARTS[p] - Taken(14, p)
        BY <3>1, <4>1 DEF LeftAfter
      <4>3. Taken(14, p) \in {0, 2}
        BY DEF Taken, Quantity
      <4>4. PARTS[p] - stock[p] = Taken(14, p)
        BY <4>1, <4>2, <4>3
      <4> QED
        BY <3>1, <4>1, <4>4, AskedOnce
    <3> QED
      BY <3>2, <3>3
  <2> QED
    BY <2>1, <2>2
<1> QED
  BY <1>1, SeedStarts, SeedKeeps, PTL DEF SeedSpec
=============================================================================
