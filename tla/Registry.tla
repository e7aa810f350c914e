------------------------------ MODULE Registry ------------------------------
(***************************************************************************)
(* One of the tables whose rows are known by a key: vehicles by plate,     *)
(* services by name, parts by SKU, admins by e-mail.  The four are built   *)
(* alike, a check, an INSERT, a save of an entity read earlier and a soft  *)
(* delete, and differ in what the check looks for, what is stored, and     *)
(* which operations exist.  The table of admins is also written by the     *)
(* replicas as they boot (AdminSeeder).                                    *)
(*                                                                         *)
(* The unique index of each table covers the rows that are not deleted.    *)
(* The key is the one column that changes here, so the save of a loaded    *)
(* entity is one step: if its SELECT finds the key unchanged nothing is    *)
(* written, which may be placed at the SELECT, else the write is there.    *)
(***************************************************************************)
EXTENDS Naturals, FiniteSets

CONSTANTS
  Words,      \* what keys spell, whatever their case and their blanks
  Rows,       \* row ids
  Workers,    \* requests that can be in flight at the same time
  Replicas,   \* pods of the Deployment
  None        \* no credentials for a first administrator, no row

Kinds == {"vehicle", "service", "part", "admin"}

\* A key as somebody typed it: with blanks (or hyphens, in a plate), and in a
\* case other than the one the table keeps.
Spelling == [word : Words, padded : BOOLEAN, cased : BOOLEAN]

ASSUME WordAssumption == Words # {}
ASSUME NoneAssumption == None \notin Spelling /\ None \notin Rows

VARIABLES
  kind,      \* which of the tables this is
  rows,      \* its rows
  req,       \* what each request keeps in memory
  seed,      \* the e-mail of the first administrator, as configured (its password is
             \* assumed to meet the policy: one that does not fails every boot)
  replica    \* where each pod stands in its boot

vars == <<kind, rows, req, seed, replica>>

Presence == {"absent", "live", "deleted"}
Row == [row : Presence, key : Spelling]
Request == [step : {"idle", "insert", "save"}, id : Rows \union {None}, key : Spelling]

-----------------------------------------------------------------------------
Trim(s) == [s EXCEPT !.padded = FALSE]
Fold(s) == [s EXCEPT !.cased = FALSE]   \* toUpperCase, or toLowerCase of an e-mail

\* What a registration looks for.
Probe(s) ==
  CASE kind = "vehicle" -> Fold(Trim(s))
    [] kind = "service" -> Trim(s)
    [] kind \in {"part", "admin"} -> Fold(s)

\* Fault: the constructor stores the key as it was looked for.
StoredAsProbed(s) == Probe(s)

\* What the constructor of the entity stores.
Stored(s) == IF kind = "service" THEN Trim(s) ELSE Fold(Trim(s))

NewRow(s) == [row |-> "live", key |-> s]

AnySpelling == CHOOSE s \in Spelling : TRUE
Idle == [step |-> "idle", id |-> None, key |-> AnySpelling]

Init ==
  /\ kind \in Kinds
  /\ rows = [r \in Rows |-> [row |-> "absent", key |-> AnySpelling]]
  /\ req = [w \in Workers |-> Idle]
  /\ seed \in IF kind = "admin" THEN Spelling \union {None} ELSE {None}
  /\ replica = [r \in Replicas |-> "down"]

-----------------------------------------------------------------------------
Holders(s) == {r \in Rows : rows[r].row = "live" /\ rows[r].key = s}

Arrive(w, r) == req[w].step = "idle" /\ req' = [req EXCEPT ![w] = r]
Finish(w) == req' = [req EXCEPT ![w] = Idle]

\* Ids are random UUIDs.  Bound: the last one is left to the seeder.
Fresh(r) == rows[r].row = "absent" /\ \A w \in Workers : req[w].id # r
FreshForRequest(r) ==
  Fresh(r) /\ (seed # None => \E q \in Rows \ {r} : Fresh(q))

\* The check of a registration.  (That the owner of a vehicle exists, and the
\* other fields, are early returns that write nothing.)  @IsEmail lets no e-mail
\* with blanks in.
StartRegister(w, r, s) ==
  /\ kind = "admin" => ~s.padded
  /\ FreshForRequest(r) /\ Holders(Probe(s)) = {}
  /\ Arrive(w, [step |-> "insert", id |-> r, key |-> Stored(s)])
  /\ UNCHANGED <<kind, rows, seed, replica>>

\* The INSERT, which the unique index refuses if the key is taken by now.
Insert(w) ==
  /\ req[w].step = "insert"
  /\ rows' = IF Holders(req[w].key) = {}
             THEN [rows EXCEPT ![req[w].id] = NewRow(req[w].key)] ELSE rows
  /\ Finish(w)
  /\ UNCHANGED <<kind, seed, replica>>

\* PUT: the row is read; its key stays, or a service is renamed, unchecked.
StartEdit(w, r) ==
  /\ kind # "admin" /\ rows[r].row = "live"
  /\ Arrive(w, [step |-> "save", id |-> r, key |-> rows[r].key])
  /\ UNCHANGED <<kind, rows, seed, replica>>

StartRename(w, r, s) ==
  /\ kind = "service" /\ rows[r].row = "live"
  /\ Arrive(w, [step |-> "save", id |-> r, key |-> Stored(s)])
  /\ UNCHANGED <<kind, rows, seed, replica>>

\* The save: a key that differs by now from the row's is written, unless the row
\* is live and the index finds the key at another row.
Save(w) ==
  LET id == req[w].id
      refused == rows[id].row = "live" /\ Holders(req[w].key) \ {id} # {}
  IN  /\ req[w].step = "save"
      /\ rows' = IF refused THEN rows ELSE [rows EXCEPT ![id].key = req[w].key]
      /\ Finish(w)
      /\ UNCHANGED <<kind, seed, replica>>

\* DELETE: a find and a soft delete.
Remove(r) ==
  /\ kind # "admin" /\ rows[r].row = "live"
  /\ rows' = [rows EXCEPT ![r].row = "deleted"]
  /\ UNCHANGED <<kind, req, seed, replica>>

Interrupt(w) ==
  /\ req[w].step # "idle"
  /\ Finish(w)
  /\ UNCHANGED <<kind, rows, seed, replica>>

-----------------------------------------------------------------------------
(* Boot.  Nest awaits onModuleInit of AdminSeeder before it listens.       *)

\* Fault: the e-mail is not trimmed before it is looked for.
SeedEmailRaw == Fold(seed)

SeedEmail == Fold(Trim(seed))

\* Fault: the seeding is started and not awaited.
StartBootUnawaited(r) ==
  /\ kind = "admin" /\ replica[r] \in {"down", "failed"}
  /\ replica' = [replica EXCEPT ![r] = "up"]
  /\ UNCHANGED <<kind, rows, req, seed>>

\* existsByEmail, if there are credentials: a first administrator is created
\* only where there is none.  The password is hashed before the next await ends.
StartBoot(r) ==
  /\ kind = "admin" /\ replica[r] \in {"down", "failed"}
  /\ replica' = [replica EXCEPT ![r] =
       IF seed = None \/ Holders(SeedEmail) # {} THEN "up" ELSE "seeding"]
  /\ UNCHANGED <<kind, rows, req, seed>>

\* The INSERT: if the index refuses it, the boot fails, and the pod with it.
SeedInsert(r) ==
  /\ replica[r] = "seeding"
  /\ IF Holders(Stored(SeedEmail)) = {}
     THEN /\ \E q \in Rows : Fresh(q) /\ rows' = [rows EXCEPT ![q] = NewRow(Stored(SeedEmail))]
          /\ replica' = [replica EXCEPT ![r] = "up"]
     ELSE /\ replica' = [replica EXCEPT ![r] = "failed"]
          /\ UNCHANGED rows
  /\ UNCHANGED <<kind, req, seed>>

Crash(r) ==
  /\ replica[r] \in {"seeding", "up"}
  /\ replica' = [replica EXCEPT ![r] = "down"]
  /\ UNCHANGED <<kind, rows, req, seed>>

Next ==
  \/ \E w \in Workers :
       \/ Insert(w) \/ Save(w) \/ Interrupt(w)
       \/ \E r \in Rows, s \in Spelling : StartRegister(w, r, s) \/ StartRename(w, r, s)
       \/ \E r \in Rows : StartEdit(w, r)
  \/ \E r \in Rows : Remove(r)
  \/ \E r \in Replicas : StartBoot(r) \/ SeedInsert(r) \/ Crash(r)

\* A pod that is down, or whose boot failed, is started again, and its boot goes on.
Fairness == \A r \in Replicas : WF_vars(StartBoot(r)) /\ WF_vars(SeedInsert(r))

Spec == Init /\ [][Next]_vars /\ Fairness

-----------------------------------------------------------------------------
TypeOK ==
  /\ kind \in Kinds
  /\ rows \in [Rows -> Row]
  /\ req \in [Workers -> Request]
  /\ seed \in Spelling \union {None}
  /\ replica \in [Replicas -> {"down", "seeding", "failed", "up"}]

\* What a key means to a reader: names of services differ by case, nothing else does.
Meaning(s) == [word |-> s.word, cased |-> kind = "service" /\ s.cased]

\* No two live rows have keys that mean the same: not by two registrations that
\* both found it free, nor by another spelling the check did not look for, nor by
\* a rename nobody checked, nor by a stale save that puts an old name back.
KeysAreDistinct ==
  \A q, r \in Rows :
    (rows[q].row = "live" /\ rows[r].row = "live"
       /\ Meaning(rows[q].key) = Meaning(rows[r].key)) => q = r

\* A replica that serves has its configured administrator: no boot ends before
\* the administrator is stored, by it or by another.
FirstAdminExists ==
  (seed # None /\ \E r \in Replicas : replica[r] = "up") =>
    \E q \in Rows : rows[q].row = "live" /\ rows[q].key.word = seed.word

\* Replicas that boot together can fail each other's boot, but not for ever:
\* once they stop crashing, every one of them comes up.
EveryReplicaBoots ==
  (kind = "admin" /\ <>[][\A r \in Replicas : ~Crash(r)]_vars) =>
    <>[](\A r \in Replicas : replica[r] = "up")
=============================================================================
