--------------------------- MODULE MCRegistration ---------------------------
(***************************************************************************)
(* What is registered: rows known by a key (Registry), the values keys are *)
(* made of (ValueObjects), and a base filled by a script (SeedDemo).  The  *)
(* three share no state.  BOUND: a behaviour is of one of them, the others *)
(* standing where they started.                                            *)
(***************************************************************************)
EXTENDS Registry, SeedDemo

Untouched ==
  /\ \A r \in Rows : rows[r].row = "absent"
  /\ req = [w \in Workers |-> Idle]
  /\ replica = [r \in Replicas |-> "down"]

Unseeded == base["clients"] = 0 /\ \A s \in Seeders : At(s, "resting")

MCInit == Init /\ TypingInit /\ SeedInit

MCSpec ==
  /\ MCInit
  /\ [][\/ Next /\ field = "cpf" /\ typed = <<>> /\ Unseeded /\ UNCHANGED <<typing, seeding>>
        \/ Type /\ kind = "vehicle" /\ Untouched /\ Unseeded /\ UNCHANGED <<vars, seeding>>
        \/ Seed /\ kind = "vehicle" /\ Untouched /\ field = "cpf" /\ typed = <<>>
             /\ UNCHANGED <<vars, typing>>]_<<vars, typing, seeding>>
  /\ Fairness
=============================================================================
