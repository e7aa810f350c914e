--------------------------- MODULE OrderLifecycle ---------------------------
(***************************************************************************)
(* What the service desk promises of its orders and budgets, each promise  *)
(* an atomic step: no requests, no snapshots, no failures.  An order moves *)
(* along the transition matrix and enters execution only while an APROVADO *)
(* budget of its own is linked; a budget is decided once, and only a       *)
(* decided budget is linked.  WorkshopAudit implements it when requests    *)
(* are served one at a time.                                               *)
(***************************************************************************)
EXTENDS Naturals

CONSTANTS
  Orders, Budgets, NoOrder, NoBudget,
  Matrix,      \* the legal status transitions
  Opened       \* orders already waiting at the start, each with its budget

VARIABLES
  stage,     \* the status of each order, or "absent"
  asked,     \* how often the program sent each order to approval
  linked,    \* the budget each order is linked to
  owner,     \* the order each budget was made for
  verdict    \* what was decided of each budget

lifecycleVars == <<stage, asked, linked, owner, verdict>>

LifecycleInit ==
  /\ stage = [o \in Orders |-> IF o \in DOMAIN Opened THEN "AGUARDANDO_APROVACAO"
                               ELSE "absent"]
  /\ asked = [o \in Orders |-> IF o \in DOMAIN Opened THEN 1 ELSE 0]
  /\ linked = [o \in Orders |-> NoBudget]
  /\ owner = [b \in Budgets |->
       IF \E o \in DOMAIN Opened : Opened[o] = b
       THEN CHOOSE o \in DOMAIN Opened : Opened[o] = b ELSE NoOrder]
  /\ verdict = [b \in Budgets |-> "PENDENTE"]

Open(o) ==
  /\ stage[o] = "absent"
  /\ stage' = [stage EXCEPT ![o] = "RECEBIDA"]
  /\ UNCHANGED <<asked, linked, owner, verdict>>

Quote(o, b) ==
  /\ stage[o] # "absent" /\ owner[b] = NoOrder
  /\ owner' = [owner EXCEPT ![b] = o]
  /\ UNCHANGED <<stage, asked, linked, verdict>>

Decide(b, v) ==
  /\ owner[b] # NoOrder /\ verdict[b] = "PENDENTE"
  /\ verdict' = [verdict EXCEPT ![b] = v]
  /\ UNCHANGED <<stage, asked, linked, owner>>

Link(o, b) ==
  /\ owner[b] = o /\ verdict[b] = "APROVADO"
  /\ linked' = [linked EXCEPT ![o] = b]
  /\ UNCHANGED <<stage, asked, owner, verdict>>

\* A new order goes to approval in one save, through EM_DIAGNOSTICO; an order
\* in execution goes back and loses its budget.  (An admin who moves it back
\* without a new quote leaves the budget linked: that is a Move.)
SendToApproval(o) ==
  /\ stage[o] \in {"RECEBIDA", "EM_DIAGNOSTICO", "EM_EXECUCAO"}
  /\ \E b \in Budgets : owner[b] = o
  /\ stage' = [stage EXCEPT ![o] = "AGUARDANDO_APROVACAO"]
  /\ asked' = [asked EXCEPT ![o] = @ + 1]
  /\ linked' = [linked EXCEPT ![o] = IF stage[o] = "EM_EXECUCAO" THEN NoBudget ELSE @]
  /\ UNCHANGED <<owner, verdict>>

Move(o, to) ==
  /\ <<stage[o], to>> \in Matrix
  /\ to = "EM_EXECUCAO" =>
       linked[o] # NoBudget /\ owner[linked[o]] = o /\ verdict[linked[o]] = "APROVADO"
  /\ stage' = [stage EXCEPT ![o] = to]
  /\ UNCHANGED <<asked, linked, owner, verdict>>

LifecycleNext ==
  \/ \E o \in Orders : Open(o) \/ SendToApproval(o)
  \/ \E o \in Orders, b \in Budgets : Quote(o, b) \/ Link(o, b)
  \/ \E b \in Budgets, v \in {"APROVADO", "RECUSADO"} : Decide(b, v)
  \/ \E o \in Orders : \E pair \in Matrix : Move(o, pair[2])

LifecycleSpec == LifecycleInit /\ [][LifecycleNext]_lifecycleVars
=============================================================================
