---------------------------- MODULE ServiceOrder ----------------------------
(***************************************************************************)
(* The ServiceOrder aggregate as pure operators: the transition matrix,    *)
(* the guard and the effect of each method that changes the entity.  The   *)
(* entity lives in memory; Workshop loads it from a row and saves it back. *)
(* A history entry keeps what StatusHistory.record stores, except the      *)
(* timestamp; "system" is the literal the use cases sign with, "staff"     *)
(* stands for the changedBy a PATCH carries.                               *)
(***************************************************************************)
EXTENDS Sequences, Naturals

CONSTANTS NoBudget   \* the null budgetId

ServiceOrderStatus ==
  {"RECEBIDA", "EM_DIAGNOSTICO", "AGUARDANDO_APROVACAO", "EM_EXECUCAO",
   "PAUSADO", "FINALIZADA", "ENTREGUE", "ENCERRADA_SEM_EXECUCAO"}

ALLOWED_TRANSITIONS ==
  {<<"RECEBIDA", "EM_DIAGNOSTICO">>,
   <<"EM_DIAGNOSTICO", "AGUARDANDO_APROVACAO">>,
   <<"AGUARDANDO_APROVACAO", "EM_EXECUCAO">>,
   <<"AGUARDANDO_APROVACAO", "ENCERRADA_SEM_EXECUCAO">>,
   <<"EM_EXECUCAO", "PAUSADO">>,
   <<"EM_EXECUCAO", "FINALIZADA">>,
   <<"EM_EXECUCAO", "AGUARDANDO_APROVACAO">>,
   <<"PAUSADO", "EM_EXECUCAO">>,
   <<"FINALIZADA", "ENTREGUE">>}

Entry(from, to, by) == [from |-> from, to |-> to, by |-> by]

StatusHistoryEntry ==
  [from : ServiceOrderStatus \union {"none"}, to : ServiceOrderStatus,
   by : {"system", "staff"}]

\* new ServiceOrder(...): RECEBIDA, no budget, one history entry from null.
NewServiceOrder ==
  [row |-> "live", status |-> "RECEBIDA", budgetId |-> NoBudget,
   history |-> <<Entry("none", "RECEBIDA", "system")>>]

\* Fault: the budget guard of execution is missing.
CanStartUnbudgeted(so, to) == <<so.status, to>> \in ALLOWED_TRANSITIONS

\* Fault: the matrix is not consulted.
CanMoveAnywhere(so, to) == to = "EM_EXECUCAO" => so.budgetId # NoBudget

\* The two guards of changeStatus: the matrix, and a budget to start execution.
CanChangeStatus(so, to) ==
  /\ <<so.status, to>> \in ALLOWED_TRANSITIONS
  /\ to = "EM_EXECUCAO" => so.budgetId # NoBudget

\* Fault: the entry is recorded after _status was assigned.
ChangeStatusRecordedLate(so, to, by) ==
  [so EXCEPT !.status = to, !.history = Append(@, Entry(to, to, by))]

ChangeStatus(so, to, by) ==
  [so EXCEPT !.status = to, !.history = Append(@, Entry(so.status, to, by))]

SetBudget(so, b) == [so EXCEPT !.budgetId = b]

\* Fault: the reference is blanked instead of set to null.
ClearBudgetToBlank(so) == [so EXCEPT !.budgetId = ""]

ClearBudget(so) == [so EXCEPT !.budgetId = NoBudget]

\* Fault: re-budgeting an order in execution keeps the old budget.
AdvanceKeepingBudget(so) ==
  CASE so.status = "RECEBIDA" ->
         ChangeStatus(ChangeStatus(so, "EM_DIAGNOSTICO", "system"),
                      "AGUARDANDO_APROVACAO", "system")
    [] so.status \in {"EM_DIAGNOSTICO", "EM_EXECUCAO"} ->
         ChangeStatus(so, "AGUARDANDO_APROVACAO", "system")
    [] OTHER -> so

(***************************************************************************)
(* advanceToAwaitingApproval of CreateBudgetUseCase.  On a new order it is *)
(* also the two changeStatus calls of CreateServiceOrderUseCase.  Each     *)
(* arm's changeStatus calls are allowed by the matrix, so none can throw.  *)
(***************************************************************************)
AdvanceToAwaitingApproval(so) ==
  CASE so.status = "RECEBIDA" ->
         ChangeStatus(ChangeStatus(so, "EM_DIAGNOSTICO", "system"),
                      "AGUARDANDO_APROVACAO", "system")
    [] so.status = "EM_DIAGNOSTICO" ->
         ChangeStatus(so, "AGUARDANDO_APROVACAO", "system")
    [] so.status = "EM_EXECUCAO" ->
         ChangeStatus(ClearBudget(so), "AGUARDANDO_APROVACAO", "system")
    [] OTHER -> so
=============================================================================
