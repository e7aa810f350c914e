--------------------------- MODULE MCWorkshopAudit ---------------------------
(***************************************************************************)
(* Small instances of WorkshopAudit.                                       *)
(***************************************************************************)
EXTENDS WorkshopAudit, TLC

CONSTANTS o1, b1, p1, p2

\* Serial: one order opened by the requests themselves, two parts.
SerialDemands == {p1 :> 1 @@ p2 :> 1}
SerialStock == p1 :> 1 @@ p2 :> 1
SerialOpened == <<>>
SerialOps == {"create", "quote", "approve", "refuse", "changeStatus",
              "adjustStock", "removeOrder", "removeBudget", "removePart",
              "interrupt"}

\* Race: two requests, and only decisions and what leads to them.
RaceOpened == o1 :> b1
RaceDemands == {p1 :> 1}
RaceStock == p1 :> 1
RaceOps == {"quote", "approve", "refuse", "changeStatus"}

StockEntries == {1}
=============================================================================
