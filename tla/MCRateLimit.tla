---------------------------- MODULE MCRateLimit ----------------------------
(***************************************************************************)
(* A login guarded by e-mail, spelled two ways and sent from two addresses,*)
(* a consultation guarded by client, and bodies without an e-mail.         *)
(***************************************************************************)
EXTENDS RateLimit

CONSTANTS account, client, home, gateway, Spelt, SPELT

MCLower == [e \in {Spelt, SPELT} |-> account]
MCKeys == {account, client, home, gateway}
MCRequests ==
  {[client |-> None, email |-> e, ip |-> i] :
     e \in {Spelt, SPELT}, i \in {home, gateway}}
    \union {[client |-> client, email |-> None, ip |-> home],
            [client |-> None, email |-> None, ip |-> home]}
=============================================================================
