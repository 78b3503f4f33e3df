--------------------------- MODULE MachineRegister ---------------------------
(***************************************************************************)
(* What an agent may expect of POST /api/v1/machines/register (main.go:     *)
(* 86-139): the address of a request gets into the row of its machine at    *)
(* one instant between the request and the answer, and at no other; 200     *)
(* says that it did, 500 and no answer at all leave it open.                *)
(***************************************************************************)
EXTENDS Integers

CONSTANTS
  Handler,     \* requests that the server can be handling
  Machine,     \* machine ids
  Address,     \* what a machine registers
  None         \* no row, no machine

VARIABLES
  rows,        \* rows[m]: the address in the row of m, or None
  request,     \* request[h]: the request handled by h, or NoRequest
  heard        \* heard[m]: the status that m has got, 0 for none yet, -1 for an error
vars == <<rows, request, heard>>

NoRequest == [mach |-> None, ip |-> 0, client |-> FALSE, stage |-> "none"]

Init ==
  /\ rows = [m \in Machine |-> None]
  /\ request = [h \in Handler |-> NoRequest]
  /\ heard = [m \in Machine |-> 0]

Ask(h, m, ip) ==
  /\ request[h] = NoRequest
  /\ request' = [request EXCEPT ![h] =
       [mach |-> m, ip |-> ip, client |-> TRUE, stage |-> "asked"]]
  /\ heard' = [heard EXCEPT ![m] = 0]
  /\ UNCHANGED rows

\* The one instant.
Set(h) ==
  /\ request[h].stage = "asked"
  /\ rows' = [rows EXCEPT ![request[h].mach] = request[h].ip]

Write(h) ==
  /\ Set(h)
  /\ request' = [request EXCEPT ![h].stage = "written"]
  /\ UNCHANGED heard

Reply(h, status) ==
  /\ request' = [request EXCEPT ![h] = NoRequest]
  /\ heard' = IF request[h].client THEN [heard EXCEPT ![request[h].mach] = status] ELSE heard

Succeed(h) ==
  /\ Reply(h, 200)
  /\ \/ Set(h)
     \/ request[h].stage = "written" /\ UNCHANGED rows

Fail(h) ==
  /\ request[h].stage # "none"
  /\ Reply(h, 500)
  /\ Set(h) \/ UNCHANGED rows

\* The client goes away, or never got to the server; its request goes on.
Abandon(m, H, status) ==
  /\ request' = [h \in Handler |-> IF h \in H /\ request[h].mach = m
                                   THEN [request[h] EXCEPT !.client = FALSE]
                                   ELSE request[h]]
  /\ heard' = [heard EXCEPT ![m] = status]
  /\ UNCHANGED rows

Next ==
  \/ \E h \in Handler :
       \/ \E m \in Machine, ip \in Address : Ask(h, m, ip)
       \/ Write(h) \/ Succeed(h) \/ Fail(h)
  \/ \E m \in Machine, H \in SUBSET Handler, status \in {0, -1} : Abandon(m, H, status)

Spec == Init /\ [][Next]_vars
=============================================================================
