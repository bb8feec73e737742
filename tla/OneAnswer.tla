----------------------------- MODULE OneAnswer -----------------------------
(***************************************************************************)
(* What yeomna-mcp promises a client: each request it accepts is settled   *)
(* once, by one answer, or by silence when the client cancelled it, and    *)
(* the server does not go away while a request is open.                    *)
(***************************************************************************)
EXTENDS Naturals, Sequences

VARIABLES
  fate,     \* per request, in order of arrival: pending, answered, silenced
  stopped,  \* the requests a cancellation has reached
  gone      \* the server has finished

vars == <<fate, stopped, gone>>

Ask ==
  /\ ~gone
  /\ fate' = Append(fate, "pending")
  /\ UNCHANGED <<stopped, gone>>

Stop(n) ==
  /\ stopped' = stopped \cup {n}
  /\ UNCHANGED <<fate, gone>>

Answer(n) ==
  /\ fate[n] = "pending"
  /\ fate' = [fate EXCEPT ![n] = "answered"]
  /\ UNCHANGED <<stopped, gone>>

Silence(n) ==
  /\ fate[n] = "pending" /\ n \in stopped
  /\ fate' = [fate EXCEPT ![n] = "silenced"]
  /\ UNCHANGED <<stopped, gone>>

Go ==
  /\ \A n \in DOMAIN fate : fate[n] # "pending"
  /\ gone' = TRUE
  /\ UNCHANGED <<fate, stopped>>

Init == fate = <<>> /\ stopped = {} /\ gone = FALSE
Next == Ask \/ Go \/ \E n \in DOMAIN fate : Stop(n) \/ Answer(n) \/ Silence(n)

Spec == Init /\ [][Next]_vars
=============================================================================
