------------------------------- MODULE Tunnel -------------------------------
(***************************************************************************)
(* What the allowlist proxy promises a client, with no sockets, buffers or *)
(* threads in sight: at most one connection, to a permitted host; nothing  *)
(* passes before it is open; and what one side hears is what the other has *)
(* said, in order, nothing twice and nothing left out in between.  A side  *)
(* may at any time hear no more.                                           *)
(***************************************************************************)
EXTENDS Naturals, Sequences

CONSTANT Permitted   \* hosts the client may be connected to

Sides == {"client", "upstream"}

VARIABLES
  connected,   \* the host of the connection, or <<>>
  open,        \* the client has been told that the tunnel is open
  sent,        \* by side: how many chunks it has said, numbered from 1
  got          \* by side: the chunks it has heard

line == <<connected, open, sent, got>>

TunnelInit ==
  /\ connected = <<>> /\ open = FALSE
  /\ sent = [s \in Sides |-> 0] /\ got = [s \in Sides |-> <<>>]

Dial ==
  /\ connected = <<>> /\ connected' \in Permitted
  /\ UNCHANGED <<open, sent, got>>

Open ==
  /\ connected # <<>> /\ ~open /\ open' = TRUE
  /\ UNCHANGED <<connected, sent, got>>

Say(s) ==
  /\ connected # <<>> /\ (s = "client" => open)
  /\ sent' = [sent EXCEPT ![s] = @ + 1]
  /\ UNCHANGED <<connected, open, got>>

Hear(s) ==
  /\ open
  /\ \E t \in Sides \ {s} : Len(got[s]) < sent[t]
  /\ got' = [got EXCEPT ![s] = Append(@, Len(@) + 1)]
  /\ UNCHANGED <<connected, open, sent>>

TunnelNext == Dial \/ Open \/ \E s \in Sides : Say(s) \/ Hear(s)

TunnelSpec == TunnelInit /\ [][TunnelNext]_line
=============================================================================
