-------------------------------- MODULE Proxy --------------------------------
(***************************************************************************)
(* The allowlist proxy (sandbox/proxy/credential_proxy.py): one connection *)
(* of the agent, from the CONNECT request its handler reads to the two     *)
(* threads that pump bytes both ways between the client's socket and the   *)
(* upstream one.  Connections share nothing but the allowlist, which is    *)
(* read once, so that one stands for all.                                  *)
(*                                                                         *)
(* A host is the sequence of its labels; a chunk is the number its sender  *)
(* gave it.  Of TCP the model keeps that a direction is a bounded FIFO, how*)
(* it ends (half-close, reset, shutdown), and that shut sockets still hold *)
(* what arrived on them.                                                   *)
(***************************************************************************)
EXTENDS Naturals, Sequences, SequencesExt

CONSTANTS Asked, AllowList,  \* hosts the client may ask for; the allowlist
          MaxChunks,     \* bound: chunks each peer sends
          Cap,           \* bound: chunks a socket's send buffer holds
          Eager,         \* the client may send before it is told 200
          Timeouts       \* the timeout of the upstream socket may fire

ASSUME ProxyAssumption == /\ AllowList # {} /\ <<>> \notin AllowList  \* load_allowlist, main
                          /\ Asked \cup AllowList \subseteq Seq(STRING)
                          /\ MaxChunks \in Nat /\ Cap \in Nat \ {0}
                          /\ Eager \in BOOLEAN /\ Timeouts \in BOOLEAN

Sockets == {"client", "upstream"}
Other(s) == CHOOSE d \in Sockets : d # s
Requests == [kind : {"unfinished", "oversized", "not_CONNECT", "bad_port"},
             host : {<<>>}]
            \cup [kind : {"CONNECT"}, host : Asked]

VARIABLES request,  \* what the client sends as its header
          handler,  \* reading, connecting, answering, pumping, ended
          host,     \* the host upstream is connected to, or <<>>
          status,   \* status lines sent to the client
          pump,     \* by source: waiting, recv, send, done
          hand,     \* by source: the data between recv and sendall
          inbox,    \* by socket: what its peer sent and the proxy has not read
          outbox,   \* by socket: what the proxy sent and its peer has not read
          sent,     \* history: the chunks each peer has sent
          got,      \* history: the chunks each peer has read
          ended,    \* sockets whose peer has closed its sending side
          broken,   \* sockets whose peer has reset the connection
          shut      \* sockets the proxy has shut down, both ways

proxyVars == <<request, handler, host, status, pump, hand, inbox, outbox, sent,
               got, ended, broken, shut>>
sockets == <<inbox, outbox, sent, got, ended, broken>>
tunnel == <<pump, hand, shut>>

ProxyInit == /\ request \in Requests /\ handler = "reading"
             /\ host = <<>> /\ status = <<>>
             /\ pump = [s \in Sockets |-> "waiting"]
             /\ hand = [s \in Sockets |-> <<>>]
             /\ inbox = [s \in Sockets |-> <<>>] /\ outbox = inbox
             /\ sent = [s \in Sockets |-> 0] /\ got = inbox
             /\ ended = {} /\ broken = {} /\ shut = {}

-----------------------------------------------------------------------------
(* (Mutant: without the "." before the entry, the first label of the entry *)
(* need only end the host's.)                                              *)
HostEndsLikeEntry(h) == \E d \in AllowList : IsSuffix(Tail(d), h)

(* _host_allowed: the host itself or a subdomain of an entry.              *)
HostAllowed(h) == \E d \in AllowList : IsSuffix(d, h)

(* A status line and the end; nothing arrives at a client that is gone.    *)
Refuse(code) ==
    /\ status' = IF "client" \in broken THEN status ELSE Append(status, code)
    /\ handler' = "ended"

(* The client closes before the end of its header.                         *)
ReadEnd == /\ handler = "reading"
           /\ "client" \in broken \/ (request.kind = "unfinished" /\ "client" \in ended)
           /\ handler' = "ended"
           /\ UNCHANGED <<request, host, status, tunnel, sockets>>

(* The header is complete or too long.  What the client sent behind it in  *)
(* the same chunk is dropped with the request buffer.                      *)
ReadHeader ==
    /\ handler = "reading" /\ request.kind # "unfinished" /\ "client" \notin broken
    /\ CASE request.kind = "oversized" -> Refuse(431)
         [] request.kind = "not_CONNECT" -> Refuse(405)
         [] request.kind = "bad_port" -> Refuse(502)
         [] OTHER -> IF HostAllowed(request.host)
                       THEN handler' = "connecting" /\ UNCHANGED status
                       ELSE Refuse(403)
    /\ \E n \in 0 .. Len(inbox["client"]) :
          inbox' = [inbox EXCEPT !["client"] = SubSeq(@, n + 1, Len(@))]
    /\ UNCHANGED <<request, host, tunnel, outbox, sent, got, ended, broken>>

Connect == /\ handler = "connecting"
           /\ \/ host' = request.host /\ handler' = "answering" /\ UNCHANGED status
              \/ Refuse(502) /\ UNCHANGED host
           /\ UNCHANGED <<request, tunnel, sockets>>

(* 200 and the pumps; a client that is gone ends it, and the upstream      *)
(* socket is closed with the handler's frame.                              *)
Answer ==
    /\ handler = "answering"
    /\ IF "client" \in broken
         THEN /\ handler' = "ended" /\ shut' = {"upstream"}
              /\ UNCHANGED <<status, pump>>
         ELSE /\ handler' = "pumping" /\ status' = Append(status, 200)
              /\ pump' = [s \in Sockets |-> "recv"] /\ UNCHANGED shut
    /\ UNCHANGED <<request, host, hand, sockets>>

-----------------------------------------------------------------------------
(* _pump from socket s to the other one.                                   *)
Receive(s) == /\ pump[s] = "recv" /\ inbox[s] # <<>>
              /\ hand' = [hand EXCEPT ![s] = <<Head(inbox[s])>>]
              /\ inbox' = [inbox EXCEPT ![s] = Tail(@)]
              /\ pump' = [pump EXCEPT ![s] = "send"]
              /\ UNCHANGED <<request, handler, host, status, shut, outbox,
                             sent, got, ended, broken>>

(* (Mutant: only the destination is shut down.)                            *)
PumpEndsOneSide(s) == /\ pump' = [pump EXCEPT ![s] = "done"]
                      /\ hand' = [hand EXCEPT ![s] = <<>>]
                      /\ shut' = shut \cup {Other(s)}
                      /\ UNCHANGED <<request, handler, host, status, sockets>>

(* The finally clause shuts both sockets down, both ways.                  *)
PumpEnds(s) == /\ pump' = [pump EXCEPT ![s] = "done"]
               /\ hand' = [hand EXCEPT ![s] = <<>>]
               /\ shut' = Sockets
               /\ UNCHANGED <<request, handler, host, status, sockets>>

(* recv returns nothing or raises.                                         *)
ReceiveEnd(s) ==
    /\ pump[s] = "recv" /\ inbox[s] = <<>> /\ s \in ended \cup broken \cup shut
    /\ PumpEnds(s)

(* (Mutant: send instead of sendall: what does not fit is dropped.)        *)
SendSome(s) == /\ pump[s] = "send" /\ Other(s) \notin broken \cup shut
               /\ outbox' = [outbox EXCEPT ![Other(s)] =
                      IF Len(@) < Cap THEN @ \o hand[s] ELSE @]
               /\ hand' = [hand EXCEPT ![s] = <<>>]
               /\ pump' = [pump EXCEPT ![s] = "recv"]
               /\ UNCHANGED <<request, handler, host, status, shut, inbox,
                              sent, got, ended, broken>>

(* sendall returns when the buffer has taken everything.                   *)
Send(s) == /\ pump[s] = "send" /\ Other(s) \notin broken \cup shut
           /\ Len(outbox[Other(s)]) < Cap
           /\ outbox' = [outbox EXCEPT ![Other(s)] = @ \o hand[s]]
           /\ hand' = [hand EXCEPT ![s] = <<>>]
           /\ pump' = [pump EXCEPT ![s] = "recv"]
           /\ UNCHANGED <<request, handler, host, status, shut, inbox, sent,
                          got, ended, broken>>

SendFails(s) == /\ pump[s] = "send" /\ Other(s) \in broken \cup shut
                /\ PumpEnds(s)

(* The timeout of create_connection stays on the upstream socket: a recv   *)
(* that waits for 10 s raises, and so does a sendall that cannot go on.    *)
TimesOut(s) ==
    /\ Timeouts
    /\ \/ s = "upstream" /\ pump[s] = "recv" /\ inbox[s] = <<>>
       \/ s = "client" /\ pump[s] = "send" /\ Len(outbox["upstream"]) = Cap
    /\ PumpEnds(s)

-----------------------------------------------------------------------------
(* The peers: they send, read, close their sending side, and reset.        *)
Reachable(s) == s \notin broken /\ (s = "upstream" => host # <<>>)
MaySend(s) == /\ Reachable(s) /\ s \notin ended /\ sent[s] < MaxChunks
              /\ s = "client" /\ ~Eager => status = <<200>>

PeerSends(s) == /\ MaySend(s)
                /\ sent' = [sent EXCEPT ![s] = @ + 1]
                /\ inbox' = [inbox EXCEPT ![s] = Append(@, sent'[s])]
                /\ UNCHANGED <<request, handler, host, status, tunnel, outbox,
                               got, ended, broken>>

PeerReads(s) == /\ Reachable(s) /\ outbox[s] # <<>>
                /\ got' = [got EXCEPT ![s] = Append(@, Head(outbox[s]))]
                /\ outbox' = [outbox EXCEPT ![s] = Tail(@)]
                /\ UNCHANGED <<request, handler, host, status, tunnel, inbox,
                               sent, ended, broken>>

PeerEnds(s) == /\ Reachable(s) /\ s \notin ended
               /\ ended' = ended \cup {s}
               /\ UNCHANGED <<request, handler, host, status, tunnel, inbox,
                              outbox, sent, got, broken>>

PeerResets(s) == /\ Reachable(s)
                 /\ broken' = broken \cup {s}
                 /\ inbox' = [inbox EXCEPT ![s] = <<>>]
                 /\ outbox' = [outbox EXCEPT ![s] = <<>>]
                 /\ UNCHANGED <<request, handler, host, status, tunnel, sent,
                                got, ended>>

Pump(s) == Receive(s) \/ ReceiveEnd(s) \/ Send(s) \/ SendFails(s)
Peer(s) == PeerSends(s) \/ PeerReads(s) \/ PeerEnds(s) \/ PeerResets(s)

ProxyNext == \/ ReadEnd \/ ReadHeader \/ Connect \/ Answer
             \/ \E s \in Sockets : Pump(s) \/ TimesOut(s) \/ Peer(s)
ProxySpec == ProxyInit /\ [][ProxyNext]_proxyVars
(* The proxy's threads go on; no peer is obliged to do anything.           *)
ProxyFairSpec == /\ ProxySpec /\ WF_proxyVars(ReadEnd) /\ WF_proxyVars(ReadHeader)
                 /\ WF_proxyVars(Connect) /\ WF_proxyVars(Answer)
                 /\ \A s \in Sockets : WF_proxyVars(Pump(s))
-----------------------------------------------------------------------------
FirstChunks(n) == [i \in 1 .. n |-> i]

(* What a peer reads is what the other one sent, in order and without a    *)
(* gap, however the tunnel ends; while both ends are there and the tunnel  *)
(* is up, every chunk sent is read or still on its way.  The client is told*)
(* one thing, and 200 before anything of either peer reaches the other.    *)
TunnelIsFaithful ==
    /\ \A s \in Sockets :
          LET passed == got[Other(s)] \o outbox[Other(s)] \o hand[s] \o inbox[s] IN
          /\ IsPrefix(got[Other(s)], FirstChunks(sent[s]))
          /\ broken = {} /\ shut = {} => passed = FirstChunks(sent[s])
          /\ got[s] # <<>> => status = <<200>>
    /\ Len(status) <= 1

(* No pump outlives the other: when one direction is over, the other's     *)
(* thread ends, also when it waits for a peer that sends nothing, or is    *)
(* stuck in sendall to one that reads nothing.                             *)
PumpsEndTogether == \A s \in Sockets :
    pump[s] = "done" ~> pump[Other(s)] = "done"

(* What a peer sent before it closed its sending side arrives, and the     *)
(* answer to it comes back.                                                *)
HalfClosedKeepsReading ==
    broken = {} /\ shut # {} => \A s \in Sockets : inbox[s] \o hand[s] = <<>>

(* The proxy is a tunnel to a host of the allowlist or below one of its    *)
(* entries ("exact host or exact subdomain", _host_allowed; "a CONNECT to a*)
(* host not on the allowlist is refused"): no step of the handler, a pump  *)
(* or the peers connects to another one, lets anything pass before the 200,*)
(* or drops, repeats or reorders what a side then hears.                   *)
ListedOrBelow == {h \in Asked : \E n \in 1 .. Len(h) : SubSeq(h, n, Len(h)) \in AllowList}
Promise == INSTANCE Tunnel WITH Permitted <- ListedOrBelow,
                                connected <- host, open <- status = <<200>>
ImplementsTunnel == Promise!TunnelSpec
=============================================================================
