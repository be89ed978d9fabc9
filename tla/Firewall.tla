------------------------------ MODULE Firewall ------------------------------
(***************************************************************************)
(* The default-deny firewall of the agent's container: the script that     *)
(* harness/stage0_verification/egress.py renders (committed as             *)
(* sandbox/devcontainer/init-firewall.sh), one command at a time under     *)
(* `set -euo pipefail`, run at every container start                       *)
(* (sandbox/devcontainer/devcontainer.json) and again at will, while the   *)
(* agent opens connections and the addresses of hosts change.              *)
(*                                                                         *)
(* iptables, ipset and dig are known by what the script uses of them.  All *)
(* rules accept, but for the final LOG, so that a chain is the set of its  *)
(* matches; the container forwards nothing, so FORWARD is left out.        *)
(***************************************************************************)
EXTENDS Naturals, Sequences, SequencesExt

CONSTANTS Domains,    \* the allowlist, in the order it is resolved
          Hosts,      \* all hosts: the domains, the probe and others
          Probe,      \* the host the script expects to be blocked
          Addresses,
          Resolvers,  \* resolver_ips, a sequence of addresses
          Subnets,    \* allow_subnets, a sequence of addresses
          MaxRuns,    \* bound: runs of the script
          MaxMoves,   \* bound: hosts that change their address
          MaxStarts   \* bound: container restarts

ASSUME FirewallAssumption ==
    /\ Domains \in Seq(Hosts) /\ Probe \in Hosts \ ToSet(Domains)
    /\ Resolvers \in Seq(Addresses) \ {<<>>}  \* none given: the defaults
    /\ Subnets \in Seq(Addresses)
    /\ {MaxRuns, MaxMoves, MaxStarts} \subseteq Nat

VARIABLES rules,     \* by chain: the matches that are accepted
          policy,    \* by chain: ACCEPT or DROP
          ipset,     \* the set allowed-domains: none, or one set of addresses
          pc,        \* the next command of the running script, 0 when idle
          exit,      \* what the last script ended with since the start
          addr,      \* the address of each host
          conns,     \* addresses the agent has an open connection to
          closed,    \* history: OUTPUT has been set to DROP since the start
          known,     \* history: addresses the domains resolved to since then
          answers,   \* history: what DNS answered in this run of the script
          runs, moves, starts

vars == <<rules, policy, ipset, pc, exit, addr, conns, closed, known, answers,
          runs, moves, starts>>
kernel == <<rules, policy, ipset>>
history == <<closed, known, answers>>
bounds == <<runs, moves, starts>>

Chains == {"OUTPUT", "INPUT"}
NoRules == [c \in Chains |-> {}]
AcceptAll == [c \in Chains |-> "ACCEPT"]
HostAddresses == Addresses \ (ToSet(Resolvers) \cup ToSet(Subnets))

Init == /\ rules = NoRules /\ policy = AcceptAll /\ ipset = {}
        /\ pc = 0 /\ exit = "none" /\ conns = {}
        /\ closed = FALSE /\ known = {} /\ answers = {}
        /\ addr \in [Hosts -> HostAddresses]
        /\ runs = 0 /\ moves = 0 /\ starts = 0

-----------------------------------------------------------------------------
(* netfilter, for a packet of the agent to address a and the reply to it.  *)
InSet(a) == \E s \in ipset : a \in s
Listed(a) == \/ <<"allowed">> \in rules["OUTPUT"] /\ InSet(a)
             \/ <<"dst", a>> \in rules["OUTPUT"]
OutAccepts(a) == policy["OUTPUT"] = "ACCEPT" \/ Listed(a)
RepliesAccepted == policy["INPUT"] = "ACCEPT" \/ <<"established">> \in rules["INPUT"]

CanOpen(a) == OutAccepts(a) /\ RepliesAccepted
CanTalk(a) == /\ OutAccepts(a) \/ <<"established">> \in rules["OUTPUT"]
              /\ RepliesAccepted
CanResolve == /\ RepliesAccepted
              /\ \E r \in ToSet(Resolvers) :
                    OutAccepts(r) \/ <<"dns", r>> \in rules["OUTPUT"]

-----------------------------------------------------------------------------
(* build_iptables_plan: the commands in their order.  The rules for udp and*)
(* tcp of a resolver are one command here.                                 *)
Flush(c) == [do |-> "flush", chain |-> c]
Accept(c, match) == [do |-> "append", chain |-> c, match |-> match]
Default(c, p) == [do |-> "policy", chain |-> c, policy |-> p]
Setup == <<Flush("OUTPUT"), Flush("INPUT"), [do |-> "destroy"], [do |-> "create"],
           Accept("OUTPUT", <<"lo">>), Accept("INPUT", <<"lo">>),
           Accept("OUTPUT", <<"established">>), Accept("INPUT", <<"established">>)>>
Dns == [i \in 1 .. Len(Resolvers) |-> Accept("OUTPUT", <<"dns", Resolvers[i]>>)]
Resolve == [i \in 1 .. Len(Domains) |-> [do |-> "resolve", domain |-> Domains[i]]]
Allow == <<Accept("OUTPUT", <<"allowed">>)>>
         \o [i \in 1 .. Len(Subnets) |-> Accept("OUTPUT", <<"dst", Subnets[i]>>)]
Deny == <<Default("OUTPUT", "DROP"), Default("INPUT", "DROP")>>

(* (Mutant: the chains are opened while they are built.)                   *)
PlanOpensFirst == <<Default("OUTPUT", "ACCEPT")>> \o Setup \o Dns \o Resolve \o Allow \o Deny

(* (Mutant: the domains are resolved before DNS is let through.)           *)
PlanResolvesFirst == Setup \o Resolve \o Dns \o Allow \o Deny

Plan == Setup \o Dns \o Resolve \o Allow \o Deny

(* The script is started: it gives up at once without ipset.               *)
Start == /\ pc = 0 /\ runs < MaxRuns
         /\ runs' = runs + 1 /\ answers' = {}
         /\ pc' \in {0, 1} /\ exit' = IF pc' = 0 THEN "failed" ELSE "none"
         /\ UNCHANGED <<kernel, addr, conns, closed, known, moves, starts>>

Succeeds(c) ==
    CASE c.do = "flush" ->
           /\ rules' = [rules EXCEPT ![c.chain] = {}]
           /\ UNCHANGED <<policy, ipset, history>>
      [] c.do = "append" ->
           /\ rules' = [rules EXCEPT ![c.chain] = @ \cup {c.match}]
           /\ UNCHANGED <<policy, ipset, history>>
      [] c.do = "policy" ->
           /\ policy' = [policy EXCEPT ![c.chain] = c.policy]
           /\ closed' = (closed \/ (c.chain = "OUTPUT" /\ c.policy = "DROP"))
           /\ UNCHANGED <<rules, ipset, known, answers>>
      [] c.do = "destroy" ->     \* `|| true`: may do nothing
           /\ ipset' \in {{}, ipset}
           /\ UNCHANGED <<rules, policy, history>>
      [] c.do = "create" ->
           /\ ipset = {} /\ ipset' = {{}}
           /\ UNCHANGED <<rules, policy, history>>
      [] c.do = "resolve" ->     \* dig, or ipset add of what it found, fails silently
           \/ UNCHANGED <<kernel, history>>
           \/ LET a == addr[c.domain] IN
              /\ answers' = answers \cup {a}
              /\ known' = known \cup {a}
              /\ ipset' = IF CanResolve THEN {s \cup {a} : s \in ipset} ELSE ipset
              /\ UNCHANGED <<rules, policy, closed>>

Step == /\ pc \in DOMAIN Plan
        /\ Succeeds(Plan[pc])
        /\ pc' = pc + 1
        /\ UNCHANGED <<exit, addr, conns, bounds>>

(* set -e: the script ends at a command that fails.                        *)
Fails == /\ pc \in DOMAIN Plan
         /\ Plan[pc].do \notin {"destroy", "resolve"}
         /\ pc' = 0 /\ exit' = "failed"
         /\ UNCHANGED <<kernel, addr, conns, history, bounds>>

(* The self-verification: an allowed host that is not reached is a warning,*)
(* the probe being reached is a failure.                                   *)
Verify == /\ pc = Len(Plan) + 1
          /\ pc' = 0
          /\ \/ exit' = "ok"
             \/ CanResolve /\ CanOpen(addr[Probe]) /\ exit' = "failed"
          /\ UNCHANGED <<kernel, addr, conns, history, bounds>>

-----------------------------------------------------------------------------
(* The world: the agent's connections, hosts that move, container starts.  *)
Open == \E h \in Hosts :
    /\ CanOpen(addr[h])
    /\ conns' = conns \cup {addr[h]}
    /\ UNCHANGED <<kernel, pc, exit, addr, history, bounds>>

Move == /\ moves < MaxMoves /\ moves' = moves + 1
        /\ \E h \in Hosts, a \in HostAddresses : addr' = [addr EXCEPT ![h] = a]
        /\ UNCHANGED <<kernel, pc, exit, conns, history, runs, starts>>

(* A new network namespace: nothing is filtered, nothing is connected.     *)
Restart == /\ starts < MaxStarts /\ starts' = starts + 1
           /\ rules' = NoRules /\ policy' = AcceptAll /\ ipset' = {}
           /\ pc' = 0 /\ exit' = "none" /\ conns' = {}
           /\ closed' = FALSE /\ known' = {} /\ answers' = {}
           /\ UNCHANGED <<addr, runs, moves>>

Next == Start \/ Step \/ Fails \/ Verify \/ Open \/ Move \/ Restart
Spec == Init /\ [][Next]_vars
-----------------------------------------------------------------------------
(* From the first DROP until the container starts anew, the agent opens no *)
(* connection but to subnets and to addresses the domains have resolved to:*)
(* not while the script is applied again, whose first command flushes the  *)
(* chain, and not when it fails half-way.                                  *)
NeverOpensAgain == closed => \A a \in Addresses :
    CanOpen(a) => a \in known \cup ToSet(Subnets)

(* When the script ends with success, what DNS answered it for the domains *)
(* and ipset took is reachable, everything else is not, however often it   *)
(* was applied or failed before, and the agent's open connections are not  *)
(* cut.                                                                    *)
AppliedAsListed == exit = "ok" =>
    /\ \A a \in Addresses : CanOpen(a) <=> a \in answers \cup ToSet(Subnets)
    /\ \A a \in conns : CanTalk(a)

(* "OK: non-allowlisted egress is blocked" (the script's verification):    *)
(* the agent is connected to nothing that is not listed.                   *)
OnlyListedConnected == exit = "ok" => conns \subseteq known \cup ToSet(Subnets)

(* A start of the script leaves no open network behind.                    *)
FailsClosed == exit # "none" => closed
=============================================================================
