--------------------------- MODULE SandboxProofs ---------------------------
(***************************************************************************)
(* Theorems about the sandbox.  Firewall, for any allowlist, resolvers and *)
(* subnets and any number of runs of the script, moves of hosts and        *)
(* container starts.  Proxy, for any number of chunks and any buffer.      *)
(***************************************************************************)
EXTENDS Firewall, Proxy, SequenceTheorems, TLAPS

Matches == {<<"lo">>, <<"established">>, <<"allowed">>}
           \cup {<<"dns", a>> : a \in Addresses} \cup {<<"dst", a>> : a \in Addresses}

Commands == [do : {"flush"}, chain : Chains] \cup [do : {"destroy", "create"}]
            \cup [do : {"append"}, chain : Chains, match : Matches]
            \cup [do : {"resolve"}, domain : Hosts]
            \cup [do : {"policy"}, chain : Chains, policy : {"DROP"}]

-----------------------------------------------------------------------------
(* The script.                                                             *)

LEMMA FunctionIsSeq ==
  ASSUME NEW S, NEW n \in Nat, NEW f \in [1 .. n -> S]
  PROVE  f \in Seq(S) /\ Len(f) = n
<1>1. f \in Seq(S)
  BY SeqDef
<1>2. Len(f) \in Nat /\ DOMAIN f = 1 .. Len(f) /\ DOMAIN f = 1 .. n
  BY <1>1, LenProperties
<1>3. QED
  BY <1>1, <1>2

LEMMA Inputs ==
  /\ Len(Resolvers) \in Nat \ {0} /\ Len(Domains) \in Nat /\ Len(Subnets) \in Nat
  /\ \A i \in 1 .. Len(Resolvers) : Resolvers[i] \in Addresses
  /\ \A i \in 1 .. Len(Domains) : Domains[i] \in Hosts
  /\ \A i \in 1 .. Len(Subnets) : Subnets[i] \in Addresses
BY FirewallAssumption

LEMMA Parts ==
  /\ Setup \in Seq(Commands) /\ Len(Setup) = 8
  /\ Dns \in Seq(Commands) /\ Len(Dns) = Len(Resolvers)
  /\ Resolve \in Seq(Commands) /\ Len(Resolve) = Len(Domains)
  /\ Allow \in Seq(Commands) /\ Len(Allow) = 1 + Len(Subnets)
  /\ Deny \in Seq(Commands) /\ Len(Deny) = 2
  /\ Allow[1] = Accept("OUTPUT", <<"allowed">>)
  /\ \A i \in 1 .. Len(Subnets) : Allow[1 + i] = Accept("OUTPUT", <<"dst", Subnets[i]>>)
<1> DEFINE Dsts == [i \in 1 .. Len(Subnets) |-> Accept("OUTPUT", <<"dst", Subnets[i]>>)]
<1>1. /\ \A c \in Chains, m \in Matches : Accept(c, m) \in Commands
      /\ \A c \in Chains : Flush(c) \in Commands /\ Default(c, "DROP") \in Commands
      /\ [do |-> "destroy"] \in Commands /\ [do |-> "create"] \in Commands
      /\ \A h \in Hosts : [do |-> "resolve", domain |-> h] \in Commands
  BY DEF Commands, Flush, Default, Accept
<1>2. "OUTPUT" \in Chains /\ "INPUT" \in Chains
  BY DEF Chains
<1>3. /\ \A a \in Addresses : <<"dns", a>> \in Matches /\ <<"dst", a>> \in Matches
      /\ <<"lo">> \in Matches /\ <<"established">> \in Matches /\ <<"allowed">> \in Matches
  BY DEF Matches
<1> HIDE DEF Dsts
<1>4. Setup \in Seq(Commands) /\ Len(Setup) = 8
  BY <1>1, <1>2, <1>3 DEF Setup
<1>5. Dns \in Seq(Commands) /\ Len(Dns) = Len(Resolvers)
  <2>1. Dns \in [1 .. Len(Resolvers) -> Commands]
    BY <1>1, <1>2, <1>3, Inputs DEF Dns
  <2>2. QED
    BY <2>1, Inputs, FunctionIsSeq
<1>6. Resolve \in Seq(Commands) /\ Len(Resolve) = Len(Domains)
  <2>1. Resolve \in [1 .. Len(Domains) -> Commands]
    BY <1>1, <1>2, <1>3, Inputs DEF Resolve
  <2>2. QED
    BY <2>1, Inputs, FunctionIsSeq
<1>7. Deny \in Seq(Commands) /\ Len(Deny) = 2
  BY <1>1, <1>2 DEF Deny
<1>8. Dsts \in Seq(Commands) /\ Len(Dsts) = Len(Subnets)
  <2>1. Dsts \in [1 .. Len(Subnets) -> Commands]
    BY <1>1, <1>2, <1>3, Inputs DEF Dsts
  <2>2. QED
    BY <2>1, Inputs, FunctionIsSeq
<1>9. /\ <<Accept("OUTPUT", <<"allowed">>)>> \in Seq(Commands)
      /\ Len(<<Accept("OUTPUT", <<"allowed">>)>>) = 1
      /\ <<Accept("OUTPUT", <<"allowed">>)>>[1] = Accept("OUTPUT", <<"allowed">>)
  BY <1>1, <1>2, <1>3
<1>10. Allow = <<Accept("OUTPUT", <<"allowed">>)>> \o Dsts
  BY DEF Allow, Dsts
<1>11. /\ Allow \in Seq(Commands) /\ Len(Allow) = 1 + Len(Subnets)
       /\ Allow[1] = Accept("OUTPUT", <<"allowed">>)
       /\ \A i \in 1 .. Len(Subnets) : Allow[1 + i] = Dsts[i]
  BY <1>8, <1>9, <1>10, Inputs, ConcatProperties
<1>12. \A i \in 1 .. Len(Subnets) : Dsts[i] = Accept("OUTPUT", <<"dst", Subnets[i]>>)
  BY DEF Dsts
<1>13. QED
  BY <1>4, <1>5, <1>6, <1>7, <1>11, <1>12

\* Where the parts of the script end.
DnsEnd == 8 + Len(Resolvers)
ResolveEnd == DnsEnd + Len(Domains)
AllowEnd == ResolveEnd + (1 + Len(Subnets))

LEMMA Ends ==
  /\ DnsEnd \in Nat /\ ResolveEnd \in Nat /\ AllowEnd \in Nat
  /\ 8 < DnsEnd /\ DnsEnd <= ResolveEnd /\ ResolveEnd < AllowEnd
BY Inputs DEF DnsEnd, ResolveEnd, AllowEnd

\* Where each command of the script stands.
LEMMA PlanLength == Plan \in Seq(Commands) /\ Len(Plan) = AllowEnd + 2
<1>1. /\ Setup \in Seq(Commands) /\ Dns \in Seq(Commands) /\ Resolve \in Seq(Commands)
      /\ Allow \in Seq(Commands) /\ Deny \in Seq(Commands)
  BY Parts
<1> DEFINE two == Setup \o Dns
           three == two \o Resolve
           four == three \o Allow
           five == four \o Deny
<1>2. two \in Seq(Commands) /\ Len(two) = Len(Setup) + Len(Dns)
  BY <1>1, ConcatProperties
<1>3. three \in Seq(Commands) /\ Len(three) = Len(two) + Len(Resolve)
  BY <1>1, <1>2, ConcatProperties
<1>4. four \in Seq(Commands) /\ Len(four) = Len(three) + Len(Allow)
  BY <1>1, <1>3, ConcatProperties
<1>5. five \in Seq(Commands) /\ Len(five) = Len(four) + Len(Deny) /\ Plan = five
  BY <1>1, <1>4, ConcatProperties DEF Plan
<1> HIDE DEF two, three, four, five
<1>6. Len(five) = AllowEnd + 2
  BY Parts, Inputs, <1>2, <1>3, <1>4, <1>5 DEF AllowEnd, ResolveEnd, DnsEnd
<1>7. QED
  BY <1>5, <1>6

LEMMA PlanIs ==
  /\ \A i \in 1 .. 8 : Plan[i] = Setup[i]
  /\ \A i \in 9 .. DnsEnd : Plan[i] = Dns[i - 8]
  /\ \A i \in DnsEnd + 1 .. ResolveEnd : Plan[i] = Resolve[i - DnsEnd]
  /\ \A i \in ResolveEnd + 1 .. AllowEnd : Plan[i] = Allow[i - ResolveEnd]
  /\ \A i \in AllowEnd + 1 .. AllowEnd + 2 : Plan[i] = Deny[i - AllowEnd]
<1> DEFINE two == Setup \o Dns
           three == two \o Resolve
           four == three \o Allow
<1>1. /\ DnsEnd \in Nat /\ ResolveEnd \in Nat /\ AllowEnd \in Nat
      /\ 8 < DnsEnd /\ DnsEnd <= ResolveEnd /\ ResolveEnd < AllowEnd
  BY Ends
<1>2. /\ Setup \in Seq(Commands) /\ Dns \in Seq(Commands) /\ Resolve \in Seq(Commands)
      /\ Allow \in Seq(Commands) /\ Deny \in Seq(Commands)
  BY Parts
<1>3. /\ Len(Setup) = 8 /\ Len(Dns) = Len(Resolvers) /\ Len(Resolve) = Len(Domains)
      /\ Len(Allow) = 1 + Len(Subnets) /\ Len(Deny) = 2
  BY Parts
<1> DEFINE five == four \o Deny
<1>4. two \in Seq(Commands)
  BY <1>2, ConcatProperties
<1>5. three \in Seq(Commands)
  BY <1>2, <1>4, ConcatProperties
<1>6. four \in Seq(Commands) /\ five \in Seq(Commands) /\ five = Plan
  BY <1>2, <1>5, ConcatProperties DEF Plan
<1>7. /\ Len(two) = Len(Setup) + Len(Dns)
      /\ \A i \in 1 .. Len(Setup) + Len(Dns) :
            two[i] = IF i <= Len(Setup) THEN Setup[i] ELSE Dns[i - Len(Setup)]
  BY <1>2, ConcatProperties
<1>8. /\ Len(three) = Len(two) + Len(Resolve)
      /\ \A i \in 1 .. Len(two) + Len(Resolve) :
            three[i] = IF i <= Len(two) THEN two[i] ELSE Resolve[i - Len(two)]
  BY <1>2, <1>4, ConcatProperties
<1>9. /\ Len(four) = Len(three) + Len(Allow)
      /\ \A i \in 1 .. Len(three) + Len(Allow) :
            four[i] = IF i <= Len(three) THEN three[i] ELSE Allow[i - Len(three)]
  BY <1>2, <1>5, ConcatProperties
<1>10. /\ Len(five) = Len(four) + Len(Deny)
      /\ \A i \in 1 .. Len(four) + Len(Deny) :
            five[i] = IF i <= Len(four) THEN four[i] ELSE Deny[i - Len(four)]
  BY <1>2, <1>6, ConcatProperties
<1> HIDE DEF two, three, four, five
<1>11. Len(two) = DnsEnd /\ Len(three) = ResolveEnd /\ Len(four) = AllowEnd /\ Len(Plan) = AllowEnd + 2
  BY <1>3, <1>7, <1>8, <1>9, <1>10, <1>6, Inputs DEF DnsEnd, ResolveEnd, AllowEnd
<1>12. QED
  <2>1. \A i \in 1 .. AllowEnd : four[i] = IF i <= ResolveEnd THEN three[i] ELSE Allow[i - ResolveEnd]
    BY <1>9, <1>11
  <2>2. \A i \in 1 .. ResolveEnd : three[i] = IF i <= DnsEnd THEN two[i] ELSE Resolve[i - DnsEnd]
    BY <1>8, <1>11
  <2>3. \A i \in 1 .. DnsEnd : two[i] = IF i <= 8 THEN Setup[i] ELSE Dns[i - 8]
    BY <1>3, <1>2, <1>7, <1>11
  <2>4. \A i \in 1 .. AllowEnd + 2 : Plan[i] = IF i <= AllowEnd THEN four[i] ELSE Deny[i - AllowEnd]
    BY <1>3, <1>10, <1>11, <1>6
  <2>5. QED
    BY <1>1, <2>1, <2>2, <2>3, <2>4

\* What the proofs below use of the script.
LEMMA PlanCommands ==
  /\ Len(Plan) \in Nat /\ 9 < Len(Plan) /\ DOMAIN Plan = 1 .. Len(Plan)
  /\ \A i \in 1 .. Len(Plan) :
       /\ Plan[i] \in Commands
       /\ Plan[i].do = "flush" => i <= 2
       /\ Plan[i].do = "append" /\ Plan[i].match[1] = "dst"
            => Plan[i].match[2] \in ToSet(Subnets)
       /\ (Plan[i].do = "destroy") = (i = 3)
       /\ (Plan[i].do = "create") = (i = 4)
       /\ Plan[i].do = "resolve" => 9 < i
<1>1. /\ DnsEnd \in Nat /\ ResolveEnd \in Nat /\ AllowEnd \in Nat
      /\ 8 < DnsEnd /\ DnsEnd <= ResolveEnd /\ ResolveEnd < AllowEnd
  BY Ends
<1>2. /\ \A i \in 1 .. 8 : Plan[i] = Setup[i]
      /\ \A i \in 9 .. DnsEnd : Plan[i] = Dns[i - 8]
      /\ \A i \in DnsEnd + 1 .. ResolveEnd : Plan[i] = Resolve[i - DnsEnd]
      /\ \A i \in ResolveEnd + 1 .. AllowEnd : Plan[i] = Allow[i - ResolveEnd]
      /\ \A i \in AllowEnd + 1 .. AllowEnd + 2 : Plan[i] = Deny[i - AllowEnd]
  BY PlanIs
<1>3. /\ \A i \in 9 .. DnsEnd : i - 8 \in 1 .. Len(Resolvers)
      /\ \A i \in DnsEnd + 1 .. ResolveEnd : i - DnsEnd \in 1 .. Len(Domains)
      /\ \A i \in ResolveEnd + 1 .. AllowEnd : i = ResolveEnd + 1 \/ i - ResolveEnd - 1 \in 1 .. Len(Subnets)
      /\ \A i \in AllowEnd + 1 .. AllowEnd + 2 : i - AllowEnd \in 1 .. 2
  BY Inputs DEF DnsEnd, ResolveEnd, AllowEnd
<1>4. DOMAIN Plan = 1 .. Len(Plan) /\ \A i \in 1 .. Len(Plan) : Plan[i] \in Commands
  BY PlanLength
<1>5. ASSUME NEW i \in 1 .. Len(Plan)
      PROVE  /\ Plan[i].do = "flush" => i <= 2
             /\ Plan[i].do = "append" /\ Plan[i].match[1] = "dst"
                  => Plan[i].match[2] \in ToSet(Subnets)
             /\ (Plan[i].do = "destroy") = (i = 3)
             /\ (Plan[i].do = "create") = (i = 4)
             /\ Plan[i].do = "resolve" => 9 < i
  <2>1. CASE i \in 1 .. 8
    <3>1. Plan[i] = Setup[i] /\ i \in {1, 2, 3, 4, 5, 6, 7, 8}
      BY <1>2, <2>1
    <3>2. QED
      BY <3>1 DEF Setup, Flush, Accept
  <2>2. CASE i \in 9 .. DnsEnd
    <3>1. Plan[i] = Accept("OUTPUT", <<"dns", Resolvers[i - 8]>>)
      BY <1>2, <1>3, <2>2 DEF Dns
    <3>2. QED
      BY <2>2, <3>1 DEF Accept
  <2>3. CASE i \in DnsEnd + 1 .. ResolveEnd
    <3>1. Plan[i] = [do |-> "resolve", domain |-> Domains[i - DnsEnd]]
      BY <1>2, <1>3, <2>3 DEF Resolve
    <3>2. QED
      BY <1>1, <2>3, <3>1
  <2>4. CASE i \in ResolveEnd + 1 .. AllowEnd
    <3>1. CASE i = ResolveEnd + 1
      <4>1. Plan[i] = Accept("OUTPUT", <<"allowed">>)
        BY <1>1, <1>2, <2>4, <3>1, Parts
      <4>2. QED
        BY <1>1, <3>1, <4>1 DEF Accept
    <3>2. CASE i - ResolveEnd - 1 \in 1 .. Len(Subnets)
      <4>1. Plan[i] = Accept("OUTPUT", <<"dst", Subnets[i - ResolveEnd - 1]>>)
        <5>1. Plan[i] = Allow[1 + (i - ResolveEnd - 1)]
          BY <1>1, <1>2, <2>4
        <5>2. QED
          BY <3>2, <5>1, Parts
      <4>2. Subnets[i - ResolveEnd - 1] \in ToSet(Subnets)
        BY <3>2, FirewallAssumption DEF ToSet
      <4>3. QED
        BY <1>1, <2>4, <4>1, <4>2 DEF Accept
    <3>3. QED
      BY <1>3, <2>4, <3>1, <3>2
  <2>5. CASE i \in AllowEnd + 1 .. AllowEnd + 2
    <3>1. Plan[i] = Deny[i - AllowEnd]
      BY <1>2, <2>5
    <3>2. i - AllowEnd \in {1, 2}
      BY <1>1, <2>5
    <3>3. QED
      BY <1>1, <2>5, <3>1, <3>2 DEF Deny, Default
  <2>6. QED
    BY <1>1, PlanLength, <2>1, <2>2, <2>3, <2>4, <2>5
<1>6. QED
  BY <1>1, PlanLength, <1>4, <1>5

LEMMA PlanSize == Len(Plan) \in Nat /\ 9 < Len(Plan)
BY PlanCommands

\* Which commands the script holds, behind the two that flush the chains.
LEMMA PlanHolds ==
  /\ Plan[7] = Accept("OUTPUT", <<"established">>)
  /\ Plan[8] = Accept("INPUT", <<"established">>)
  /\ Plan[9] = Accept("OUTPUT", <<"dns", Resolvers[1]>>)
  /\ \E i \in 3 .. Len(Plan) : Plan[i] = Accept("OUTPUT", <<"allowed">>)
  /\ \E i \in 3 .. Len(Plan) : Plan[i] = Default("OUTPUT", "DROP")
  /\ \A a \in ToSet(Subnets) : \E i \in 3 .. Len(Plan) : Plan[i] = Accept("OUTPUT", <<"dst", a>>)
<1>1. /\ DnsEnd \in Nat /\ ResolveEnd \in Nat /\ AllowEnd \in Nat
      /\ 8 < DnsEnd /\ DnsEnd <= ResolveEnd /\ ResolveEnd < AllowEnd
  BY Ends
<1>2. /\ \A i \in 1 .. 8 : Plan[i] = Setup[i]
      /\ \A i \in 9 .. DnsEnd : Plan[i] = Dns[i - 8]
      /\ \A i \in ResolveEnd + 1 .. AllowEnd : Plan[i] = Allow[i - ResolveEnd]
      /\ \A i \in AllowEnd + 1 .. AllowEnd + 2 : Plan[i] = Deny[i - AllowEnd]
  BY PlanIs
<1>4. /\ Plan[7] = Accept("OUTPUT", <<"established">>)
      /\ Plan[8] = Accept("INPUT", <<"established">>)
  BY <1>2 DEF Setup
<1>5. Plan[9] = Accept("OUTPUT", <<"dns", Resolvers[1]>>)
  <2>1. 9 \in 9 .. DnsEnd /\ 9 - 8 = 1 /\ 1 \in 1 .. Len(Resolvers)
    BY Inputs DEF DnsEnd, ResolveEnd, AllowEnd
  <2>2. Plan[9] = Dns[9 - 8]
    BY <1>2, <2>1
  <2>3. Dns[1] = Accept("OUTPUT", <<"dns", Resolvers[1]>>)
    BY <2>1 DEF Dns
  <2>4. QED
    BY <2>1, <2>2, <2>3
<1>6. ResolveEnd + 1 \in 3 .. Len(Plan) /\ Plan[ResolveEnd + 1] = Accept("OUTPUT", <<"allowed">>)
  <2>1. PICK i \in ResolveEnd + 1 .. AllowEnd : i = ResolveEnd + 1
    BY <1>1
  <2>2. Plan[i] = Allow[i - ResolveEnd]
    BY <1>2
  <2>3. i - ResolveEnd = 1 /\ ResolveEnd + 1 \in 3 .. Len(Plan)
    BY <1>1, <2>1, PlanLength
  <2>4. QED
    BY <2>1, <2>2, <2>3, Parts
<1>7. AllowEnd + 1 \in 3 .. Len(Plan) /\ Plan[AllowEnd + 1] = Default("OUTPUT", "DROP")
  BY <1>1, <1>2, PlanLength DEF Deny
<1>8. ASSUME NEW a \in ToSet(Subnets)
      PROVE  \E i \in 3 .. Len(Plan) : Plan[i] = Accept("OUTPUT", <<"dst", a>>)
  <2>1. PICK j \in 1 .. Len(Subnets) : a = Subnets[j]
    BY FirewallAssumption DEF ToSet
  <2>2. ResolveEnd + (1 + j) \in ResolveEnd + 1 .. AllowEnd /\ ResolveEnd + (1 + j) \in 3 .. Len(Plan)
    BY PlanLength, Inputs, Ends DEF AllowEnd
  <2>3. Plan[ResolveEnd + (1 + j)] = Allow[1 + j]
    BY <1>1, <1>2, <2>2
  <2>4. QED
    BY <2>1, <2>2, <2>3, Parts
<1>9. QED
  BY <1>4, <1>5, <1>6, <1>7, <1>8

-----------------------------------------------------------------------------
(* The invariant.                                                          *)

TypeOK ==
  /\ rules \in [Chains -> SUBSET Matches]
  /\ policy \in [Chains -> {"ACCEPT", "DROP"}]
  /\ pc \in 0 .. Len(Plan) + 1
  /\ exit \in {"none", "ok", "failed"}
  /\ closed \in BOOLEAN

\* The default stays DROP once it is, and nothing is in the set or among the
\* rules that no domain resolved to and no subnet names.
OpenInv ==
  /\ closed => policy["OUTPUT"] = "DROP"
  /\ \A s \in ipset : s \subseteq known
  /\ \A m \in rules["OUTPUT"] : m[1] = "dst" => m[2] \in ToSet(Subnets)

\* What the script has done so far is in force: the flushes come first and undo
\* nothing of it.
ScriptInv ==
  pc > 0 =>
    /\ \A i \in 3 .. pc - 1 :
         /\ Plan[i].do = "append" => Plan[i].match \in rules[Plan[i].chain]
         /\ Plan[i].do = "policy" => policy[Plan[i].chain] = "DROP"
    /\ IF pc > 4 THEN ipset = {answers} ELSE answers = {}
    /\ exit # "ok"

\* What it ended with stays as it is until it is run again.
FinalInv ==
  exit = "ok" =>
    /\ ipset = {answers} /\ policy["OUTPUT"] = "DROP"
    /\ {<<"established">>, <<"allowed">>} \subseteq rules["OUTPUT"]
    /\ <<"established">> \in rules["INPUT"]
    /\ \A a \in ToSet(Subnets) : <<"dst", a>> \in rules["OUTPUT"]

IInv == TypeOK /\ OpenInv /\ ScriptInv /\ FinalInv

LEMMA IInvInit == Init => IInv
<1> SUFFICES ASSUME Init PROVE IInv
  OBVIOUS
<1>1. Chains = {"OUTPUT", "INPUT"}
  BY DEF Chains
<1>2. TypeOK
  <2>1. rules \in [Chains -> SUBSET Matches] /\ policy \in [Chains -> {"ACCEPT", "DROP"}]
    BY DEF Init, NoRules, AcceptAll
  <2>2. pc \in 0 .. Len(Plan) + 1
    BY PlanSize DEF Init
  <2>3. QED
    BY <2>1, <2>2 DEF Init, TypeOK
<1>3. QED
  BY <1>1, <1>2 DEF Init, IInv, OpenInv, ScriptInv, FinalInv, NoRules

-----------------------------------------------------------------------------
(* The script's commands.                                                  *)

LEMMA SucceedsIs ==
  ASSUME NEW c \in Commands, Succeeds(c)
  PROVE  \/ /\ c.do = "flush" /\ c.chain \in Chains
            /\ rules' = [rules EXCEPT ![c.chain] = {}]
            /\ UNCHANGED <<policy, ipset, history>>
         \/ /\ c.do = "append" /\ c.chain \in Chains /\ c.match \in Matches
            /\ rules' = [rules EXCEPT ![c.chain] = @ \cup {c.match}]
            /\ UNCHANGED <<policy, ipset, history>>
         \/ /\ c.do = "policy" /\ c.chain \in Chains
            /\ policy' = [policy EXCEPT ![c.chain] = "DROP"]
            /\ closed' = (closed \/ c.chain = "OUTPUT")
            /\ UNCHANGED <<rules, ipset, known, answers>>
         \/ /\ c.do = "destroy" /\ ipset' \in {{}, ipset}
            /\ UNCHANGED <<rules, policy, history>>
         \/ /\ c.do = "create" /\ ipset' = {{}} /\ UNCHANGED <<rules, policy, history>>
         \/ c.do = "resolve" /\ UNCHANGED <<kernel, history>>
         \/ /\ c.do = "resolve"
            /\ \E a : /\ answers' = answers \cup {a} /\ known' = known \cup {a}
                      /\ ipset' = IF CanResolve THEN {s \cup {a} : s \in ipset} ELSE ipset
            /\ UNCHANGED <<rules, policy, closed>>
<1>1. CASE c \in [do : {"flush"}, chain : Chains]
  <2>1. c.do = "flush" /\ c.chain \in Chains
    BY <1>1
  <2>2. QED
    BY <2>1 DEF Succeeds
<1>2. CASE c \in [do : {"destroy", "create"}]
  <2>1. c.do \in {"destroy", "create"}
    BY <1>2
  <2>2. QED
    BY <2>1 DEF Succeeds
<1>3. CASE c \in [do : {"append"}, chain : Chains, match : Matches]
  <2>1. c.do = "append" /\ c.chain \in Chains /\ c.match \in Matches
    BY <1>3
  <2>2. QED
    BY <2>1 DEF Succeeds
<1>4. CASE c \in [do : {"resolve"}, domain : Hosts]
  <2>1. c.do = "resolve"
    BY <1>4
  <2>2. QED
    BY <2>1 DEF Succeeds
<1>5. CASE c \in [do : {"policy"}, chain : Chains, policy : {"DROP"}]
  <2>1. c.do = "policy" /\ c.chain \in Chains /\ c.policy = "DROP"
    BY <1>5
  <2>2. QED
    BY <2>1 DEF Succeeds
<1>6. QED
  BY <1>1, <1>2, <1>3, <1>4, <1>5 DEF Commands

\* Names are resolved when the script has let its queries and their answers
\* through.
LEMMA ScriptResolves ==
  ASSUME TypeOK, ScriptInv, pc > 9
  PROVE  CanResolve
<1>1. 8 \in 3 .. pc - 1 /\ 9 \in 3 .. pc - 1
  BY DEF TypeOK
<1>2. Plan[8].match \in rules[Plan[8].chain] /\ Plan[9].match \in rules[Plan[9].chain]
  <2>1. Plan[8].do = "append" /\ Plan[9].do = "append"
    BY PlanHolds DEF Accept
  <2>2. QED
    <3>1. pc > 0
      BY PlanSize DEF TypeOK
    <3>2. QED
      BY <1>1, <2>1, <3>1 DEF ScriptInv
<1>3. <<"established">> \in rules["INPUT"] /\ <<"dns", Resolvers[1]>> \in rules["OUTPUT"]
  BY <1>2, PlanHolds DEF Accept
<1>4. Resolvers[1] \in ToSet(Resolvers)
  BY Inputs, FirewallAssumption DEF ToSet
<1>5. QED
  BY <1>3, <1>4 DEF CanResolve, RepliesAccepted

LEMMA StepStep == ASSUME IInv, Step PROVE IInv'
<1> DEFINE c == Plan[pc]
<1>1. /\ pc \in 1 .. Len(Plan) /\ pc' = pc + 1 /\ Succeeds(c) /\ UNCHANGED exit
      /\ Len(Plan) \in Nat
  BY PlanCommands DEF Step
<1>2. /\ c \in Commands
      /\ c.do = "flush" => pc <= 2
      /\ c.do = "append" /\ c.match[1] = "dst" => c.match[2] \in ToSet(Subnets)
      /\ (c.do = "destroy") = (pc = 3) /\ (c.do = "create") = (pc = 4)
      /\ c.do = "resolve" => 9 < pc
  BY <1>1, PlanCommands
<1>3. exit # "ok" /\ pc > 0 /\ TypeOK /\ OpenInv /\ ScriptInv
  BY <1>1 DEF IInv, ScriptInv
<1>4. pc' \in 0 .. Len(Plan) + 1 /\ FinalInv'
  BY <1>1, <1>3 DEF FinalInv
<1>5. \A i \in 3 .. pc' - 1 : i = pc \/ i \in 3 .. pc - 1
  BY <1>1
<1>6. "OUTPUT" \in Chains
  BY DEF Chains
<1> HIDE DEF c
<1>7. CASE /\ c.do = "flush" /\ c.chain \in Chains
           /\ rules' = [rules EXCEPT ![c.chain] = {}] /\ UNCHANGED <<policy, ipset, history>>
  <2>1. TypeOK' /\ OpenInv'
    BY <1>1, <1>3, <1>4, <1>6, <1>7 DEF TypeOK, OpenInv, history
  <2>2. ScriptInv'
    BY <1>1, <1>2, <1>3, <1>7 DEF ScriptInv, history
  <2>3. QED
    BY <1>4, <2>1, <2>2 DEF IInv
<1>8. CASE /\ c.do = "append" /\ c.chain \in Chains /\ c.match \in Matches
           /\ rules' = [rules EXCEPT ![c.chain] = @ \cup {c.match}]
           /\ UNCHANGED <<policy, ipset, history>>
  <2>1. TypeOK' /\ OpenInv'
    BY <1>1, <1>2, <1>3, <1>4, <1>6, <1>8 DEF TypeOK, OpenInv, history
  <2>2. /\ \A i \in 3 .. pc - 1 :
             /\ Plan[i].do = "append" => Plan[i].match \in rules'[Plan[i].chain]
             /\ Plan[i].do = "policy" => policy'[Plan[i].chain] = "DROP"
        /\ c.match \in rules'[c.chain]
    BY <1>3, <1>8 DEF ScriptInv, TypeOK
  <2>3. pc # 4 /\ pc # 3
    BY <1>2, <1>8
  <2>4. ScriptInv'
    BY <1>1, <1>3, <1>5, <1>8, <2>2, <2>3 DEF ScriptInv, history, c
  <2>5. QED
    BY <1>4, <2>1, <2>4 DEF IInv
<1>9. CASE /\ c.do = "policy" /\ c.chain \in Chains
           /\ policy' = [policy EXCEPT ![c.chain] = "DROP"]
           /\ closed' = (closed \/ c.chain = "OUTPUT")
           /\ UNCHANGED <<rules, ipset, known, answers>>
  <2>1. TypeOK' /\ OpenInv'
    BY <1>1, <1>3, <1>4, <1>6, <1>9 DEF TypeOK, OpenInv
  <2>2. /\ \A i \in 3 .. pc - 1 :
             /\ Plan[i].do = "append" => Plan[i].match \in rules'[Plan[i].chain]
             /\ Plan[i].do = "policy" => policy'[Plan[i].chain] = "DROP"
        /\ policy'[c.chain] = "DROP"
    BY <1>3, <1>9 DEF ScriptInv, TypeOK
  <2>3. pc # 4 /\ pc # 3
    BY <1>2, <1>9
  <2>4. ScriptInv'
    BY <1>1, <1>3, <1>5, <1>9, <2>2, <2>3 DEF ScriptInv, c
  <2>5. QED
    BY <1>4, <2>1, <2>4 DEF IInv
<1>10. CASE /\ c.do = "destroy" /\ ipset' \in {{}, ipset}
            /\ UNCHANGED <<rules, policy, history>>
  <2>1. TypeOK' /\ OpenInv'
    BY <1>3, <1>4, <1>1, <1>10 DEF TypeOK, OpenInv, history
  <2>2. pc = 3
    BY <1>2, <1>10
  <2>3. ScriptInv'
    BY <1>1, <1>3, <1>5, <1>10, <2>2 DEF ScriptInv, history, c
  <2>4. QED
    BY <1>4, <2>1, <2>3 DEF IInv
<1>11. CASE /\ c.do = "create" /\ ipset' = {{}} /\ UNCHANGED <<rules, policy, history>>
  <2>1. TypeOK' /\ OpenInv'
    BY <1>3, <1>4, <1>1, <1>11 DEF TypeOK, OpenInv, history
  <2>2. pc = 4
    BY <1>2, <1>11
  <2>3. ScriptInv'
    <3>1. \A i \in 3 .. pc' - 1 :
            /\ Plan[i].do = "append" => Plan[i].match \in rules'[Plan[i].chain]
            /\ Plan[i].do = "policy" => policy'[Plan[i].chain] = "DROP"
      BY <1>3, <1>5, <1>11 DEF ScriptInv, c
    <3>2. pc' = 5 /\ answers' = answers /\ answers = {} /\ exit' # "ok"
      BY <1>1, <1>3, <1>11, <2>2 DEF ScriptInv, history
    <3>3. QED
      BY <1>11, <3>1, <3>2 DEF ScriptInv
  <2>4. QED
    BY <1>4, <2>1, <2>3 DEF IInv
<1>12. CASE c.do = "resolve" /\ UNCHANGED <<kernel, history>>
  <2>1. TypeOK' /\ OpenInv'
    BY <1>3, <1>4, <1>1, <1>12 DEF TypeOK, OpenInv, history, kernel
  <2>2. 9 < pc
    BY <1>2, <1>12
  <2>3. ScriptInv'
    BY <1>1, <1>3, <1>5, <1>12, <2>2 DEF ScriptInv, history, kernel, c
  <2>4. QED
    BY <1>4, <2>1, <2>3 DEF IInv
<1>13. ASSUME c.do = "resolve", UNCHANGED <<rules, policy, closed>>, NEW a,
              answers' = answers \cup {a}, known' = known \cup {a},
              ipset' = IF CanResolve THEN {s \cup {a} : s \in ipset} ELSE ipset
       PROVE  IInv'
  <2>1. 9 < pc
    BY <1>2, <1>13
  <2>2. ipset = {answers} /\ CanResolve
    BY <1>1, <1>3, <2>1, ScriptResolves DEF ScriptInv
  <2>3. ipset' = {answers'}
    BY <1>13, <2>2
  <2>4. answers \subseteq known
    BY <1>3, <2>2 DEF OpenInv
  <2>5. TypeOK' /\ OpenInv'
    BY <1>3, <1>4, <1>1, <1>13, <2>3, <2>4 DEF TypeOK, OpenInv
  <2>6. ScriptInv'
    <3>1. \A i \in 3 .. pc' - 1 :
            /\ Plan[i].do = "append" => Plan[i].match \in rules'[Plan[i].chain]
            /\ Plan[i].do = "policy" => policy'[Plan[i].chain] = "DROP"
      BY <1>3, <1>5, <1>13 DEF ScriptInv, c
    <3>2. pc' > 4 /\ exit' # "ok"
      BY <1>1, <1>3, <2>1
    <3>3. QED
      BY <2>3, <3>1, <3>2 DEF ScriptInv
  <2>7. QED
    BY <1>4, <2>5, <2>6 DEF IInv
<1>14. QED
  BY <1>1, <1>2, <1>7, <1>8, <1>9, <1>10, <1>11, <1>12, <1>13, SucceedsIs

LEMMA VerifyStep == ASSUME IInv, Verify PROVE IInv'
<1>1. /\ pc = Len(Plan) + 1 /\ pc' = 0 /\ exit' \in {"ok", "failed"}
      /\ UNCHANGED <<kernel, history>>
  BY DEF Verify
<1>2. \A i \in 3 .. Len(Plan) :
        /\ Plan[i].do = "append" => Plan[i].match \in rules[Plan[i].chain]
        /\ Plan[i].do = "policy" => policy[Plan[i].chain] = "DROP"
  BY <1>1, PlanCommands DEF IInv, ScriptInv
<1>3. ipset = {answers}
  BY <1>1, PlanCommands DEF IInv, ScriptInv
<1>4. TypeOK' /\ OpenInv' /\ ScriptInv'
  BY <1>1, PlanCommands DEF IInv, TypeOK, OpenInv, ScriptInv, kernel, history
<1>5. /\ \A ch, m : (\E i \in 3 .. Len(Plan) : Plan[i] = Accept(ch, m)) => m \in rules[ch]
      /\ \A ch : (\E i \in 3 .. Len(Plan) : Plan[i] = Default(ch, "DROP"))
                   => policy[ch] = "DROP"
  BY <1>2 DEF Accept, Default
<1>6. 7 \in 3 .. Len(Plan) /\ 8 \in 3 .. Len(Plan)
  BY PlanCommands
<1>7. FinalInv'
  <2>1. <<"established">> \in rules["OUTPUT"] /\ <<"established">> \in rules["INPUT"]
    BY <1>5, <1>6, PlanHolds
  <2>2. <<"allowed">> \in rules["OUTPUT"] /\ policy["OUTPUT"] = "DROP"
    BY <1>5, PlanHolds
  <2>3. \A a \in ToSet(Subnets) : <<"dst", a>> \in rules["OUTPUT"]
    BY <1>5, PlanHolds
  <2>4. QED
    BY <1>1, <1>3, <2>1, <2>2, <2>3 DEF FinalInv, kernel, history
<1>8. QED
  BY <1>4, <1>7 DEF IInv

\* The agent, the hosts, a failing command and the script's start.
LEMMA OtherSteps ==
  ASSUME IInv, Start \/ Fails \/ Open \/ Move \/ Restart \/ UNCHANGED vars
  PROVE  IInv'
<1> USE DEF IInv
<1>1. CASE Start
  <2>1. /\ pc = 0 /\ pc' \in {0, 1} /\ exit' \in {"failed", "none"} /\ answers' = {}
        /\ UNCHANGED <<kernel, closed, known>>
    BY <1>1 DEF Start
  <2>2. TypeOK' /\ OpenInv'
    <3>1. pc' \in 0 .. Len(Plan) + 1
      BY <2>1, PlanSize
    <3>2. QED
      BY <2>1, <3>1 DEF TypeOK, OpenInv, kernel
  <2>3. ScriptInv' /\ FinalInv'
    <3>1. exit' # "ok"
      BY <2>1
    <3>2. CASE pc' = 0
      BY <3>1, <3>2 DEF ScriptInv, FinalInv
    <3>3. CASE pc' = 1
      <4>1. \A i : i \notin 3 .. pc' - 1
        BY <3>3
      <4>2. QED
        BY <2>1, <3>1, <3>3, <4>1 DEF ScriptInv, FinalInv
    <3>4. QED
      BY <2>1, <3>2, <3>3
  <2>4. QED
    BY <2>2, <2>3
<1>2. CASE Fails
  BY <1>2, PlanSize
  DEF Fails, TypeOK, OpenInv, ScriptInv, FinalInv, kernel, history
<1>3. CASE UNCHANGED <<kernel, pc, exit, history>>
  BY <1>3 DEF TypeOK, OpenInv, ScriptInv, FinalInv, kernel, history
<1>4. CASE Restart
  <2>1. TypeOK'
    <3>1. /\ rules' \in [Chains -> SUBSET Matches]
          /\ policy' \in [Chains -> {"ACCEPT", "DROP"}]
      BY <1>4 DEF Restart, NoRules, AcceptAll
    <3>2. pc' \in 0 .. Len(Plan) + 1
      BY <1>4, PlanSize DEF Restart
    <3>3. QED
      BY <1>4, <3>1, <3>2 DEF Restart, TypeOK
  <2>2. OpenInv' /\ ScriptInv' /\ FinalInv'
    BY <1>4 DEF Restart, OpenInv, ScriptInv, FinalInv, NoRules, Chains
  <2>3. QED
    BY <2>1, <2>2
<1>5. Open \/ Move \/ UNCHANGED vars => UNCHANGED <<kernel, pc, exit, history>>
  BY DEF Open, Move, vars, kernel, history
<1>6. QED
  BY <1>1, <1>2, <1>3, <1>4, <1>5

LEMMA IInvNext == IInv /\ [Next]_vars => IInv'
BY StepStep, VerifyStep, OtherSteps DEF Next

THEOREM FirewallInvariant == Spec => []IInv
BY IInvInit, IInvNext, PTL DEF Spec

\* NeverOpensAgain: from the first DROP to the next container start no address
\* can be reached but subnets and what the domains resolved to, at any point of
\* any run of the script.
THEOREM NeverOpens == Spec => []NeverOpensAgain
<1>1. IInv => NeverOpensAgain
  <2> SUFFICES ASSUME IInv, closed, NEW a \in Addresses, CanOpen(a)
               PROVE  a \in known \cup ToSet(Subnets)
    BY DEF NeverOpensAgain
  <2>1. Listed(a)
    BY DEF IInv, OpenInv, CanOpen, OutAccepts
  <2>2. CASE InSet(a)
    BY <2>2 DEF IInv, OpenInv, InSet
  <2>3. CASE <<"dst", a>> \in rules["OUTPUT"]
    <3>1. <<"dst", a>>[1] = "dst" /\ <<"dst", a>>[2] = a
      OBVIOUS
    <3>2. QED
      BY <2>3, <3>1 DEF IInv, OpenInv
  <2>4. QED
    BY <2>1, <2>2, <2>3 DEF Listed
<1>2. QED
  BY <1>1, FirewallInvariant, PTL

\* AppliedAsListed: after a script that ended with success, exactly what DNS
\* answered it and the subnets can be reached, and no connection is cut.
THEOREM IsAppliedAsListed == Spec => []AppliedAsListed
<1>1. IInv => AppliedAsListed
  <2> SUFFICES ASSUME IInv, exit = "ok" PROVE AppliedAsListed
    BY DEF AppliedAsListed
  <2>1. RepliesAccepted /\ \A a : CanTalk(a)
    BY DEF IInv, FinalInv, RepliesAccepted, CanTalk
  <2>2. \A a : <<"dst", a>> \in rules["OUTPUT"] <=> a \in ToSet(Subnets)
    <3>1. \A a : <<"dst", a>>[1] = "dst" /\ <<"dst", a>>[2] = a
      OBVIOUS
    <3>2. QED
      BY <3>1 DEF IInv, OpenInv, FinalInv
  <2>3. \A a : InSet(a) <=> a \in answers
    BY DEF IInv, FinalInv, InSet
  <2>4. \A a : CanOpen(a) <=> a \in answers \cup ToSet(Subnets)
    BY <2>1, <2>2, <2>3 DEF IInv, FinalInv, CanOpen, OutAccepts, Listed
  <2>5. QED
    BY <2>1, <2>4 DEF AppliedAsListed
<1>2. QED
  BY <1>1, FirewallInvariant, PTL

-----------------------------------------------------------------------------
(* The proxy.                                                              *)

\* q is the chunks after the a-th, up to the b-th.
Stretch(q, a, b) ==
  /\ q \in Seq(Nat) /\ a \in Nat /\ b \in Nat /\ a + Len(q) = b
  /\ \A i \in 1 .. Len(q) : q[i] = a + i

LEMMA StretchEmpty ==
  /\ \A a \in Nat : Stretch(<<>>, a, a)
  /\ \A a, b : Stretch(<<>>, a, b) => a = b
BY DEF Stretch

LEMMA StretchAppend ==
  ASSUME NEW q, NEW a, NEW b, Stretch(q, a, b)
  PROVE  Stretch(Append(q, b + 1), a, b + 1)
<1>1. /\ q \in Seq(Nat) /\ a \in Nat /\ b \in Nat /\ b + 1 \in Nat /\ Len(q) \in Nat
      /\ a + Len(q) = b /\ \A i \in 1 .. Len(q) : q[i] = a + i
  BY DEF Stretch
<1>2. /\ Append(q, b + 1) \in Seq(Nat) /\ Len(Append(q, b + 1)) = Len(q) + 1
      /\ \A i \in 1 .. Len(q) : Append(q, b + 1)[i] = q[i]
      /\ Append(q, b + 1)[Len(q) + 1] = b + 1
  BY <1>1, AppendProperties
<1>3. QED
  BY <1>1, <1>2 DEF Stretch

LEMMA StretchHead ==
  ASSUME NEW q, NEW a, NEW b, Stretch(q, a, b), q # <<>>
  PROVE  /\ a + 1 \in Nat /\ a + 1 <= b /\ Head(q) = a + 1
         /\ Stretch(<<Head(q)>>, a, a + 1) /\ Stretch(Tail(q), a + 1, b)
<1>1. /\ q \in Seq(Nat) /\ a \in Nat /\ b \in Nat /\ Len(q) \in Nat
      /\ a + Len(q) = b /\ \A i \in 1 .. Len(q) : q[i] = a + i
  BY DEF Stretch
<1>2. Len(q) > 0 /\ Head(q) = q[1]
  BY <1>1, EmptySeq
<1>3. /\ Tail(q) \in Seq(Nat) /\ Len(Tail(q)) = Len(q) - 1
      /\ \A i \in 1 .. Len(q) - 1 : Tail(q)[i] = q[i + 1]
  BY <1>1, HeadTailProperties
<1>4. Head(q) = a + 1 /\ a + 1 <= b
  BY <1>1, <1>2
<1>5. Stretch(<<Head(q)>>, a, a + 1)
  BY <1>1, <1>4 DEF Stretch
<1>6. Stretch(Tail(q), a + 1, b)
  BY <1>1, <1>2, <1>3 DEF Stretch
<1>7. QED
  BY <1>1, <1>4, <1>5, <1>6

LEMMA StretchConcat ==
  ASSUME NEW p, NEW q, NEW a, NEW b, NEW c, Stretch(p, a, b), Stretch(q, b, c)
  PROVE  Stretch(p \o q, a, c)
<1>1. /\ p \in Seq(Nat) /\ q \in Seq(Nat) /\ a \in Nat /\ b \in Nat /\ c \in Nat
      /\ Len(p) \in Nat /\ Len(q) \in Nat /\ a + Len(p) = b /\ b + Len(q) = c
      /\ \A i \in 1 .. Len(p) : p[i] = a + i
      /\ \A i \in 1 .. Len(q) : q[i] = b + i
  BY DEF Stretch
<1>2. /\ p \o q \in Seq(Nat) /\ Len(p \o q) = Len(p) + Len(q)
      /\ \A i \in 1 .. Len(p) + Len(q) :
           (p \o q)[i] = IF i <= Len(p) THEN p[i] ELSE q[i - Len(p)]
  BY <1>1, ConcatProperties
<1>3. \A i \in 1 .. Len(p) + Len(q) : (p \o q)[i] = a + i
  <2> TAKE i \in 1 .. Len(p) + Len(q)
  <2>1. CASE i <= Len(p)
    BY <1>1, <1>2, <2>1
  <2>2. CASE ~(i <= Len(p))
    <3>1. i - Len(p) \in 1 .. Len(q)
      BY <1>1, <2>2
    <3>2. (p \o q)[i] = q[i - Len(p)]
      BY <1>2, <2>2
    <3>3. q[i - Len(p)] = b + (i - Len(p))
      BY <1>1, <3>1
    <3>4. b + (i - Len(p)) = a + i
      BY <1>1
    <3>5. QED
      BY <3>2, <3>3, <3>4
  <2>3. QED
    BY <2>1, <2>2
<1>4. a + Len(p \o q) = c /\ \A i \in 1 .. Len(p \o q) : (p \o q)[i] = a + i
  <2>1. a + (Len(p) + Len(q)) = c
    <3>1. ASSUME NEW m \in Nat, NEW n \in Nat, a + m = b, b + n = c
          PROVE  a + (m + n) = c
      BY <1>1, <3>1
    <3>2. QED
      BY <1>1, <3>1
  <2>2. a + Len(p \o q) = c
    BY <1>2, <2>1
  <2>3. 1 .. Len(p \o q) = 1 .. Len(p) + Len(q)
    BY <1>2
  <2>4. QED
    BY <1>3, <2>2, <2>3
<1>5. QED
  BY <1>1, <1>2, <1>4 DEF Stretch

LEMMA FirstChunksIs ==
  ASSUME NEW n \in Nat  PROVE Stretch(FirstChunks(n), 0, n)
<1>1. FirstChunks(n) = [i \in 1 .. n |-> i]
  BY DEF FirstChunks
<1>2. FirstChunks(n) \in [1 .. n -> Nat]
  BY <1>1
<1>3. FirstChunks(n) \in Seq(Nat) /\ Len(FirstChunks(n)) = n
  BY <1>2, FunctionIsSeq
<1>4. QED
  BY <1>1, <1>3 DEF Stretch

LEMMA StretchIsAll ==
  ASSUME NEW q, NEW n, Stretch(q, 0, n)  PROVE q = FirstChunks(n)
<1>1. n \in Nat
  BY DEF Stretch
<1>2. /\ q \in Seq(Nat) /\ FirstChunks(n) \in Seq(Nat)
      /\ Len(q) = Len(FirstChunks(n))
      /\ \A i \in 1 .. Len(q) : q[i] = FirstChunks(n)[i]
  BY <1>1, FirstChunksIs DEF Stretch
<1>3. QED
  BY <1>2, SeqEqual

LEMMA StretchIsPrefix ==
  ASSUME NEW q, NEW m, NEW n \in Nat, Stretch(q, 0, m), m <= n
  PROVE  IsPrefix(q, FirstChunks(n))
<1> DEFINE all == FirstChunks(n)
<1>1. /\ m \in Nat /\ q \in Seq(Nat) /\ Len(q) = m
      /\ \A i \in 1 .. m : q[i] = i
  BY DEF Stretch
<1>2. /\ all \in Seq(Nat) /\ Len(all) = n /\ \A i \in 1 .. n : all[i] = i
  BY FirstChunksIs DEF Stretch
<1> HIDE DEF all
<1>3. /\ SubSeq(q, 1, m) \in Seq(Nat) /\ Len(SubSeq(q, 1, m)) = m
      /\ \A i \in 1 .. m : SubSeq(q, 1, m)[i] = q[i]
  BY <1>1, SubSeqFull
<1>4. \A i \in 1 .. m : all[i] \in Nat
  BY <1>1, <1>2
<1>5. /\ SubSeq(all, 1, m) \in Seq(Nat) /\ Len(SubSeq(all, 1, m)) = m
      /\ \A i \in 1 .. m : SubSeq(all, 1, m)[i] = all[i]
  <2>1. /\ SubSeq(all, 1, m) \in Seq(Nat)
        /\ Len(SubSeq(all, 1, m)) = IF 1 <= m THEN m - 1 + 1 ELSE 0
        /\ \A i \in 1 .. m - 1 + 1 : SubSeq(all, 1, m)[i] = all[1 + i - 1]
    BY <1>1, <1>4, SubSeqProperties
  <2>2. m - 1 + 1 = m /\ \A i \in 1 .. m : 1 + i - 1 = i
    BY <1>1
  <2>3. QED
    BY <1>1, <2>1, <2>2
<1>6. SubSeq(q, 1, m) = SubSeq(all, 1, m)
  <2>1. \A i \in 1 .. m : SubSeq(q, 1, m)[i] = SubSeq(all, 1, m)[i]
    BY <1>1, <1>2, <1>3, <1>5
  <2>2. QED
    BY <1>3, <1>5, <2>1, SeqEqual
<1>7. QED
  BY <1>1, <1>2, <1>6 DEF IsPrefix, all

\* The sides of the tunnel.
LEMMA Others ==
  \A s \in Sockets :
    /\ Other(s) \in Sockets /\ Other(s) # s
    /\ \A t \in Sockets : t = s \/ t = Other(s)
    /\ \A t \in Sockets : Other(t) = Other(s) <=> t = s
    /\ Other(Other(s)) = s
BY DEF Sockets, Other

ProxyTypeOK ==
  /\ pump \in [Sockets -> {"waiting", "recv", "send", "done"}]
  /\ hand \in [Sockets -> Seq(Nat)]
  /\ inbox \in [Sockets -> Seq(Nat)]
  /\ outbox \in [Sockets -> Seq(Nat)]
  /\ got \in [Sockets -> Seq(Nat)]
  /\ sent \in [Sockets -> Nat]

\* A pump holds data only between recv and sendall, a reset leaves nothing to
\* read, and a pump that is done has shut both sockets.
HandInv ==
  \A s \in Sockets :
    /\ pump[s] # "send" => hand[s] = <<>>
    /\ s \in broken => inbox[s] = <<>>
    /\ pump[s] = "done" => shut = Sockets

\* Before the client is told 200 nothing passes, and the client sends nothing.
StatusInv ==
  /\ handler \in {"reading", "connecting", "answering"} => status = <<>>
  /\ handler = "pumping" => status = << 200 >>
  /\ handler # "pumping" =>
       /\ status # << 200 >> /\ Len(status) <= 1
       /\ \A s \in Sockets :
            pump[s] = "waiting" /\ got[s] = <<>> /\ outbox[s] = <<>>
       /\ inbox["client"] = <<>>

\* Of the chunks s has sent, the other side has read those up to g; then come
\* those in its buffer, up to o, the one in the pump's hand, up to h, and
\* those still to be read by the pump: as far as the peers and the pump that
\* hold them are there.
Flows(s, g, o, h) ==
  LET d == Other(s) IN
  /\ Stretch(got[d], 0, g) /\ g <= sent[s]
  /\ d \notin broken => Stretch(outbox[d], g, o) /\ o <= sent[s]
  /\ d \notin broken /\ pump[s] # "done" =>
       /\ Stretch(hand[s], o, h) /\ h <= sent[s]
       /\ s \notin broken => Stretch(inbox[s], h, sent[s])
Flow(s) == \E g, o, h \in Nat : Flows(s, g, o, h)
FlowInv == \A s \in Sockets : Flow(s)

ProxyInv == ProxyTypeOK /\ HandInv /\ StatusInv /\ FlowInv

LEMMA ProxyInvInit == ProxyInit => ProxyInv
<1> SUFFICES ASSUME ProxyInit  PROVE ProxyInv
  OBVIOUS
<1>1. "client" \in Sockets
  BY DEF Sockets
<1>2. ProxyTypeOK /\ HandInv /\ StatusInv
  BY <1>1 DEF ProxyInit, ProxyTypeOK, HandInv, StatusInv
<1>3. \A s \in Sockets : Flows(s, 0, 0, 0)
  BY Others, StretchEmpty DEF ProxyInit, Flows
<1>4. QED
  BY <1>2, <1>3 DEF ProxyInv, FlowInv, Flow

\* The handler moves no data, as nobody has sent any it could lose.
LEMMA HandlerStep ==
  ASSUME ProxyInv, ReadEnd \/ ReadHeader \/ Connect \/ Answer
  PROVE  ProxyInv'
<1>1. "client" \in Sockets
  BY DEF Sockets
<1>2. handler # "pumping"
  BY DEF ReadEnd, ReadHeader, Connect, Answer
<1>3. UNCHANGED <<hand, inbox, outbox, sent, got, broken>>
  <2>1. CASE ReadHeader
    <3>1. inbox["client"] = <<>> /\ inbox \in [Sockets -> Seq(Nat)]
      BY <1>2 DEF ProxyInv, StatusInv, ProxyTypeOK
    <3>2. PICK n \in 0 .. Len(inbox["client"]) :
             inbox' = [inbox EXCEPT !["client"] = SubSeq(@, n + 1, Len(@))]
      BY <2>1 DEF ReadHeader
    <3>3. n = 0 /\ SubSeq(<<>>, 1, 0) = <<>>
      BY <3>1
    <3>4. inbox' = inbox
      BY <1>1, <3>1, <3>2, <3>3
    <3>5. QED
      BY <2>1, <3>4 DEF ReadHeader, tunnel
  <2>2. QED
    BY <2>1 DEF ReadEnd, Connect, Answer, sockets, tunnel
<1>4. /\ pump' = pump \/ pump' = [s \in Sockets |-> "recv"]
      /\ \A s \in Sockets : pump'[s] \notin {"send", "done"}
  BY <1>2 DEF ReadEnd, ReadHeader, Connect, Answer, tunnel,
              ProxyInv, StatusInv
<1>5. ProxyTypeOK' /\ HandInv'
  <2>1. \A s \in Sockets : pump[s] = "waiting"
    BY <1>2 DEF ProxyInv, StatusInv
  <2>2. QED
    BY <1>3, <1>4, <2>1 DEF ProxyInv, ProxyTypeOK, HandInv
<1>6. StatusInv'
  <2>1. ASSUME \/ handler' \in {"connecting", "answering"} /\ status' = <<>>
               \/ handler' = "ended" /\ status' # << 200 >> /\ Len(status') <= 1,
               UNCHANGED pump
        PROVE  StatusInv'
    <3>1. handler' # "pumping" /\ <<>> # << 200 >> /\ Len(<<>>) <= 1
      BY <2>1
    <3>2. /\ inbox["client"] = <<>>
          /\ \A s \in Sockets :
               pump[s] = "waiting" /\ got[s] = <<>> /\ outbox[s] = <<>>
      BY <1>2 DEF ProxyInv, StatusInv
    <3>3. QED
      BY <1>3, <2>1, <3>1, <3>2 DEF StatusInv
  <2>2. \A code \in {431, 405, 502, 403} :
          Refuse(code) /\ status = <<>> =>
            handler' = "ended" /\ status' # << 200 >> /\ Len(status') <= 1
    BY DEF Refuse
  <2>3. CASE ReadEnd
    BY <1>2, <1>3, <2>3 DEF ReadEnd, tunnel, ProxyInv, StatusInv
  <2>4. CASE ReadHeader
    <3>1. status = <<>>
      BY <2>4 DEF ReadHeader, ProxyInv, StatusInv
    <3>2. \/ handler' = "connecting" /\ UNCHANGED status
          \/ Refuse(431) \/ Refuse(405) \/ Refuse(502) \/ Refuse(403)
      <4>1. request.kind = "oversized" => Refuse(431)
        BY <2>4 DEF ReadHeader
      <4>2. request.kind = "not_CONNECT" => Refuse(405)
        BY <2>4 DEF ReadHeader
      <4>3. request.kind = "bad_port" => Refuse(502)
        BY <2>4 DEF ReadHeader
      <4>4. request.kind \notin {"oversized", "not_CONNECT", "bad_port"} =>
              \/ handler' = "connecting" /\ UNCHANGED status
              \/ Refuse(403)
        BY <2>4 DEF ReadHeader
      <4>5. QED
        BY <4>1, <4>2, <4>3, <4>4
    <3>3. UNCHANGED pump
      BY <2>4 DEF ReadHeader, tunnel
    <3>4. \/ handler' \in {"connecting", "answering"} /\ status' = <<>>
          \/ handler' = "ended" /\ status' # << 200 >> /\ Len(status') <= 1
      BY <2>2, <3>1, <3>2
    <3>5. QED
      BY <1>2, <1>3, <2>1, <3>3, <3>4
  <2>5. CASE Connect
    <3>1. status = <<>>
      BY <2>5 DEF Connect, ProxyInv, StatusInv
    <3>2. \/ handler' = "answering" /\ UNCHANGED status
          \/ Refuse(502)
      BY <2>5 DEF Connect
    <3>3. UNCHANGED pump
      BY <2>5 DEF Connect, tunnel
    <3>4. \/ handler' \in {"connecting", "answering"} /\ status' = <<>>
          \/ handler' = "ended" /\ status' # << 200 >> /\ Len(status') <= 1
      BY <2>2, <3>1, <3>2
    <3>5. QED
      BY <1>2, <1>3, <2>1, <3>3, <3>4
  <2>6. CASE Answer
    <3>1. status = <<>> /\ Append(<<>>, 200) = << 200 >>
      BY <2>6 DEF Answer, ProxyInv, StatusInv
    <3>2. QED
      BY <1>2, <1>3, <2>6, <3>1 DEF Answer, ProxyInv, StatusInv
  <2>7. QED
    BY <2>3, <2>4, <2>5, <2>6
<1>7. FlowInv'
  <2> SUFFICES ASSUME NEW s \in Sockets  PROVE Flow(s)'
    BY DEF FlowInv
  <2>1. PICK g, o, h \in Nat : Flows(s, g, o, h)
    BY DEF ProxyInv, FlowInv, Flow
  <2>2. pump[s] = "waiting"
    BY <1>2 DEF ProxyInv, StatusInv
  <2>3. Flows(s, g, o, h)'
    BY <1>3, <2>1, <2>2 DEF Flows
  <2>4. QED
    BY <2>3 DEF Flow
<1>8. QED
  BY <1>5, <1>6, <1>7 DEF ProxyInv

\* A pump runs only when the client has been told 200.
LEMMA Pumping ==
  ASSUME ProxyInv, NEW s \in Sockets, pump[s] # "waiting"
  PROVE  handler = "pumping" /\ status = << 200 >>
BY DEF ProxyInv, StatusInv

LEMMA ReceiveStep ==
  ASSUME ProxyInv, NEW s \in Sockets, Receive(s)
  PROVE  ProxyInv'
<1> USE DEF Receive
<1>1. /\ inbox[s] \in Seq(Nat) /\ inbox[s] # <<>> /\ s \notin broken
      /\ pump[s] = "recv" /\ hand[s] = <<>>
  BY DEF ProxyInv, ProxyTypeOK, HandInv
<1>2. Head(inbox[s]) \in Nat /\ Tail(inbox[s]) \in Seq(Nat) /\ <<Head(inbox[s])>> \in Seq(Nat)
  BY <1>1, HeadTailProperties
<1>3. /\ hand'[s] = <<Head(inbox[s])>> /\ inbox'[s] = Tail(inbox[s]) /\ pump'[s] = "send"
      /\ \A t \in Sockets : t # s =>
           hand'[t] = hand[t] /\ inbox'[t] = inbox[t] /\ pump'[t] = pump[t]
  BY DEF ProxyInv, ProxyTypeOK
<1>4. ProxyTypeOK'
  BY <1>2 DEF ProxyInv, ProxyTypeOK
<1>5. HandInv' /\ StatusInv'
  BY <1>1, <1>3, Pumping DEF ProxyInv, HandInv, StatusInv
<1>6. FlowInv'
  <2> SUFFICES ASSUME NEW t \in Sockets  PROVE Flow(t)'
    BY DEF FlowInv
  <2>1. PICK g, o, h \in Nat : Flows(t, g, o, h)
    BY DEF ProxyInv, FlowInv, Flow
  <2>2. CASE t # s
    <3>1. Flows(t, g, o, h)'
      BY <1>3, <2>1, <2>2 DEF Flows
    <3>2. QED
      BY <3>1 DEF Flow
  <2>3. CASE t = s /\ Other(s) \in broken
    <3>1. Flows(t, g, o, h)'
      BY <2>1, <2>3 DEF Flows
    <3>2. QED
      BY <3>1 DEF Flow
  <2>4. CASE t = s /\ Other(s) \notin broken
    <3>1. Stretch(hand[s], o, h) /\ Stretch(inbox[s], h, sent[s])
      BY <1>1, <2>1, <2>4 DEF Flows
    <3>2. o = h /\ sent[s] \in Nat
      BY <1>1, <3>1, StretchEmpty DEF ProxyInv, ProxyTypeOK
    <3>3. /\ h + 1 \in Nat /\ h + 1 <= sent[s]
          /\ Stretch(<<Head(inbox[s])>>, h, h + 1) /\ Stretch(Tail(inbox[s]), h + 1, sent[s])
      BY <1>1, <3>1, StretchHead
    <3>4. Flows(t, g, o, h + 1)'
      BY <1>3, <2>1, <2>4, <3>2, <3>3 DEF Flows
    <3>5. QED
      BY <3>3, <3>4 DEF Flow
  <2>5. QED
    BY <2>2, <2>3, <2>4
<1>7. QED
  BY <1>4, <1>5, <1>6 DEF ProxyInv

LEMMA SendStep ==
  ASSUME ProxyInv, NEW s \in Sockets, Send(s)
  PROVE  ProxyInv'
<1> DEFINE d == Other(s)
<1> USE DEF Send
<1>1. /\ d \in Sockets /\ d \notin broken /\ pump[s] = "send"
      /\ outbox[d] \in Seq(Nat) /\ hand[s] \in Seq(Nat)
  BY Others DEF ProxyInv, ProxyTypeOK
<1>2. outbox[d] \o hand[s] \in Seq(Nat) /\ <<>> \in Seq(Nat)
  BY <1>1, ConcatProperties
<1>3. /\ hand'[s] = <<>> /\ outbox'[d] = outbox[d] \o hand[s] /\ pump'[s] = "recv"
      /\ \A t \in Sockets : t # s =>
           /\ hand'[t] = hand[t] /\ pump'[t] = pump[t]
           /\ outbox'[Other(t)] = outbox[Other(t)]
  BY <1>1, Others DEF ProxyInv, ProxyTypeOK
<1>4. ProxyTypeOK'
  BY <1>1, <1>2 DEF ProxyInv, ProxyTypeOK
<1>5. HandInv' /\ StatusInv'
  BY <1>1, <1>3, Pumping DEF ProxyInv, HandInv, StatusInv
<1>6. FlowInv'
  <2> SUFFICES ASSUME NEW t \in Sockets  PROVE Flow(t)'
    BY DEF FlowInv
  <2>1. PICK g, o, h \in Nat : Flows(t, g, o, h)
    BY DEF ProxyInv, FlowInv, Flow
  <2>2. CASE t # s
    <3>1. Flows(t, g, o, h)'
      BY <1>3, <2>1, <2>2 DEF Flows
    <3>2. QED
      BY <3>1 DEF Flow
  <2>3. CASE t = s
    <3>1. /\ Stretch(outbox[d], g, o) /\ Stretch(hand[s], o, h) /\ h <= sent[s]
          /\ s \notin broken => Stretch(inbox[s], h, sent[s])
          /\ Stretch(got[d], 0, g) /\ g <= sent[s]
      BY <1>1, <2>1, <2>3 DEF Flows
    <3>2. Stretch(outbox[d] \o hand[s], g, h) /\ Stretch(<<>>, h, h)
      BY <3>1, StretchConcat, StretchEmpty
    <3>3. Flows(s, g, h, h)'
      BY <1>3, <3>1, <3>2 DEF Flows
    <3>4. QED
      BY <2>3, <3>3 DEF Flow
  <2>4. QED
    BY <2>2, <2>3
<1>7. QED
  BY <1>4, <1>5, <1>6 DEF ProxyInv

LEMMA PumpEndsStep ==
  ASSUME ProxyInv, NEW s \in Sockets, pump[s] \in {"recv", "send"}, PumpEnds(s)
  PROVE  ProxyInv'
<1> USE DEF PumpEnds, sockets
<1>1. /\ hand'[s] = <<>> /\ pump'[s] = "done"
      /\ \A t \in Sockets : t # s => hand'[t] = hand[t] /\ pump'[t] = pump[t]
  BY DEF ProxyInv, ProxyTypeOK
<1>2. ProxyTypeOK'
  BY DEF ProxyInv, ProxyTypeOK
<1>3. HandInv' /\ StatusInv'
  BY <1>1, Pumping DEF ProxyInv, HandInv, StatusInv
<1>4. FlowInv'
  <2> SUFFICES ASSUME NEW t \in Sockets  PROVE Flow(t)'
    BY DEF FlowInv
  <2>1. PICK g, o, h \in Nat : Flows(t, g, o, h)
    BY DEF ProxyInv, FlowInv, Flow
  <2>2. Flows(t, g, o, h)'
    BY <1>1, <2>1 DEF Flows
  <2>3. QED
    BY <2>2 DEF Flow
<1>5. QED
  BY <1>2, <1>3, <1>4 DEF ProxyInv

LEMMA PumpStep ==
  ASSUME ProxyInv, NEW s \in Sockets, Pump(s) \/ TimesOut(s)
  PROVE  ProxyInv'
<1>1. CASE Receive(s)
  BY <1>1, ReceiveStep
<1>2. CASE Send(s)
  BY <1>2, SendStep
<1>3. CASE ReceiveEnd(s) \/ SendFails(s) \/ TimesOut(s)
  BY <1>3, PumpEndsStep DEF ReceiveEnd, SendFails, TimesOut
<1>4. QED
  BY <1>1, <1>2, <1>3 DEF Pump

LEMMA PeerSendsStep ==
  ASSUME ProxyInv, ~Eager, NEW s \in Sockets, PeerSends(s)
  PROVE  ProxyInv'
<1> USE DEF PeerSends, tunnel
<1>1. sent[s] \in Nat /\ inbox[s] \in Seq(Nat) /\ s \notin broken
  BY DEF ProxyInv, ProxyTypeOK, MaySend, Reachable
<1>2. /\ sent'[s] = sent[s] + 1 /\ inbox'[s] = Append(inbox[s], sent[s] + 1)
      /\ \A t \in Sockets : t # s => sent'[t] = sent[t] /\ inbox'[t] = inbox[t]
  BY DEF ProxyInv, ProxyTypeOK
<1>3. ProxyTypeOK'
  <2>1. Append(inbox[s], sent'[s]) \in Seq(Nat) /\ sent'[s] \in Nat
    BY <1>1, <1>2, AppendProperties
  <2>2. QED
    BY <1>1, <2>1 DEF ProxyInv, ProxyTypeOK
<1>4. HandInv'
  BY <1>1, <1>2 DEF ProxyInv, HandInv
<1>5. StatusInv'
  <2>1. s = "client" => status = << 200 >>
    BY DEF MaySend
  <2>2. "client" \in Sockets
    BY DEF Sockets
  <2>3. handler # "pumping" => inbox'["client"] = inbox["client"]
    BY <1>2, <2>1, <2>2 DEF ProxyInv, StatusInv
  <2>4. QED
    BY <2>3 DEF ProxyInv, StatusInv
<1>6. FlowInv'
  <2> SUFFICES ASSUME NEW t \in Sockets  PROVE Flow(t)'
    BY DEF FlowInv
  <2>1. PICK g, o, h \in Nat : Flows(t, g, o, h)
    BY DEF ProxyInv, FlowInv, Flow
  <2>2. CASE t # s
    <3>1. Flows(t, g, o, h)'
      BY <1>2, <2>1, <2>2 DEF Flows
    <3>2. QED
      BY <3>1 DEF Flow
  <2>3. CASE t = s
    <3>1. \A k \in Nat : k <= sent[s] => k <= sent[s] + 1
      BY <1>1
    <3>2. Stretch(inbox[s], h, sent[s]) =>
            Stretch(Append(inbox[s], sent[s] + 1), h, sent[s] + 1)
      BY StretchAppend
    <3>3. Flows(s, g, o, h)'
      BY <1>1, <1>2, <2>1, <2>3, <3>1, <3>2 DEF Flows
    <3>4. QED
      BY <2>3, <3>3 DEF Flow
  <2>4. QED
    BY <2>2, <2>3
<1>7. QED
  BY <1>3, <1>4, <1>5, <1>6 DEF ProxyInv

LEMMA PeerReadsStep ==
  ASSUME ProxyInv, NEW s \in Sockets, PeerReads(s)
  PROVE  ProxyInv'
<1> USE DEF PeerReads, tunnel
<1>1. /\ got[s] \in Seq(Nat) /\ outbox[s] \in Seq(Nat) /\ outbox[s] # <<>>
      /\ s \notin broken
  BY DEF ProxyInv, ProxyTypeOK, Reachable
<1>2. /\ got'[s] = Append(got[s], Head(outbox[s])) /\ outbox'[s] = Tail(outbox[s])
      /\ \A t \in Sockets : t # s => got'[t] = got[t] /\ outbox'[t] = outbox[t]
  BY DEF ProxyInv, ProxyTypeOK
<1>3. ProxyTypeOK'
  <2>1. /\ Append(got[s], Head(outbox[s])) \in Seq(Nat)
        /\ Tail(outbox[s]) \in Seq(Nat)
    BY <1>1, HeadTailProperties, AppendProperties
  <2>2. QED
    BY <2>1 DEF ProxyInv, ProxyTypeOK
<1>4. HandInv' /\ StatusInv'
  BY <1>1 DEF ProxyInv, HandInv, StatusInv
<1>5. FlowInv'
  <2> SUFFICES ASSUME NEW t \in Sockets  PROVE Flow(t)'
    BY DEF FlowInv
  <2>1. PICK g, o, h \in Nat : Flows(t, g, o, h)
    BY DEF ProxyInv, FlowInv, Flow
  <2>2. CASE Other(t) # s
    <3>1. Other(t) \in Sockets
      BY Others
    <3>2. Flows(t, g, o, h)'
      BY <1>2, <2>1, <2>2, <3>1 DEF Flows
    <3>3. QED
      BY <3>2 DEF Flow
  <2>3. CASE Other(t) = s
    <3>1. Stretch(got[s], 0, g) /\ Stretch(outbox[s], g, o) /\ o <= sent[t]
      BY <1>1, <2>1, <2>3 DEF Flows
    <3>2. /\ g + 1 \in Nat /\ g + 1 <= o /\ Head(outbox[s]) = g + 1
          /\ Stretch(Tail(outbox[s]), g + 1, o)
      BY <1>1, <3>1, StretchHead
    <3>3. Stretch(Append(got[s], g + 1), 0, g + 1)
      BY <3>1, StretchAppend
    <3>4. g + 1 <= sent[t]
      BY <3>1, <3>2 DEF ProxyInv, ProxyTypeOK
    <3>5. Flows(t, g + 1, o, h)'
      BY <1>2, <2>1, <2>3, <3>1, <3>2, <3>3, <3>4 DEF Flows
    <3>6. QED
      BY <3>2, <3>5 DEF Flow
  <2>4. QED
    BY <2>2, <2>3
<1>6. QED
  BY <1>3, <1>4, <1>5 DEF ProxyInv

LEMMA PeerResetsStep ==
  ASSUME ProxyInv, NEW s \in Sockets, PeerResets(s)
  PROVE  ProxyInv'
<1> USE DEF PeerResets, tunnel
<1>1. /\ broken' = broken \cup {s} /\ inbox'[s] = <<>> /\ outbox'[s] = <<>>
      /\ \A t \in Sockets : t # s => inbox'[t] = inbox[t] /\ outbox'[t] = outbox[t]
  BY DEF ProxyInv, ProxyTypeOK
<1>2. ProxyTypeOK' /\ HandInv'
  BY <1>1 DEF ProxyInv, ProxyTypeOK, HandInv
<1>3. StatusInv'
  <2>1. \A t \in Sockets : inbox[t] = <<>> => inbox'[t] = <<>>
    BY <1>1
  <2>2. \A t \in Sockets : outbox[t] = <<>> => outbox'[t] = <<>>
    BY <1>1
  <2>3. "client" \in Sockets
    BY DEF Sockets
  <2>4. QED
    BY <2>1, <2>2, <2>3 DEF ProxyInv, StatusInv
<1>4. FlowInv'
  <2> SUFFICES ASSUME NEW t \in Sockets  PROVE Flow(t)'
    BY DEF FlowInv
  <2>1. PICK g, o, h \in Nat : Flows(t, g, o, h)
    BY DEF ProxyInv, FlowInv, Flow
  <2>2. Other(t) \in Sockets
    BY Others
  <2>3. Flows(t, g, o, h)'
    BY <1>1, <2>1, <2>2 DEF Flows
  <2>4. QED
    BY <2>3 DEF Flow
<1>5. QED
  BY <1>2, <1>3, <1>4 DEF ProxyInv

\* The proxy's inductive invariant: at every moment the bytes of a direction lie
\* in order, without a gap, in what was read, the peer's buffer, the pump's hand
\* and the buffer before it.
THEOREM ProxyInvariant ==
  ASSUME ~Eager
  PROVE  ProxySpec => []ProxyInv
<1>1. ProxyInit => ProxyInv
  BY ProxyInvInit
<1>2. ASSUME ProxyInv, [ProxyNext]_proxyVars  PROVE ProxyInv'
  <2>1. CASE \E s \in Sockets : Peer(s)
    <3>1. PICK s \in Sockets : Peer(s)
      BY <2>1
    <3>2. CASE PeerEnds(s)
      BY <1>2, <3>2
      DEF PeerEnds, tunnel, ProxyInv, ProxyTypeOK, HandInv, StatusInv, FlowInv,
          Flow, Flows
    <3>3. QED
      BY <1>2, <3>1, <3>2, PeerSendsStep, PeerReadsStep, PeerResetsStep DEF Peer
  <2>2. CASE UNCHANGED proxyVars
    BY <1>2, <2>2
    DEF proxyVars, ProxyInv, ProxyTypeOK, HandInv, StatusInv, FlowInv, Flow, Flows
  <2>3. QED
    BY <1>2, <2>1, <2>2, HandlerStep, PumpStep DEF ProxyNext
<1>3. QED
  BY <1>1, <1>2, PTL DEF ProxySpec

\* If the client sends nothing before it is told 200, what a peer reads is what
\* the other sent, in order and without a gap, for any number of chunks and any
\* buffer, however the tunnel ends; and nothing is lost while it is up.
THEOREM TunnelsAreFaithful ==
  ASSUME ~Eager
  PROVE  ProxySpec => []TunnelIsFaithful
<1>1. ASSUME ProxyInv, NEW s \in Sockets
      PROVE  IsPrefix(got[Other(s)], FirstChunks(sent[s]))
  <2>1. PICK g, o, h \in Nat : Flows(s, g, o, h)
    BY <1>1 DEF ProxyInv, FlowInv, Flow
  <2>2. Stretch(got[Other(s)], 0, g) /\ g <= sent[s] /\ sent[s] \in Nat
    BY <1>1, <2>1 DEF Flows, ProxyInv, ProxyTypeOK
  <2>3. QED
    BY <2>2, StretchIsPrefix
<1>2. ASSUME ProxyInv, NEW s \in Sockets, broken = {}, shut = {}
      PROVE  got[Other(s)] \o outbox[Other(s)] \o hand[s] \o inbox[s]
               = FirstChunks(sent[s])
  <2>1. PICK g, o, h \in Nat : Flows(s, g, o, h)
    BY <1>2 DEF ProxyInv, FlowInv, Flow
  <2>2. pump[s] # "done"
    BY <1>2 DEF ProxyInv, HandInv, Sockets
  <2>3. /\ Stretch(got[Other(s)], 0, g) /\ Stretch(outbox[Other(s)], g, o)
        /\ Stretch(hand[s], o, h) /\ Stretch(inbox[s], h, sent[s])
    BY <1>2, <2>1, <2>2 DEF Flows
  <2>4. Stretch(got[Other(s)] \o outbox[Other(s)], 0, o)
    BY <2>3, StretchConcat
  <2>5. Stretch(got[Other(s)] \o outbox[Other(s)] \o hand[s], 0, h)
    BY <2>3, <2>4, StretchConcat
  <2>6. Stretch(got[Other(s)] \o outbox[Other(s)] \o hand[s] \o inbox[s], 0, sent[s])
    BY <2>3, <2>5, StretchConcat
  <2>7. QED
    BY <2>6, StretchIsAll
<1>3. ASSUME ProxyInv
      PROVE  /\ \A s \in Sockets : got[s] # <<>> => status = << 200 >>
             /\ Len(status) <= 1
  <2>1. Len(<<>>) <= 1 /\ Len(<< 200 >>) <= 1
    OBVIOUS
  <2>2. QED
    BY <1>3, <2>1 DEF ProxyInv, StatusInv
<1>4. ProxyInv => TunnelIsFaithful
  BY <1>1, <1>2, <1>3 DEF TunnelIsFaithful
<1>5. QED
  BY <1>4, ProxyInvariant, PTL

-----------------------------------------------------------------------------
(* The tunnel that is promised.                                            *)

\* A host that ends with an entry, label by label, is the entry or below it.
LEMMA SuffixesAreBelow ==
  ASSUME NEW h \in Seq(STRING), NEW d \in Seq(STRING), d # <<>>, IsSuffix(d, h)
  PROVE  \E n \in 1 .. Len(h) : SubSeq(h, n, Len(h)) = d
<1> DEFINE k == Len(d)
           m == Len(h)
           rd == Reverse(d)
           rh == Reverse(h)
<1>1. k \in Nat /\ k # 0 /\ m \in Nat
  BY EmptySeq
<1>2. /\ \A i \in 1 .. k : d[k - i + 1] \in STRING
      /\ \A i \in 1 .. m : h[m - i + 1] \in STRING
  BY <1>1, ElementOfSeq
<1>3. /\ rd \in [1 .. k -> STRING] /\ \A i \in 1 .. k : rd[i] = d[k - i + 1]
      /\ rh \in [1 .. m -> STRING] /\ \A i \in 1 .. m : rh[i] = h[m - i + 1]
  BY <1>2 DEF Reverse
<1>4. rd \in Seq(STRING) /\ Len(rd) = k /\ rh \in Seq(STRING) /\ Len(rh) = m
  BY <1>1, <1>3, FunctionIsSeq
<1>5. k <= m /\ SubSeq(rd, 1, k) = SubSeq(rh, 1, k)
  BY <1>4 DEF IsSuffix, IsPrefix
<1> HIDE DEF rd, rh
<1>6. \A i \in 1 .. k : SubSeq(rd, 1, k)[i] = rd[i] /\ SubSeq(rh, 1, k)[i] = rh[i]
  <2>1. \A i \in 1 .. k : rd[i] \in STRING /\ rh[i] \in STRING
    BY <1>1, <1>3, <1>5
  <2>2. /\ \A i \in 1 .. k - 1 + 1 : SubSeq(rd, 1, k)[i] = rd[1 + i - 1]
        /\ \A i \in 1 .. k - 1 + 1 : SubSeq(rh, 1, k)[i] = rh[1 + i - 1]
    BY <1>1, <2>1, SubSeqProperties
  <2>3. k - 1 + 1 = k /\ \A i \in 1 .. k : 1 + i - 1 = i
    BY <1>1
  <2>4. QED
    BY <2>2, <2>3
<1>7. \A i \in 1 .. k : d[k - i + 1] = h[m - i + 1]
  BY <1>1, <1>3, <1>5, <1>6
<1>8. \A j \in 1 .. k : d[j] = h[m - k + j]
  <2> SUFFICES ASSUME NEW j \in 1 .. k  PROVE d[j] = h[m - k + j]
    OBVIOUS
  <2>1. k - j + 1 \in 1 .. k
    BY <1>1
  <2>2. k - (k - j + 1) + 1 = j /\ m - (k - j + 1) + 1 = m - k + j
    BY <1>1
  <2>3. QED
    BY <1>7, <2>1, <2>2
<1>9. m - k + 1 \in 1 .. m
  BY <1>1, <1>5
<1>10. SubSeq(h, m - k + 1, m) = d
  <2> DEFINE e == SubSeq(h, m - k + 1, m)
  <2>1. \A i \in m - k + 1 .. m : h[i] \in STRING
    BY <1>1, <1>9, ElementOfSeq
  <2>2. /\ e \in Seq(STRING) /\ Len(e) = m - (m - k + 1) + 1
        /\ \A i \in 1 .. m - (m - k + 1) + 1 : e[i] = h[m - k + 1 + i - 1]
    BY <1>1, <1>9, <2>1, SubSeqProperties
  <2>3. m - (m - k + 1) + 1 = k /\ \A i \in 1 .. k : m - k + 1 + i - 1 = m - k + i
    BY <1>1
  <2> HIDE DEF e
  <2>4. Len(e) = Len(d) /\ \A i \in 1 .. Len(e) : e[i] = d[i]
    BY <1>8, <2>2, <2>3
  <2>5. e = d
    BY <2>2, <2>4, SeqEqual
  <2>6. QED
    BY <2>5 DEF e
<1>11. QED
  BY <1>9, <1>10

LEMMA AllowedIsListed ==
  ASSUME NEW h \in Asked, HostAllowed(h)  PROVE h \in ListedOrBelow
<1>1. PICK d \in AllowList : IsSuffix(d, h)
  BY DEF HostAllowed
<1>2. h \in Seq(STRING) /\ d \in Seq(STRING) /\ d # <<>>
  BY ProxyAssumption
<1>3. \E n \in 1 .. Len(h) : SubSeq(h, n, Len(h)) = d
  BY <1>1, <1>2, SuffixesAreBelow
<1>4. QED
  BY <1>3 DEF ListedOrBelow

\* Upstream is dialled after the request has been checked, and the client is
\* answered after upstream has been dialled.
DialInv ==
  /\ request \in Requests
  /\ handler \in {"reading", "connecting"} => host = <<>>
  /\ handler = "connecting" => request.host \in ListedOrBelow
  /\ handler \in {"answering", "pumping"} => host # <<>>

PromiseInv == ProxyInv /\ DialInv
PromiseStep == [Promise!TunnelNext]_(Promise!line)

LEMMA ListedHaveLabels == <<>> \notin ListedOrBelow
<1>1. Len(<<>>) = 0
  OBVIOUS
<1>2. 1 .. Len(<<>>) = {}
  BY <1>1
<1>3. QED
  BY <1>2 DEF ListedOrBelow

LEMMA PromiseInit == ProxyInit => PromiseInv /\ Promise!TunnelInit
<1> SUFFICES ASSUME ProxyInit  PROVE PromiseInv /\ Promise!TunnelInit
  OBVIOUS
<1>1. PromiseInv
  BY ProxyInvInit DEF PromiseInv, DialInv, ProxyInit
<1>2. status # << 200 >>
  BY DEF ProxyInit
<1>3. QED
  BY <1>1, <1>2 DEF ProxyInit, Promise!TunnelInit, Promise!Sides, Sockets

LEMMA HandlerPromise ==
  ASSUME PromiseInv, ReadEnd \/ ReadHeader \/ Connect \/ Answer
  PROVE  DialInv' /\ PromiseStep
<1>1. handler # "pumping" /\ UNCHANGED <<sent, got, request>>
  BY DEF ReadEnd, ReadHeader, Connect, Answer, sockets
<1>2. status # << 200 >>
  BY <1>1 DEF PromiseInv, ProxyInv, StatusInv
<1>3. ASSUME NEW c \in {431, 405, 403, 502}, Refuse(c),
             handler \in {"reading", "connecting"}
      PROVE  status' # << 200 >>
  <2>1. status = <<>>
    BY <1>3 DEF PromiseInv, ProxyInv, StatusInv
  <2>2. Append(status, c) = <<c>>
    BY <2>1
  <2>3. <<c>> # << 200 >>
    BY <1>3
  <2>4. QED
    BY <1>2, <1>3, <2>2, <2>3 DEF Refuse
<1>4. CASE ReadEnd
  BY <1>2, <1>4 DEF ReadEnd, PromiseInv, DialInv, PromiseStep, Promise!line, sockets
<1>5. CASE ReadHeader
  <2>1. handler = "reading" /\ UNCHANGED host
    BY <1>5 DEF ReadHeader
  <2>2. \/ \E c \in {431, 405, 403, 502} : Refuse(c)
        \/ /\ handler' = "connecting" /\ UNCHANGED status
           /\ request.kind \notin {"oversized", "not_CONNECT", "bad_port", "unfinished"}
           /\ HostAllowed(request.host)
    BY <1>5 DEF ReadHeader
  <2>3. CASE \E c \in {431, 405, 403, 502} : Refuse(c)
    <3>1. handler' = "ended" /\ status' # << 200 >>
      BY <1>3, <2>1, <2>3 DEF Refuse
    <3>2. QED
      BY <1>1, <1>2, <2>1, <3>1 DEF PromiseInv, DialInv, PromiseStep, Promise!line
  <2>4. CASE /\ handler' = "connecting" /\ UNCHANGED status
             /\ request.kind \notin {"oversized", "not_CONNECT", "bad_port", "unfinished"}
             /\ HostAllowed(request.host)
    <3>1. request.host \in Asked
      BY <2>4 DEF PromiseInv, DialInv, Requests
    <3>2. request.host \in ListedOrBelow
      BY <2>4, <3>1, AllowedIsListed
    <3>3. QED
      BY <1>1, <1>2, <2>1, <2>4, <3>2
      DEF PromiseInv, DialInv, PromiseStep, Promise!line
  <2>5. QED
    BY <2>2, <2>3, <2>4
<1>6. CASE Connect
  <2>1. handler = "connecting" /\ host = <<>> /\ request.host \in ListedOrBelow
    BY <1>6 DEF Connect, PromiseInv, DialInv
  <2>2. CASE host' = request.host /\ handler' = "answering" /\ UNCHANGED status
    <3>1. host' # <<>>
      BY <2>1, <2>2, ListedHaveLabels
    <3>2. Promise!Dial
      BY <1>1, <2>1, <2>2 DEF Promise!Dial
    <3>3. QED
      BY <1>1, <2>2, <3>1, <3>2 DEF PromiseInv, DialInv, PromiseStep, Promise!TunnelNext
  <2>3. CASE Refuse(502) /\ UNCHANGED host
    <3>1. handler' = "ended" /\ status' # << 200 >>
      BY <1>3, <2>1, <2>3 DEF Refuse
    <3>2. QED
      BY <1>1, <1>2, <2>3, <3>1 DEF PromiseInv, DialInv, PromiseStep, Promise!line
  <2>4. QED
    BY <1>6, <2>2, <2>3 DEF Connect
<1>7. CASE Answer
  <2>1. handler = "answering" /\ host # <<>> /\ UNCHANGED host /\ status = <<>>
    BY <1>7 DEF Answer, PromiseInv, DialInv, ProxyInv, StatusInv
  <2>2. CASE "client" \in broken
    BY <1>1, <1>2, <1>7, <2>1, <2>2
    DEF Answer, PromiseInv, DialInv, PromiseStep, Promise!line
  <2>3. CASE "client" \notin broken
    <3>1. handler' = "pumping" /\ status' = << 200 >>
      <4>1. Append(<<>>, 200) = << 200 >>
        OBVIOUS
      <4>2. QED
        BY <1>7, <2>1, <2>3, <4>1 DEF Answer
    <3>2. Promise!Open
      BY <1>1, <1>2, <2>1, <3>1 DEF Promise!Open
    <3>3. QED
      BY <1>1, <2>1, <3>1, <3>2 DEF PromiseInv, DialInv, PromiseStep, Promise!TunnelNext
  <2>4. QED
    BY <2>2, <2>3
<1>8. QED
  BY <1>4, <1>5, <1>6, <1>7

\* What a side reads next is the first chunk it has not read, and has been sent.
LEMMA ReadingIsHearing ==
  ASSUME ProxyInv, NEW s \in Sockets, PeerReads(s)
  PROVE  Promise!Hear(s)
<1> DEFINE t == Other(s)
<1>1. /\ t \in Sockets /\ Other(t) = s /\ t # s
  BY Others
<1>2. outbox[s] # <<>> /\ s \notin broken /\ got' = [got EXCEPT ![s] = Append(@, Head(outbox[s]))]
  BY DEF PeerReads, Reachable
<1>3. PICK g, o, h \in Nat : Flows(t, g, o, h)
  BY <1>1 DEF ProxyInv, FlowInv, Flow
<1>4. Stretch(got[s], 0, g) /\ Stretch(outbox[s], g, o) /\ o <= sent[t]
  BY <1>1, <1>2, <1>3 DEF Flows
<1>5. g + 1 <= o /\ Head(outbox[s]) = g + 1
  BY <1>2, <1>4, StretchHead
<1>6. Len(got[s]) = g
  <2>1. got[s] \in Seq(Nat) /\ 0 + Len(got[s]) = g
    BY <1>4 DEF Stretch
  <2>2. Len(got[s]) \in Nat
    BY <2>1
  <2>3. QED
    BY <1>3, <2>1, <2>2
<1>7. Len(got[s]) < sent[t]
  BY <1>1, <1>3, <1>4, <1>5, <1>6 DEF ProxyInv, ProxyTypeOK
<1>8. got' = [got EXCEPT ![s] = Append(@, Len(@) + 1)]
  BY <1>2, <1>5, <1>6
<1>9. status = << 200 >> /\ UNCHANGED <<host, status, sent>>
  BY <1>2 DEF PeerReads, ProxyInv, StatusInv
<1>10. t \in Promise!Sides \ {s}
  BY <1>1 DEF Promise!Sides, Sockets
<1>11. QED
  BY <1>7, <1>8, <1>9, <1>10 DEF Promise!Hear

LEMMA OthersPromise ==
  ASSUME PromiseInv, ~Eager, NEW s \in Sockets, Pump(s) \/ TimesOut(s) \/ Peer(s)
  PROVE  DialInv' /\ PromiseStep
<1>1. UNCHANGED <<request, handler, host, status>>
  BY DEF Pump, Receive, ReceiveEnd, Send, SendFails, TimesOut, PumpEnds,
         Peer, PeerSends, PeerReads, PeerEnds, PeerResets
<1>2. DialInv'
  BY <1>1 DEF PromiseInv, DialInv
<1>3. s \in Promise!Sides
  BY DEF Promise!Sides, Sockets
<1>4. CASE PeerSends(s)
  <2>1. status = << 200 >> => host # <<>>
    <3>1. status = << 200 >> => handler = "pumping"
      BY DEF PromiseInv, ProxyInv, StatusInv
    <3>2. QED
      BY <3>1 DEF PromiseInv, DialInv
  <2>2. Promise!Say(s)
    BY <1>1, <1>4, <2>1 DEF Promise!Say, PeerSends, MaySend, Reachable, Sockets
  <2>3. QED
    BY <1>2, <1>3, <2>2 DEF PromiseStep, Promise!TunnelNext
<1>5. CASE PeerReads(s)
  BY <1>2, <1>3, <1>5, ReadingIsHearing DEF PromiseInv, PromiseStep, Promise!TunnelNext
<1>6. CASE Pump(s) \/ TimesOut(s) \/ PeerEnds(s) \/ PeerResets(s)
  <2>1. UNCHANGED <<sent, got>>
    BY <1>6 DEF Pump, Receive, ReceiveEnd, Send, SendFails, TimesOut, PumpEnds,
                PeerEnds, PeerResets, sockets
  <2>2. QED
    BY <1>1, <1>2, <2>1 DEF PromiseStep, Promise!line
<1>7. QED
  BY <1>4, <1>5, <1>6 DEF Peer

\* Under the same assumption the proxy implements Tunnel, step by step: it
\* connects to hosts at or below an entry of the allowlist only, and what a side
\* hears, once the tunnel is open, is the next thing the other has said.
THEOREM ProxyImplementsTunnel ==
  ASSUME ~Eager
  PROVE  ProxySpec => ImplementsTunnel
<1>1. ProxyInit => DialInv /\ Promise!TunnelInit
  BY PromiseInit DEF PromiseInv
<1>2. ProxyInv /\ DialInv /\ [ProxyNext]_proxyVars
        => DialInv' /\ [Promise!TunnelNext]_(Promise!line)
  <2> SUFFICES ASSUME PromiseInv, [ProxyNext]_proxyVars  PROVE DialInv' /\ PromiseStep
    BY DEF PromiseInv, PromiseStep
  <2>1. CASE UNCHANGED proxyVars
    BY <2>1 DEF proxyVars, PromiseInv, DialInv, PromiseStep, Promise!line
  <2>2. QED
    BY <2>1, HandlerPromise, OthersPromise DEF ProxyNext
<1>3. ProxySpec => []ProxyInv
  BY ProxyInvariant
<1>4. QED
  BY <1>1, <1>2, <1>3, PTL DEF ProxySpec, ImplementsTunnel, Promise!TunnelSpec
=============================================================================
