------------------------------ MODULE Firewall ------------------------------
(***************************************************************************)
(* The Firewall filter of src/filters/firewall.rs.  A Firewall holds two   *)
(* immutable rule lists, on_read and on_write.  read and write walk their  *)
(* list in order: the first rule that contains the datagram's source       *)
(* decides (Allow => Ok, Deny => Err(FirewallDenied)); when no rule        *)
(* matches the policy is default deny.  Each iteration first converts the  *)
(* source EndpointAddress to a socket address with `?`, so an address that *)
(* does not resolve aborts the walk with that error, but only when the     *)
(* list is not empty.                                                      *)
(*                                                                         *)
(* Rule, Cidr and PortRange live in filters/firewall/config.rs, which is   *)
(* not part of the sources here: RuleContains is modelled from the spec    *)
(* (a rule matches iff the IP is in one of its CIDRs and the port is in    *)
(* one of its ranges, ranges inclusive as in "10..=100").                  *)
(***************************************************************************)
EXTENDS Naturals, Sequences, SequencesExt

CONSTANTS
    IPs,          \* source IP addresses (model values)
    Unresolved,   \* source addresses whose to_socket_addr() fails
    Ports,        \* source ports
    Cidrs,        \* CIDR blocks, each a set of IPs
    Ranges,       \* port ranges, each a pair <<low, high>>
    MaxRules      \* bound on the length of a rule list

ASSUME FirewallAssumption ==
    /\ Cidrs \subseteq SUBSET IPs
    /\ Ranges \subseteq Nat \X Nat
    /\ Ports \subseteq Nat
    /\ IPs \cap Unresolved = {}
    /\ MaxRules \in Nat

Actions == {"Allow", "Deny"}

\* Rule { action, sources: Vec<Cidr>, ports: Vec<PortRange> }; the lists
\* are abstracted to the sets they denote, since contains only asks for one
\* member of each to match.
Rule == [action : Actions, sources : SUBSET Cidrs, ports : SUBSET Ranges]

RuleLists == BoundedSeq(Rule, MaxRules)

Addresses == (IPs \X Ports) \cup (Unresolved \X Ports)

\* Outcomes of read/write: Ok(()), Err(FirewallDenied), or the error that
\* `ctx.source.to_socket_addr()?` propagates.
Outcomes == {"Ok", "FirewallDenied", "AddrError"}

NoOutcome == "none"

NoAddress == <<"none", 0>>

\* Rule::contains(SocketAddr), from the spec.
RuleContains(rule, ip, port) ==
    /\ \E c \in rule.sources : ip \in c
    /\ \E r \in rule.ports : r[1] <= port /\ port <= r[2]

\* The loop with an allow-by-default fall-through.
EvaluateDefaultAllow(rules, addr) ==
    LET scan[i \in 1..(Len(rules) + 1)] ==
          IF i > Len(rules) THEN "Ok"
          ELSE IF addr[1] \in Unresolved THEN "AddrError"
          ELSE IF RuleContains(rules[i], addr[1], addr[2])
               THEN IF rules[i].action = "Allow" THEN "Ok" ELSE "FirewallDenied"
               ELSE scan[i + 1]
    IN  scan[1]

\* The for loop of read (and, identically, of write): at index i, convert
\* the source (an unresolvable one returns the error), then return the
\* rule's verdict if it contains the source, else go on; past the end,
\* default deny.
Evaluate(rules, addr) ==
    LET scan[i \in 1..(Len(rules) + 1)] ==
          IF i > Len(rules) THEN "FirewallDenied"
          ELSE IF addr[1] \in Unresolved THEN "AddrError"
          ELSE IF RuleContains(rules[i], addr[1], addr[2])
               THEN IF rules[i].action = "Allow" THEN "Ok" ELSE "FirewallDenied"
               ELSE scan[i + 1]
    IN  scan[1]

VARIABLES
    onRead,      \* Firewall.on_read
    onWrite,     \* Firewall.on_write
    event,       \* the last datagram filtered: "read" or "write"
    source,      \* its ctx.source
    outcome      \* what the filter returned for it

vars == <<onRead, onWrite, event, source, outcome>>

\* Firewall::new(config): the lists are taken from the configuration and
\* never change afterwards.
Init ==
    /\ onRead \in RuleLists
    /\ onWrite \in RuleLists
    /\ event = "none"
    /\ source = NoAddress
    /\ outcome = NoOutcome

\* Filter::read on a datagram from addr.
Read(addr) ==
    /\ event' = "read"
    /\ source' = addr
    /\ outcome' = Evaluate(onRead, addr)
    /\ UNCHANGED <<onRead, onWrite>>

\* Filter::write on a datagram whose source (the upstream endpoint) is addr.
Write(addr) ==
    /\ event' = "write"
    /\ source' = addr
    /\ outcome' = Evaluate(onWrite, addr)
    /\ UNCHANGED <<onRead, onWrite>>

Next == \E addr \in Addresses : Read(addr) \/ Write(addr)

Spec == Init /\ [][Next]_vars

-----------------------------------------------------------------------------
(* Reference definition of the rule semantics, stated without a loop: the *)
(* decisive rule is the first one (SelectInSeq) that contains the source. *)

DecisiveRule(rules, addr) ==
    SelectInSeq(rules, LAMBDA r : RuleContains(r, addr[1], addr[2]))

RefOutcome(rules, addr) ==
    IF rules # <<>> /\ addr[1] \in Unresolved THEN "AddrError"
    ELSE IF DecisiveRule(rules, addr) = 0 THEN "FirewallDenied"
    ELSE IF rules[DecisiveRule(rules, addr)].action = "Allow" THEN "Ok"
    ELSE "FirewallDenied"

\* First match wins and default deny (spec 4.1 and property 8.3), for read
\* and for write: the outcome of every datagram filtered by Firewall::read
\* or Firewall::write is the action of the first rule of the list that
\* contains the source, FirewallDenied when none does, and the address error
\* only when the list is not empty.
FirstMatchDecides ==
    event # "none" =>
        outcome = RefOutcome(IF event = "read" THEN onRead ELSE onWrite, source)
=============================================================================
