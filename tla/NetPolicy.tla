----------------------------- MODULE NetPolicy -----------------------------
(***************************************************************************)
(* The network part of a profile: how parse builds the rule list, what the *)
(* rules mean (evaluate), how they are compiled into two longest-prefix    *)
(* tries and how the kernel looks a destination up in them                 *)
(* (rk-policy/src/net.rs, rk-bpf/src/net.bpf.c).                           *)
(*                                                                         *)
(* An address is a sequence of Width bits and a prefix a sequence of at    *)
(* most Width bits.  The addresses that start with V4 stand for the        *)
(* IPv4-mapped space and those that start with NAT64 for 64:ff9b::/96.     *)
(* A protocol mask is a set of protocols.                                  *)
(***************************************************************************)
EXTENDS Integers, Sequences

CONSTANTS Width,         \* bits of an address
          V4, NAT64,     \* the two special prefixes, of the same length
          Nets,          \* prefixes the rules of a file may name
          PortLists,     \* their port lists: sequences of <<lo, hi>>
          Ports,         \* port numbers
          Protos,        \* protocols
          Masks,         \* their protocol masks
          MAX_RANGES,    \* ranges per compiled prefix
          MaxRules       \* bound on the rules of a file

NetSpace == UNION {[1..n -> {0, 1}] : n \in 0..Width}
Addresses == {p \in NetSpace : Len(p) = Width}
Actions == {"deny", "allow"}

ASSUME NetAssumption ==
  /\ Nets \union {V4, NAT64} \subseteq NetSpace
  /\ Len(V4) = Len(NAT64) /\ V4 # NAT64
  /\ Width \in Nat /\ Ports \subseteq Nat /\ PortLists \subseteq Seq(Ports \X Ports)
  /\ \A l \in PortLists : \A i \in DOMAIN l : l[i][1] <= l[i][2]
  /\ Masks \subseteq SUBSET Protos
  /\ MAX_RANGES \in Nat /\ MaxRules \in Nat

VARIABLES
  file,       \* the rules of the file, in file order, denies first
  default,    \* net_default
  nat64,      \* nat64_equivalence
  rules,      \* Profile::rules
  next_rule,
  compiled    \* status ("none", "ok", "refused") and the tries by action

nvars == <<file, default, nat64, rules, next_rule, compiled>>

\* Prefix p contains the prefix or address q.
contains(p, q) == Len(p) <= Len(q) /\ \A i \in 1..Len(p) : p[i] = q[i]

Empty == [action \in Actions |-> << >>]

-----------------------------------------------------------------------------
(***************************************************************************)
(* Parsing.                                                                *)
(***************************************************************************)
\* nat64_equivalent: the 64:ff9b::/96 form of an IPv4-mapped prefix.
HasNat64(net) == contains(V4, net)
nat64_equivalent(net) == NAT64 \o SubSeq(net, Len(V4) + 1, Len(net))

\* Mutant: the translation is tested the wrong way round.
PushedWider(r) ==
  IF r.action = "deny" /\ nat64 /\ contains(r.net, V4)
    THEN << [r EXCEPT !.net = NAT64], r >>
    ELSE << r >>

\* push: the rule, with its translated twin before it.
Pushed(r) ==
  IF r.action = "deny" /\ nat64 /\ HasNat64(r.net)
    THEN << [r EXCEPT !.net = nat64_equivalent(r.net)], r >>
    ELSE << r >>

-----------------------------------------------------------------------------
(***************************************************************************)
(* Reference semantics: evaluate.                                          *)
(***************************************************************************)
InRanges(ports, port) == \E i \in DOMAIN ports : port \in ports[i][1]..ports[i][2]

Matches(r, action, addr, port, proto) ==
  /\ r.action = action
  /\ contains(r.net, addr)
  /\ proto \in r.proto
  /\ InRanges(r.ports, port)

\* Rule i is the most specific of the rules in set, the earliest on a tie.
Best(rs, set, i) ==
  \A j \in set : \/ Len(rs[i].net) > Len(rs[j].net)
                 \/ Len(rs[i].net) = Len(rs[j].net) /\ i <= j

evaluate(rs, dflt, addr, port, proto) ==
  LET denies == {i \in DOMAIN rs : Matches(rs[i], "deny", addr, port, proto)}
      allows == {i \in DOMAIN rs : Matches(rs[i], "allow", addr, port, proto)}
      decided(action, matching) ==
        [action |-> action, rule_id |-> rs[CHOOSE i \in matching : Best(rs, matching, i)].id]
  IN CASE denies # {} -> decided("deny", denies)
       [] denies = {} /\ allows # {} -> decided("allow", allows)
       [] OTHER -> [action |-> dflt, rule_id |-> 0]

-----------------------------------------------------------------------------
(***************************************************************************)
(* Compilation: compile_trie.                                              *)
(***************************************************************************)
covers(k, r) == r.proto \subseteq k.proto /\ k.lo <= r.lo /\ k.hi >= r.hi

RangeOf(r, j) == [rule_id |-> r.id, lo |-> r.ports[j][1], hi |-> r.ports[j][2], proto |-> r.proto]

\* A range, unless an earlier one covers it.
AddRange(kept, range) ==
  IF \E i \in DOMAIN kept : covers(kept[i], range) THEN kept ELSE Append(kept, range)

\* The port ranges of a rule in their order.
AddRule(kept, r) ==
  LET after[j \in 0..Len(r.ports)] ==
        IF j = 0 THEN kept ELSE AddRange(after[j - 1], RangeOf(r, j))
  IN  after[Len(r.ports)]

\* The rules of one prefix in file order.
AddGroup(kept, rs, action, net) ==
  LET after[i \in 0..Len(rs)] ==
        IF i = 0 THEN kept
        ELSE IF rs[i].action = action /\ rs[i].net = net THEN AddRule(after[i - 1], rs[i])
        ELSE after[i - 1]
  IN  after[Len(rs)]

\* Mutant: the enclosing prefixes first.
LevelOuterFirst(net, k) == SubSeq(net, 1, k - 1)

\* The prefix itself, then those that contain it, the longest first.
Level(net, k) == SubSeq(net, 1, Len(net) + 1 - k)

Flattened(rs, action, net) ==
  LET after[k \in 0..(Len(net) + 1)] ==
        IF k = 0 THEN << >> ELSE AddGroup(after[k - 1], rs, action, Level(net, k))
  IN  after[Len(net) + 1]

NetsOf(rs, action) == {rs[i].net : i \in {j \in DOMAIN rs : rs[j].action = action}}

compile_trie(rs, action) == [net \in NetsOf(rs, action) |-> Flattened(rs, action, net)]

Fits(trie) == \A net \in DOMAIN trie : Len(trie[net]) <= MAX_RANGES

compile(rs) ==
  LET tries == [action \in Actions |-> compile_trie(rs, action)]
  IN IF \A action \in Actions : Fits(tries[action])
       THEN [status |-> "ok", tries |-> tries]
       ELSE [status |-> "refused", tries |-> Empty]

-----------------------------------------------------------------------------
(***************************************************************************)
(* The kernel: rk_net_verdict, and Compiled::lookup, which simulates it.   *)
(***************************************************************************)
\* The longest prefix of the trie that contains the address (a set of at most
\* one prefix).
Longest(trie, addr) ==
  LET cover == {net \in DOMAIN trie : contains(net, addr)}
  IN {net \in cover : \A other \in cover : Len(other) <= Len(net)}

Hit(range, port, proto) == proto \in range.proto /\ port \in range.lo..range.hi

\* rk_net_match: the prefix and the indices of its ranges that match.
Hits(trie, addr, port, proto) ==
  {h \in Longest(trie, addr) \X (1..MAX_RANGES) :
     h[2] \in DOMAIN trie[h[1]] /\ Hit(trie[h[1]][h[2]], port, proto)}

FirstHit(trie, hits) ==
  LET h == CHOOSE x \in hits : \A y \in hits : x[2] <= y[2]
  IN trie[h[1]][h[2]].rule_id

rk_net_verdict(tries, dflt, addr, port, proto) ==
  LET denies == Hits(tries["deny"], addr, port, proto)
      allows == Hits(tries["allow"], addr, port, proto)
      hit(action, hits) == [action |-> action, rule_id |-> FirstHit(tries[action], hits)]
  IN CASE denies # {} -> hit("deny", denies)
       [] denies = {} /\ allows # {} -> hit("allow", allows)
       [] OTHER -> [action |-> dflt, rule_id |-> 0]

-----------------------------------------------------------------------------
NInit ==
  /\ file = << >>
  /\ default \in Actions
  /\ nat64 \in BOOLEAN
  /\ rules = << >>
  /\ next_rule = 1
  /\ compiled = [status |-> "none", tries |-> Empty]

\* The next rule of the file; parse takes the denies first.
push(action, net, ports, proto) ==
  LET r == [id |-> next_rule, action |-> action, net |-> net, ports |-> ports,
            proto |-> proto]
  IN /\ compiled.status = "none"
     /\ Len(file) < MaxRules
     /\ action = "deny" => \A i \in DOMAIN file : file[i].action = "deny"
     /\ file' = Append(file, r)
     /\ rules' = rules \o Pushed(r)
     /\ next_rule' = next_rule + 1
     /\ UNCHANGED <<default, nat64, compiled>>

Compile ==
  /\ compiled.status = "none"
  /\ compiled' = compile(rules)
  /\ UNCHANGED <<file, default, nat64, rules, next_rule>>

NNext ==
  \/ \E action \in Actions, net \in Nets, ports \in PortLists, proto \in Masks :
       push(action, net, ports, proto)
  \/ Compile

NSpec == NInit /\ [][NNext]_nvars

-----------------------------------------------------------------------------
(***************************************************************************)
(* The kernel decides every destination, port and protocol as the          *)
(* reference semantics does, with the same rule id: one longest-prefix     *)
(* lookup per trie is enough, since compile_trie gives an entry the ranges *)
(* of all enclosing prefixes in their order of precedence and leaves out   *)
(* only ranges that can never match first.                                 *)
(***************************************************************************)
LookupAgrees ==
  compiled.status = "ok" =>
    \A addr \in Addresses, port \in Ports, proto \in Protos :
      rk_net_verdict(compiled.tries, default, addr, port, proto)
        = evaluate(rules, default, addr, port, proto)

(***************************************************************************)
(* With nat64_equivalence an IPv4 deny rule of the file holds for the      *)
(* translated address too, whatever allow rules and longer prefixes the    *)
(* file has for it.                                                        *)
(***************************************************************************)
DenyReachesNat64 ==
  compiled.status = "ok" /\ nat64 =>
    \A i \in DOMAIN file, addr \in Addresses, port \in Ports, proto \in Protos :
      /\ contains(V4, file[i].net)
      /\ Matches(file[i], "deny", addr, port, proto)
      => rk_net_verdict(compiled.tries, default, nat64_equivalent(addr), port, proto).action = "deny"
=============================================================================
