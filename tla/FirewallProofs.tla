--------------------------- MODULE FirewallProofs ---------------------------
(***************************************************************************)
(* Proofs about the Firewall model: the loop of Firewall::read and        *)
(* Firewall::write computes the first-match, default-deny outcome for     *)
(* every rule list.                                                        *)
(*                                                                         *)
(* Evaluate is a recursive function over the loop index.  TLAPS reads     *)
(* `scan[i \in D] == e` as CHOOSE scan : scan = [i \in D |-> e], so the   *)
(* proof shows that a solution of that equation exists (the loop-free      *)
(* FirstFrom below is one) and that every solution agrees with FirstFrom, *)
(* by taking the last index at which one would not.  That index exists    *)
(* because < is well founded on Nat (WFMin), which needs no operator     *)
(* parameter.                                                             *)
(***************************************************************************)
EXTENDS Firewall, WellFoundedInduction, TLAPS

-----------------------------------------------------------------------------
(* Least elements.                                                         *)

\* The less-than relation on the naturals, as a set of pairs.
NatLess == OpToRel(<, Nat)

\* A non-empty set of naturals has a least element.
LEMMA NatHasLeast ==
    ASSUME NEW T \in SUBSET Nat, T # {}
    PROVE  \E x \in T : \A y \in T : x <= y
<1>1. IsWellFoundedOn(NatLess, Nat)
  BY NatLessThanWellFounded DEF NatLess
<1>2. T \subseteq Nat
  OBVIOUS
<1>3. PICK x \in T : \A y \in T : ~(<<y, x>> \in NatLess)
  BY <1>1, <1>2, WFMin
<1>4. ASSUME NEW y \in T PROVE x <= y
  <2>1. ~(<<y, x>> \in NatLess)
    BY <1>3
  <2>2. <<y, x>> \in Nat \X Nat
    OBVIOUS
  <2>3. ~(y < x)
    BY <2>1, <2>2 DEF NatLess, OpToRel
  <2> QED
    BY <2>3
<1> QED
  BY <1>4

\* FiniteSetsExt's Min of a non-empty set of naturals is its least element.
LEMMA MinIsLeast ==
    ASSUME NEW T \in SUBSET Nat, T # {}
    PROVE  Min(T) \in T /\ \A y \in T : Min(T) <= y
BY NatHasLeast DEF Min

-----------------------------------------------------------------------------
(* The loop, and what it computes from each index on.                      *)

USE FirewallAssumption

\* One iteration of the for loop at index i, the rest of the loop being f.
ScanBody(rules, addr, f, i) ==
    IF i > Len(rules) THEN "FirewallDenied"
    ELSE IF addr[1] \in Unresolved THEN "AddrError"
    ELSE IF RuleContains(rules[i], addr[1], addr[2])
         THEN IF rules[i].action = "Allow" THEN "Ok" ELSE "FirewallDenied"
         ELSE f[i + 1]

\* The equation that defines Evaluate's scan.
ScanEq(rules, addr, f) ==
    f = [i \in 1 .. (Len(rules) + 1) |-> ScanBody(rules, addr, f, i)]

\* The indices, from i on, of the rules that contain the source.
MatchesFrom(rules, addr, i) ==
    {j \in i .. Len(rules) : RuleContains(rules[j], addr[1], addr[2])}

\* The outcome of the loop entered at index i, without recursion.
FirstFrom(rules, addr, i) ==
    IF i > Len(rules) THEN "FirewallDenied"
    ELSE IF addr[1] \in Unresolved THEN "AddrError"
    ELSE IF MatchesFrom(rules, addr, i) = {} THEN "FirewallDenied"
    ELSE IF rules[Min(MatchesFrom(rules, addr, i))].action = "Allow" THEN "Ok"
    ELSE "FirewallDenied"

\* FirstFrom as a function of the index.
FirstFromFcn(rules, addr) ==
    [i \in 1 .. (Len(rules) + 1) |-> FirstFrom(rules, addr, i)]

\* Evaluate is the scan chosen by its defining equation, entered at 1.
LEMMA EvaluateIsScan ==
    ASSUME NEW rules, NEW addr
    PROVE  Evaluate(rules, addr) = (CHOOSE f : ScanEq(rules, addr, f))[1]
BY DEF Evaluate, ScanEq, ScanBody
\* FirstFrom satisfies one iteration of the loop: at index i it returns
\* what the loop body returns when the rest of the loop is FirstFrom.
LEMMA FirstFromStep ==
    ASSUME NEW rules \in Seq(Rule), NEW addr, NEW i \in 1 .. (Len(rules) + 1)
    PROVE  FirstFrom(rules, addr, i) = ScanBody(rules, addr, FirstFromFcn(rules, addr), i)
<1> DEFINE n == Len(rules)
<1>1. CASE i > n
  BY <1>1 DEF FirstFrom, ScanBody
<1>2. CASE i <= n /\ addr[1] \in Unresolved
  BY <1>2 DEF FirstFrom, ScanBody
<1>3. CASE i <= n /\ addr[1] \notin Unresolved /\ RuleContains(rules[i], addr[1], addr[2])
  <2>1. i \in MatchesFrom(rules, addr, i) /\ MatchesFrom(rules, addr, i) \subseteq Nat
        /\ \A j \in MatchesFrom(rules, addr, i) : i <= j
    BY <1>3 DEF MatchesFrom
  <2>2. Min(MatchesFrom(rules, addr, i)) = i
    BY <2>1, MinIsLeast
  <2> QED
    BY <1>3, <2>1, <2>2 DEF FirstFrom, ScanBody
<1>4. CASE i <= n /\ addr[1] \notin Unresolved /\ ~RuleContains(rules[i], addr[1], addr[2])
  <2>1. MatchesFrom(rules, addr, i) = MatchesFrom(rules, addr, i + 1)
    BY <1>4 DEF MatchesFrom
  <2>2. ScanBody(rules, addr, FirstFromFcn(rules, addr), i) = FirstFrom(rules, addr, i + 1)
    BY <1>4 DEF ScanBody, FirstFromFcn
  <2>3. CASE i + 1 > n
    <3>1. MatchesFrom(rules, addr, i + 1) = {}
      BY <2>3 DEF MatchesFrom
    <3> QED
      BY <1>4, <2>1, <2>2, <2>3, <3>1 DEF FirstFrom
  <2>4. CASE i + 1 <= n
    BY <1>4, <2>1, <2>2, <2>4 DEF FirstFrom
  <2> QED
    BY <2>3, <2>4
<1> QED
  BY <1>1, <1>2, <1>3, <1>4

\* FirstFrom, as a function of the index, solves the scan's equation, so
\* the CHOOSE in Evaluate picks a solution.
LEMMA ScanExists ==
    ASSUME NEW rules \in Seq(Rule), NEW addr
    PROVE  ScanEq(rules, addr, FirstFromFcn(rules, addr))
<1> DEFINE g == FirstFromFcn(rules, addr)
           D == 1 .. (Len(rules) + 1)
<1>1. g = [i \in D |-> FirstFrom(rules, addr, i)]
  BY DEF FirstFromFcn
<1>2. \A i \in D : g[i] = ScanBody(rules, addr, g, i)
  BY <1>1, FirstFromStep
<1> QED
  BY <1>1, <1>2 DEF ScanEq

\* Every solution of the scan's equation is FirstFrom: at the last index
\* where one differed, the next index would agree, and one iteration of
\* the loop would make them agree there too.
LEMMA ScanUnique ==
    ASSUME NEW rules \in Seq(Rule), NEW addr, NEW f, ScanEq(rules, addr, f)
    PROVE  \A i \in 1 .. (Len(rules) + 1) : f[i] = FirstFrom(rules, addr, i)
<1> DEFINE n == Len(rules) + 1
           g == FirstFromFcn(rules, addr)
           Bad == {d \in 0 .. (n - 1) : f[n - d] # FirstFrom(rules, addr, n - d)}
<1>1. SUFFICES ASSUME Bad # {} PROVE FALSE
  <2>1. ASSUME NEW i \in 1 .. n, f[i] # FirstFrom(rules, addr, i) PROVE FALSE
    <3>1. n - i \in Bad
      BY <2>1
    <3> QED
      BY <1>1, <3>1
  <2> QED
    BY <2>1
<1>2. PICK d \in Bad : \A e \in Bad : d <= e
  <2>1. Bad \in SUBSET Nat
    OBVIOUS
  <2> QED
    BY <1>1, <2>1, NatHasLeast
<1> DEFINE i == n - d
<1>3. i \in 1 .. n /\ f[i] # FirstFrom(rules, addr, i)
  BY <1>2
<1>4. f[i] = ScanBody(rules, addr, f, i)
  BY <1>3 DEF ScanEq
<1>5. CASE d = 0
  BY <1>3, <1>4, <1>5 DEF ScanBody, FirstFrom
<1>6. CASE d # 0
  <2>1. d - 1 \notin Bad
    <3>1. d \in Nat
      BY <1>2
    <3>2. d - 1 \in Bad => d <= d - 1
      BY <1>2
    <3> QED
      BY <1>6, <3>1, <3>2
  <2>2. i + 1 \in 1 .. n /\ f[i + 1] = FirstFrom(rules, addr, i + 1)
    <3>1. d - 1 \in 0 .. (n - 1) /\ i + 1 = n - (d - 1)
      BY <1>2, <1>6
    <3>2. f[n - (d - 1)] = FirstFrom(rules, addr, n - (d - 1))
      BY <2>1, <3>1
    <3> QED
      BY <3>1, <3>2
  <2>3. g[i + 1] = FirstFrom(rules, addr, i + 1)
    BY <2>2 DEF FirstFromFcn
  <2>4. ScanBody(rules, addr, f, i) = ScanBody(rules, addr, g, i)
    BY <1>3, <1>6, <2>2, <2>3 DEF ScanBody
  <2>5. FirstFrom(rules, addr, i) = ScanBody(rules, addr, g, i)
    BY <1>3, FirstFromStep
  <2> QED
    BY <1>3, <1>4, <2>4, <2>5
<1> QED
  BY <1>5, <1>6

\* The for loop of read and write computes the reference outcome: first
\* match wins, default deny, and the address error only for a non-empty
\* list.
LEMMA EvaluateRef ==
    ASSUME NEW rules \in Seq(Rule), NEW addr
    PROVE  Evaluate(rules, addr) = RefOutcome(rules, addr)
<1> DEFINE sc == CHOOSE f : ScanEq(rules, addr, f)
           I == {i \in 1 .. Len(rules) : RuleContains(rules[i], addr[1], addr[2])}
<1>1. ScanEq(rules, addr, sc)
  <2>1. \E f : ScanEq(rules, addr, f)
    BY ScanExists
  <2> QED
    BY <2>1
<1>2. Evaluate(rules, addr) = FirstFrom(rules, addr, 1)
  <2>1. 1 \in 1 .. (Len(rules) + 1)
    OBVIOUS
  <2> QED
    BY <1>1, <2>1, ScanUnique, EvaluateIsScan
<1>3. MatchesFrom(rules, addr, 1) = I
  BY DEF MatchesFrom
<1>4. DecisiveRule(rules, addr) = IF I # {} THEN Min(I) ELSE 0
  BY DEF DecisiveRule, SelectInSeq
<1>5. CASE Len(rules) = 0
  <2>1. rules = << >> /\ I = {}
    BY <1>5
  <2> QED
    BY <1>2, <1>4, <1>5, <2>1 DEF FirstFrom, RefOutcome
<1>6. CASE Len(rules) # 0 /\ addr[1] \in Unresolved
  <2>1. rules # << >>
    BY <1>6
  <2> QED
    BY <1>2, <1>6, <2>1 DEF FirstFrom, RefOutcome
<1>7. CASE Len(rules) # 0 /\ addr[1] \notin Unresolved /\ I = {}
  BY <1>2, <1>3, <1>4, <1>7 DEF FirstFrom, RefOutcome
<1>8. CASE Len(rules) # 0 /\ addr[1] \notin Unresolved /\ I # {}
  <2>1. Min(I) \in I
    <3>1. I \in SUBSET Nat
      OBVIOUS
    <3> QED
      BY <1>8, <3>1, MinIsLeast
  <2>2. DecisiveRule(rules, addr) = Min(I) /\ Min(I) # 0
    BY <1>4, <1>8, <2>1
  <2>3. ~(1 > Len(rules)) /\ rules # << >>
    BY <1>8
  <2>4. FirstFrom(rules, addr, 1) =
          IF rules[Min(I)].action = "Allow" THEN "Ok" ELSE "FirewallDenied"
    BY <1>3, <1>8, <2>3 DEF FirstFrom
  <2>5. RefOutcome(rules, addr) =
          IF rules[Min(I)].action = "Allow" THEN "Ok" ELSE "FirewallDenied"
    BY <1>8, <2>2, <2>3 DEF RefOutcome
  <2> QED
    BY <1>2, <2>4, <2>5
<1> QED
  BY <1>5, <1>6, <1>7, <1>8

-----------------------------------------------------------------------------
(* The filter.                                                             *)

\* Every rule list the configuration can give is a sequence of rules.
LEMMA RuleListsAreSeqs == RuleLists \subseteq Seq(Rule)
BY DEF RuleLists, BoundedSeq, SeqOf

\* The inductive invariant: the lists are those Firewall::new built, and
\* the last outcome is what the loop over the list of its direction gave
\* for its source.
FWInv ==
    /\ onRead \in RuleLists
    /\ onWrite \in RuleLists
    /\ event \in {"none", "read", "write"}
    /\ event # "none" =>
          outcome = Evaluate(IF event = "read" THEN onRead ELSE onWrite, source)

LEMMA FWInvInit == Init => FWInv
BY DEF Init, FWInv

LEMMA FWInvStep == FWInv /\ [Next]_vars => FWInv'
<1> SUFFICES ASSUME FWInv, [Next]_vars PROVE FWInv'
  OBVIOUS
<1>1. ASSUME NEW addr \in Addresses, Read(addr) PROVE FWInv'
  BY <1>1 DEF Read, FWInv
<1>2. ASSUME NEW addr \in Addresses, Write(addr) PROVE FWInv'
  BY <1>2 DEF Write, FWInv
<1>3. CASE UNCHANGED vars
  BY <1>3 DEF vars, FWInv
<1> QED
  BY <1>1, <1>2, <1>3 DEF Next

\* FirstMatchDecides for every value of the constants: whatever rule lists
\* the configuration gives (of any length) and whatever sources arrive,
\* every datagram filtered by Firewall::read or Firewall::write gets the
\* action of the first rule of its list that contains the source,
\* FirewallDenied when no rule does, and the address error only when the
\* list is not empty.
THEOREM FirstMatch == Spec => []FirstMatchDecides
<1>1. FWInv => FirstMatchDecides
  <2> SUFFICES ASSUME FWInv, event # "none" PROVE FirstMatchDecides
    BY DEF FirstMatchDecides
  <2>1. (IF event = "read" THEN onRead ELSE onWrite) \in Seq(Rule)
    BY RuleListsAreSeqs DEF FWInv
  <2> QED
    BY <2>1, EvaluateRef DEF FWInv, FirstMatchDecides
<1> QED
  BY <1>1, FWInvInit, FWInvStep, PTL DEF Spec

=============================================================================
