--------------------------- MODULE CanonicalProofs ---------------------------
(***************************************************************************)
(* The comparison proved right for documents and rulesets of any length.   *)
(* The server's echo means what it stores; what compares equal means the   *)
(* same; and what means the same compares equal, unless an array repeats   *)
(* an element.                                                             *)
(***************************************************************************)
EXTENDS Canonical, FunctionTheorems, FiniteSetTheorems, TLAPS

\* Every document that can be in the playbook, on the server or in an answer.
AnyStatements ==
  [Action : Seq(Names), Resource : Seq(Names), Sid : Optional, Condition : Optional]
AnyPolicies == [kind : {"policy"}, ID : Optional, Statement : Seq(AnyStatements)]
AnyDates    == {Absent} \cup [form : Forms, at : Instants]
Contents    == [Prefix : Optional, Filter : Optional, Date : AnyDates]
AnyRules    == [ID : Optional \cup Contents, Prefix : Optional,
                Filter : Optional \cup {"emptyPrefix"}, Date : AnyDates]
AnyRulesets == [kind : {"rules"}, Rule : Seq(AnyRules)]

Unrepeating(d) == d.kind = "policy" =>
  \A i \in DOMAIN d.Statement :
    IsInjective(d.Statement[i].Action) /\ IsInjective(d.Statement[i].Resource)

\* No Filter of the ruleset d holds a Prefix.
Unfiltered(d) == \A i \in DOMAIN d.Rule : d.Rule[i].Filter # Text

\* What is on the server and what it answers: other forms, the same meaning.
EchoInv ==
  /\ \/ {doc, stored, echo} \subseteq AnyPolicies
     \/ {doc, stored, echo} \subseteq AnyRulesets
  /\ Repeats \/ Unrepeating(doc)
  /\ Unrepeating(echo)
  /\ Meaning(echo) = Meaning(stored)
  /\ drops /\ stored.kind = "rules" => Unfiltered(stored)
-----------------------------------------------------------------------------
\* Where a and b have the same element, c and d have.
Follow(a, b, c, d) ==
  /\ \E m \in Nat : DOMAIN a = 1..m /\ DOMAIN c = 1..m
  /\ \E n \in Nat : DOMAIN b = 1..n /\ DOMAIN d = 1..n
  /\ \A i \in DOMAIN a, j \in DOMAIN b : a[i] = b[j] => c[i] = d[j]

\* Two sequences have equal bags when their elements follow those of two others
\* that have: the elements can be paired off, and the pairing carries over.
LEMMA BagsFollow ==
  ASSUME NEW a, NEW b, NEW c, NEW d, Follow(a, b, c, d), Bag(a) = Bag(b)
  PROVE  Bag(c) = Bag(d)
<1>1. PICK m \in Nat : DOMAIN a = 1..m /\ DOMAIN c = 1..m
  BY DEF Follow
<1>2. PICK n \in Nat : DOMAIN b = 1..n /\ DOMAIN d = 1..n
  BY DEF Follow
<1>3. \A i \in 1..m, j \in 1..n : a[i] = b[j] => c[i] = d[j]
  BY <1>1, <1>2 DEF Follow
<1> USE <1>1, <1>2, <1>3
<1> DEFINE I(y) == {i \in 1..m : a[i] = y}
           J(y) == {j \in 1..n : b[j] = y}
<1>4. ToSet(a) = ToSet(b)
  <2>1. DOMAIN Bag(a) = ToSet(a) /\ DOMAIN Bag(b) = ToSet(b)
    BY DEF Bag
  <2>2. QED
    BY <2>1
<1>5. ASSUME NEW y \in ToSet(a)
      PROVE  Bijection(I(y), J(y)) # {}
  <2>1. Cardinality(I(y)) = Cardinality(J(y))
    <3>1. Bag(a)[y] = Cardinality(I(y)) /\ Bag(b)[y] = Cardinality(J(y))
      BY <1>4 DEF Bag
    <3>2. QED
      BY <3>1
  <2>2. IsFiniteSet(1..m) /\ IsFiniteSet(1..n)
    BY FS_Interval
  <2>3. IsFiniteSet(I(y)) /\ IsFiniteSet(J(y))
    <3>1. I(y) \in SUBSET (1..m) /\ J(y) \in SUBSET (1..n)
      OBVIOUS
    <3>2. QED
      BY <3>1, <2>2, FS_Subset
  <2>4. ExistsBijection(I(y), J(y))
    BY <2>1, <2>3, FS_SameCardinalityBij
  <2>5. QED
    BY <2>4 DEF ExistsBijection
<1> DEFINE f == [y \in ToSet(a) |-> CHOOSE g : g \in Bijection(I(y), J(y))]
           p == [i \in 1..m |-> f[a[i]][i]]
<1>6. ASSUME NEW y \in ToSet(a)
      PROVE  f[y] \in Bijection(I(y), J(y))
  BY <1>5
<1>7. ASSUME NEW y \in ToSet(a)
      PROVE  /\ \A i \in I(y) : f[y][i] \in J(y)
             /\ \A i, k \in I(y) : f[y][i] = f[y][k] => i = k
             /\ \A j \in J(y) : \E i \in I(y) : f[y][i] = j
  <2> HIDE DEF f
  <2>1. f[y] \in Injection(I(y), J(y)) /\ f[y] \in Surjection(I(y), J(y))
    BY <1>6 DEF Bijection
  <2>2. QED
    BY <2>1 DEF Injection, IsInjective, Surjection
<1> HIDE DEF f
<1>8. ASSUME NEW i \in 1..m
      PROVE  a[i] \in ToSet(a) /\ i \in I(a[i])
  BY DEF ToSet
<1>9. ASSUME NEW i \in 1..m
      PROVE  p[i] \in 1..n /\ b[p[i]] = a[i] /\ d[p[i]] = c[i]
  <2>1. p[i] \in J(a[i])
    BY <1>7, <1>8
  <2>2. QED
    BY <2>1
<1>10. ASSUME NEW i \in 1..m, NEW k \in 1..m, p[i] = p[k]
      PROVE  i = k
  <2>1. a[i] = a[k]
    BY <1>9, <1>10
  <2>2. f[a[i]][i] = f[a[i]][k]
    BY <1>10, <2>1
  <2>3. QED
    BY <2>1, <2>2, <1>7, <1>8
<1>11. ASSUME NEW j \in 1..n
      PROVE  \E i \in 1..m : p[i] = j
  <2>1. b[j] \in ToSet(a) /\ j \in J(b[j])
    BY <1>4 DEF ToSet
  <2>2. PICK i \in I(b[j]) : f[b[j]][i] = j
    BY <1>7, <2>1
  <2>3. QED
    BY <2>2
<1>12. p \in [1..m -> 1..n]
  BY <1>9
<1> HIDE DEF p
<1>13. ToSet(c) = ToSet(d)
  <2>1. ASSUME NEW i \in 1..m
        PROVE  c[i] \in ToSet(d)
    BY <1>9 DEF ToSet
  <2>2. ASSUME NEW j \in 1..n
        PROVE  d[j] \in ToSet(c)
    <3>1. PICK i \in 1..m : p[i] = j
      BY <1>11
    <3>2. d[j] = c[i]
      BY <3>1, <1>9
    <3>3. QED
      BY <3>2 DEF ToSet
  <2>3. QED
    BY <2>1, <2>2 DEF ToSet
<1>14. ASSUME NEW x \in ToSet(c)
       PROVE  Cardinality({i \in 1..m : c[i] = x}) = Cardinality({j \in 1..n : d[j] = x})
  <2> DEFINE K == {i \in 1..m : c[i] = x}
             L == {j \in 1..n : d[j] = x}
             q == [i \in K |-> p[i]]
  <2>1. q \in Injection(K, L)
    BY <1>9, <1>10, <1>12 DEF Injection, IsInjective
  <2>2. q \in Surjection(K, L)
    BY <1>9, <1>11, <1>12 DEF Surjection
  <2>3. ExistsBijection(K, L)
    BY <2>1, <2>2 DEF ExistsBijection, Bijection
  <2>4. IsFiniteSet(K)
    BY FS_Interval, FS_Subset
  <2>5. QED
    BY <2>3, <2>4, FS_Bijection
<1>15. QED
  BY <1>13, <1>14 DEF Bag

\* An array that names nothing twice is its set.
LEMMA BagOfSet ==
  ASSUME NEW a \in Seq(Names), NEW b \in Seq(Names),
         IsInjective(a), IsInjective(b), ToSet(a) = ToSet(b)
  PROVE  Bag(a) = Bag(b)
<1>1. ASSUME NEW s \in Seq(Names), IsInjective(s), NEW x \in ToSet(s)
      PROVE  Cardinality({i \in DOMAIN s : s[i] = x}) = 1
  <2>1. PICK i \in DOMAIN s : s[i] = x
    BY DEF ToSet
  <2>2. {k \in DOMAIN s : s[k] = x} = {i}
    BY <2>1, <1>1 DEF IsInjective
  <2>3. QED
    BY <2>2, FS_Singleton
<1>2. QED
  BY <1>1 DEF Bag

LEMMA BagHasSet ==
  ASSUME NEW a, NEW b, Bag(a) = Bag(b)
  PROVE  ToSet(a) = ToSet(b)
<1>1. DOMAIN Bag(a) = ToSet(a) /\ DOMAIN Bag(b) = ToSet(b)
  BY DEF Bag
<1>2. QED
  BY <1>1

\* An echoed array holds what the one that was put holds, each once.
LEMMA EchoedArray ==
  ASSUME NEW a \in Seq(Names), NEW b \in SetToSeqs(ToSet(a))
  PROVE  b \in Seq(Names) /\ IsInjective(b) /\ ToSet(b) = ToSet(a)
<1> DEFINE S == ToSet(a)
           n == Cardinality(S)
<1>1. IsFiniteSet(S)
  <2>1. a \in Surjection(1..Len(a), S)
    BY DEF Surjection, ToSet
  <2>2. IsFiniteSet(1..Len(a))
    BY FS_Interval
  <2>3. QED
    BY <2>1, <2>2, FS_Surjection
<1>2. n \in Nat
  BY <1>1, FS_CardinalityType
<1>3. b \in [1..n -> S] /\ \A i, j \in 1..n : i # j => b[i] # b[j]
  BY DEF SetToSeqs
<1>4. S \subseteq Names
  BY DEF ToSet
<1>5. b \in Injection(1..n, S)
  BY <1>3 DEF Injection, IsInjective
<1>6. Cardinality(1..n) = n
  BY <1>2, FS_Interval
<1>7. b \in Surjection(1..n, S)
  BY <1>1, <1>5, <1>6, FS_Injection
<1>8. ToSet(b) = S
  BY <1>3, <1>7 DEF Surjection, ToSet
<1>9. b \in Seq(Names)
  BY <1>2, <1>3, <1>4
<1>10. QED
  BY <1>5, <1>8, <1>9 DEF Injection
-----------------------------------------------------------------------------
\* One field, one statement, one rule: what the canonical form keeps is what it
\* says.
LEMMA GivenSays ==
  ASSUME NEW x \in Optional, NEW y \in Optional
  PROVE  /\ Given(x) = Given(y) <=> (x = Text <=> y = Text)
         /\ Given(Injected(x)) = Given(x)
         /\ Injected(x) \in Optional /\ (Injected(x) = Text <=> x = Text)
         /\ Given(x) \in Optional /\ (Given(x) = Text <=> x = Text)
BY CanonicalAssumption DEF Given, Injected, Optional

LEMMA StatementSays ==
  ASSUME NEW s \in AnyStatements, NEW t \in AnyStatements,
         CanonicalStatement(s) = CanonicalStatement(t)
  PROVE  StatementMeaning(s) = StatementMeaning(t)
<1>1. /\ Bag(s.Action) = Bag(t.Action) /\ Bag(s.Resource) = Bag(t.Resource)
      /\ Given(s.Sid) = Given(t.Sid) /\ Given(s.Condition) = Given(t.Condition)
  BY DEF CanonicalStatement
<1>2. ToSet(s.Action) = ToSet(t.Action) /\ ToSet(s.Resource) = ToSet(t.Resource)
  BY <1>1, BagHasSet
<1>3. (s.Sid = Text <=> t.Sid = Text) /\ (s.Condition = Text <=> t.Condition = Text)
  BY <1>1, GivenSays DEF AnyStatements
<1>4. QED
  BY <1>2, <1>3, Zenon DEF StatementMeaning

LEMMA StatementKept ==
  ASSUME NEW s \in AnyStatements, NEW t \in AnyStatements,
         IsInjective(s.Action), IsInjective(s.Resource),
         IsInjective(t.Action), IsInjective(t.Resource),
         StatementMeaning(s) = StatementMeaning(t)
  PROVE  CanonicalStatement(s) = CanonicalStatement(t)
<1>1. /\ ToSet(s.Action) = ToSet(t.Action) /\ ToSet(s.Resource) = ToSet(t.Resource)
      /\ (s.Sid = Text) = (t.Sid = Text) /\ (s.Condition = Text) = (t.Condition = Text)
  BY DEF StatementMeaning
<1>2. Bag(s.Action) = Bag(t.Action) /\ Bag(s.Resource) = Bag(t.Resource)
  BY <1>1, BagOfSet DEF AnyStatements
<1>3. Given(s.Sid) = Given(t.Sid) /\ Given(s.Condition) = Given(t.Condition)
  BY <1>1, GivenSays DEF AnyStatements
<1>4. QED
  BY <1>2, <1>3 DEF CanonicalStatement

LEMMA StatementEchoed ==
  ASSUME NEW s \in AnyStatements, NEW e \in StatementEchoes(s)
  PROVE  /\ e \in AnyStatements
         /\ IsInjective(e.Action) /\ IsInjective(e.Resource)
         /\ StatementMeaning(e) = StatementMeaning(s)
<1>1. /\ e.Action \in SetToSeqs(ToSet(s.Action)) /\ e.Resource \in SetToSeqs(ToSet(s.Resource))
      /\ e.Sid = Injected(s.Sid) /\ e.Condition = Injected(s.Condition)
      /\ e = [Action |-> e.Action, Resource |-> e.Resource, Sid |-> e.Sid, Condition |-> e.Condition]
  BY DEF StatementEchoes
<1>2. /\ e.Action \in Seq(Names) /\ IsInjective(e.Action) /\ ToSet(e.Action) = ToSet(s.Action)
      /\ e.Resource \in Seq(Names) /\ IsInjective(e.Resource) /\ ToSet(e.Resource) = ToSet(s.Resource)
  BY <1>1, EchoedArray DEF AnyStatements
<1>3. /\ e.Sid \in Optional /\ (e.Sid = Text <=> s.Sid = Text)
      /\ e.Condition \in Optional /\ (e.Condition = Text <=> s.Condition = Text)
  BY <1>1, GivenSays DEF AnyStatements
<1>4. e \in AnyStatements
  BY <1>1, <1>2, <1>3 DEF AnyStatements
<1>5. StatementMeaning(e) = StatementMeaning(s)
  BY <1>2, <1>3, Zenon DEF StatementMeaning
<1>6. QED
  BY <1>2, <1>4, <1>5

\* A date means its instant, whatever its form.
LEMMA DateSays ==
  ASSUME NEW x \in AnyDates, NEW y \in AnyDates
  PROVE  CanonicalDate(x) = CanonicalDate(y)
           <=> (IF x = Absent THEN {} ELSE {x.at}) = (IF y = Absent THEN {} ELSE {y.at})
<1>1. ASSUME NEW z \in AnyDates, z # Absent
      PROVE  CanonicalDate(z) = [form |-> "timestamp", at |-> z.at]
  BY <1>1 DEF CanonicalDate, AnyDates
<1>2. ASSUME NEW z \in AnyDates, z # Absent
      PROVE  CanonicalDate(z) # Absent
  <2>1. z.at \in Instants
    BY <1>2 DEF AnyDates
  <2>2. CanonicalDate(z) \in [form : Forms, at : Instants]
    BY <2>1, <1>1, <1>2 DEF Forms
  <2>3. QED
    BY <2>2, CanonicalAssumption
<1>3. CASE x = Absent \/ y = Absent
  BY <1>3, <1>2 DEF CanonicalDate
<1>4. CASE x # Absent /\ y # Absent
  BY <1>4, <1>1
<1>5. QED
  BY <1>3, <1>4

LEMMA FilterSays ==
  ASSUME NEW x \in Optional \cup {"emptyPrefix"}, NEW y \in Optional \cup {"emptyPrefix"}
  PROVE  (IF x = "emptyPrefix" THEN Absent ELSE Given(x))
           = (IF y = "emptyPrefix" THEN Absent ELSE Given(y)) <=> (x = Text <=> y = Text)
BY CanonicalAssumption DEF Given, Optional

LEMMA RuleSays ==
  ASSUME NEW r \in AnyRules, NEW s \in AnyRules
  PROVE  CanonicalRule(r) = CanonicalRule(s) <=> RuleMeaning(r) = RuleMeaning(s)
<1> DEFINE Scope(x) == IF x.Filter = "emptyPrefix" THEN Absent ELSE Given(x.Filter)
           When(x)  == IF x.Date = Absent THEN {} ELSE {x.Date.at}
<1>1. CanonicalRule(r) = CanonicalRule(s) <=>
        /\ Given(r.Prefix) = Given(s.Prefix) /\ Scope(r) = Scope(s)
        /\ CanonicalDate(r.Date) = CanonicalDate(s.Date)
  BY DEF CanonicalRule
<1>2. RuleMeaning(r) = RuleMeaning(s) <=>
        /\ (r.Prefix = Text) = (s.Prefix = Text) /\ (r.Filter = Text) = (s.Filter = Text)
        /\ When(r) = When(s)
  BY DEF RuleMeaning
<1>3. Given(r.Prefix) = Given(s.Prefix) <=> (r.Prefix = Text <=> s.Prefix = Text)
  BY GivenSays DEF AnyRules
<1>4. Scope(r) = Scope(s) <=> (r.Filter = Text <=> s.Filter = Text)
  BY FilterSays DEF AnyRules
<1>5. CanonicalDate(r.Date) = CanonicalDate(s.Date) <=> When(r) = When(s)
  BY DateSays DEF AnyRules
<1>6. QED
  BY <1>1, <1>2, <1>3, <1>4, <1>5, Zenon

LEMMA RuleEchoed ==
  ASSUME NEW r \in AnyRules
  PROVE  RuleEcho(r) \in AnyRules /\ RuleMeaning(RuleEcho(r)) = RuleMeaning(r)
<1> DEFINE e == RuleEcho(r)
<1>1. /\ r.ID \in Optional \cup Contents /\ r.Prefix \in Optional
      /\ r.Filter \in Optional \cup {"emptyPrefix"} /\ r.Date \in AnyDates
      /\ DOMAIN r = {"ID", "Prefix", "Filter", "Date"}
  BY DEF AnyRules
<1>2. /\ DOMAIN e = DOMAIN r /\ e = [f \in DOMAIN e |-> e[f]]
      /\ e.ID = r.ID /\ e.Prefix = Given(r.Prefix)
      /\ e.Filter = IF r.Filter = "emptyPrefix" THEN Absent ELSE Given(r.Filter)
      /\ e.Date = IF r.Date = Absent THEN r.Date ELSE [r.Date EXCEPT !.form = "datetime"]
  BY <1>1 DEF RuleEcho
<1> HIDE DEF e
<1>3. e.Prefix \in Optional /\ (e.Prefix = Text <=> r.Prefix = Text)
  BY <1>1, <1>2, GivenSays
<1>4. e.Filter \in Optional /\ (e.Filter = Text <=> r.Filter = Text)
  BY <1>1, <1>2, CanonicalAssumption DEF Given, Optional
<1>5. /\ e.Date \in AnyDates
      /\ (IF e.Date = Absent THEN {} ELSE {e.Date.at}) = IF r.Date = Absent THEN {} ELSE {r.Date.at}
  <2>1. CASE r.Date = Absent
    BY <2>1, <1>1, <1>2
  <2>2. CASE r.Date # Absent
    <3>1. r.Date \in [form : Forms, at : Instants]
      BY <2>2, <1>1 DEF AnyDates
    <3>2. e.Date \in [form : Forms, at : Instants] /\ e.Date.at = r.Date.at
      BY <3>1, <2>2, <1>2 DEF Forms
    <3>3. QED
      BY <3>2, <2>2, CanonicalAssumption DEF AnyDates
  <2>3. QED
    BY <2>1, <2>2
<1>6. e \in AnyRules
  BY <1>1, <1>2, <1>3, <1>4, <1>5 DEF AnyRules
<1>7. RuleMeaning(e) = RuleMeaning(r)
  BY <1>3, <1>4, <1>5, Zenon DEF RuleMeaning
<1>8. QED
  BY <1>6, <1>7 DEF e
-----------------------------------------------------------------------------
\* The same of whole documents.
LEMMA PolicySays ==
  ASSUME NEW d \in AnyPolicies, NEW e \in AnyPolicies,
         canonical_policy(d) = canonical_policy(e)
  PROVE  Meaning(d) = Meaning(e)
<1> DEFINE a == Each(CanonicalStatement, d.Statement)  b == Each(CanonicalStatement, e.Statement)
           c == Each(StatementMeaning, d.Statement)    f == Each(StatementMeaning, e.Statement)
           m == Len(d.Statement)                       n == Len(e.Statement)
<1>1. m \in Nat /\ n \in Nat /\ d.Statement \in Seq(AnyStatements) /\ e.Statement \in Seq(AnyStatements)
  BY DEF AnyPolicies
<1>2. DOMAIN a = 1..m /\ DOMAIN c = 1..m /\ DOMAIN b = 1..n /\ DOMAIN f = 1..n
  BY <1>1 DEF Each
<1>3. Given(d.ID) = Given(e.ID) /\ Bag(a) = Bag(b)
  BY DEF canonical_policy
<1>4. ASSUME NEW i \in 1..m, NEW j \in 1..n, a[i] = b[j]
      PROVE  c[i] = f[j]
  <2>1. d.Statement[i] \in AnyStatements /\ e.Statement[j] \in AnyStatements
    BY <1>1
  <2>2. CanonicalStatement(d.Statement[i]) = CanonicalStatement(e.Statement[j])
    BY <1>1, <1>4 DEF Each
  <2>3. QED
    BY <1>1, <2>1, <2>2, StatementSays DEF Each
<1>5. Follow(a, b, c, f)
  BY <1>1, <1>2, <1>4 DEF Follow
<1> HIDE DEF a, b, c, f, m, n
<1>6. Bag(c) = Bag(f)
  BY <1>3, <1>5, BagsFollow
<1>7. d.ID = Text <=> e.ID = Text
  BY <1>3, GivenSays DEF AnyPolicies
<1>8. d.kind = "policy" /\ e.kind = "policy"
  BY DEF AnyPolicies
<1>9. QED
  BY <1>6, <1>7, <1>8, Zenon DEF Meaning, c, f

LEMMA PolicyKept ==
  ASSUME NEW d \in AnyPolicies, NEW e \in AnyPolicies,
         Unrepeating(d), Unrepeating(e), Meaning(d) = Meaning(e)
  PROVE  canonical_policy(d) = canonical_policy(e)
<1> DEFINE a == Each(StatementMeaning, d.Statement)    b == Each(StatementMeaning, e.Statement)
           c == Each(CanonicalStatement, d.Statement)  f == Each(CanonicalStatement, e.Statement)
           m == Len(d.Statement)                       n == Len(e.Statement)
<1>1. m \in Nat /\ n \in Nat /\ d.Statement \in Seq(AnyStatements) /\ e.Statement \in Seq(AnyStatements)
  BY DEF AnyPolicies
<1>2. DOMAIN a = 1..m /\ DOMAIN c = 1..m /\ DOMAIN b = 1..n /\ DOMAIN f = 1..n
  BY <1>1 DEF Each
<1>3. d.kind = "policy" /\ e.kind = "policy"
  BY DEF AnyPolicies
<1>4. (d.ID = Text) = (e.ID = Text) /\ Bag(a) = Bag(b)
  BY <1>3 DEF Meaning
<1>5. ASSUME NEW i \in 1..m, NEW j \in 1..n, a[i] = b[j]
      PROVE  c[i] = f[j]
  <2>1. d.Statement[i] \in AnyStatements /\ e.Statement[j] \in AnyStatements
    BY <1>1
  <2>2. StatementMeaning(d.Statement[i]) = StatementMeaning(e.Statement[j])
    BY <1>1, <1>5 DEF Each
  <2>3. /\ IsInjective(d.Statement[i].Action) /\ IsInjective(d.Statement[i].Resource)
        /\ IsInjective(e.Statement[j].Action) /\ IsInjective(e.Statement[j].Resource)
    BY <1>1, <1>3 DEF Unrepeating
  <2>4. QED
    BY <1>1, <2>1, <2>2, <2>3, StatementKept DEF Each
<1>6. Follow(a, b, c, f)
  BY <1>1, <1>2, <1>5 DEF Follow
<1> HIDE DEF a, b, c, f, m, n
<1>7. Bag(c) = Bag(f)
  BY <1>4, <1>6, BagsFollow
<1>8. Given(d.ID) = Given(e.ID)
  BY <1>4, GivenSays DEF AnyPolicies
<1>9. QED
  BY <1>7, <1>8 DEF canonical_policy, c, f

LEMMA RulesSay ==
  ASSUME NEW d \in AnyRulesets, NEW e \in AnyRulesets
  PROVE  canonical_lifecycle_rules(d) = canonical_lifecycle_rules(e) <=> Meaning(d) = Meaning(e)
<1> DEFINE a == Each(CanonicalRule, d.Rule)  b == Each(CanonicalRule, e.Rule)
           c == Each(RuleMeaning, d.Rule)    f == Each(RuleMeaning, e.Rule)
           m == Len(d.Rule)                  n == Len(e.Rule)
<1>1. m \in Nat /\ n \in Nat /\ d.Rule \in Seq(AnyRules) /\ e.Rule \in Seq(AnyRules)
  BY DEF AnyRulesets
<1>2. DOMAIN a = 1..m /\ DOMAIN c = 1..m /\ DOMAIN b = 1..n /\ DOMAIN f = 1..n
  BY <1>1 DEF Each
<1>3. ASSUME NEW i \in 1..m, NEW j \in 1..n
      PROVE  a[i] = b[j] <=> c[i] = f[j]
  <2>1. d.Rule[i] \in AnyRules /\ e.Rule[j] \in AnyRules
    BY <1>1
  <2>2. /\ a[i] = CanonicalRule(d.Rule[i]) /\ b[j] = CanonicalRule(e.Rule[j])
        /\ c[i] = RuleMeaning(d.Rule[i]) /\ f[j] = RuleMeaning(e.Rule[j])
    BY <1>1 DEF Each
  <2>3. QED
    BY <2>1, <2>2, RuleSays
<1>4. /\ canonical_lifecycle_rules(d) = Bag(a) /\ canonical_lifecycle_rules(e) = Bag(b)
      /\ Meaning(d) = Bag(c) /\ Meaning(e) = Bag(f)
  BY DEF canonical_lifecycle_rules, Meaning, AnyRulesets
<1>5. Follow(a, b, c, f) /\ Follow(c, f, a, b)
  BY <1>1, <1>2, <1>3 DEF Follow
<1> HIDE DEF a, b, c, f, m, n
<1>6. Bag(a) = Bag(b) => Bag(c) = Bag(f)
  BY <1>5, BagsFollow
<1>7. Bag(c) = Bag(f) => Bag(a) = Bag(b)
  BY <1>5, BagsFollow
<1>8. QED
  BY <1>4, <1>6, <1>7

\* The server answers with the meaning it was given.
LEMMA PolicyEchoed ==
  ASSUME NEW d \in AnyPolicies, NEW e \in Echoes(d)
  PROVE  e \in AnyPolicies /\ Unrepeating(e) /\ Meaning(e) = Meaning(d)
<1>1. /\ d.kind = "policy" /\ d.ID \in Optional /\ d.Statement \in Seq(AnyStatements)
      /\ d = [kind |-> d.kind, ID |-> d.ID, Statement |-> d.Statement]
  BY DEF AnyPolicies
<1>2. PICK t : /\ e = [d EXCEPT !.ID = Injected(@), !.Statement = t]
               /\ DOMAIN t = DOMAIN d.Statement /\ t = [i \in DOMAIN t |-> t[i]]
               /\ \A i \in DOMAIN t : t[i] \in StatementEchoes(d.Statement[i])
  BY <1>1 DEF Echoes
<1>3. e = [kind |-> "policy", ID |-> Injected(d.ID), Statement |-> t]
  BY <1>1, <1>2
<1>4. DOMAIN t = 1..Len(d.Statement) /\ Len(d.Statement) \in Nat
  BY <1>1, <1>2
<1>5. ASSUME NEW i \in DOMAIN t
      PROVE  /\ t[i] \in AnyStatements /\ IsInjective(t[i].Action) /\ IsInjective(t[i].Resource)
             /\ StatementMeaning(t[i]) = StatementMeaning(d.Statement[i])
  <2>1. d.Statement[i] \in AnyStatements
    BY <1>1, <1>2
  <2>2. QED
    BY <2>1, <1>2, StatementEchoed
<1>6. t \in Seq(AnyStatements)
  BY <1>2, <1>4, <1>5
<1>7. Injected(d.ID) \in Optional /\ (Injected(d.ID) = Text <=> d.ID = Text)
  BY <1>1, GivenSays
<1>8. e \in AnyPolicies /\ Unrepeating(e)
  BY <1>3, <1>5, <1>6, <1>7 DEF AnyPolicies, Unrepeating
<1>9. Each(StatementMeaning, t) = Each(StatementMeaning, d.Statement)
  BY <1>2, <1>5 DEF Each
<1>10. e.kind = "policy" /\ e.Statement = t /\ e.ID = Injected(d.ID)
  BY <1>3
<1>11. Meaning(e) = Meaning(d)
  BY <1>1, <1>7, <1>9, <1>10, Zenon DEF Meaning
<1>12. QED
  BY <1>8, <1>11

LEMMA RulesEchoed ==
  ASSUME NEW d \in AnyRulesets, NEW e \in Echoes(d)
  PROVE  e \in AnyRulesets /\ Unrepeating(e) /\ Meaning(e) = Meaning(d)
<1>1. /\ d.kind = "rules" /\ d.Rule \in Seq(AnyRules) /\ d = [kind |-> d.kind, Rule |-> d.Rule]
  BY DEF AnyRulesets
<1>2. e = [kind |-> "rules", Rule |-> Each(RuleEcho, d.Rule)]
  BY <1>1 DEF Echoes
<1>3. ASSUME NEW i \in DOMAIN d.Rule
      PROVE  RuleEcho(d.Rule[i]) \in AnyRules /\ RuleMeaning(RuleEcho(d.Rule[i])) = RuleMeaning(d.Rule[i])
  <2>1. d.Rule[i] \in AnyRules
    BY <1>1
  <2>2. QED
    BY <2>1, RuleEchoed
<1>4. Each(RuleEcho, d.Rule) \in Seq(AnyRules)
  <2>1. DOMAIN d.Rule = 1..Len(d.Rule) /\ Len(d.Rule) \in Nat
    BY <1>1
  <2>2. QED
    BY <1>3, <2>1 DEF Each
<1>5. Each(RuleMeaning, Each(RuleEcho, d.Rule)) = Each(RuleMeaning, d.Rule)
  BY <1>3 DEF Each
<1>6. e.kind = "rules" /\ e.Rule = Each(RuleEcho, d.Rule)
  BY <1>2
<1>7. Meaning(e) = Meaning(d)
  BY <1>1, <1>5, <1>6 DEF Meaning
<1>8. e \in AnyRulesets /\ Unrepeating(e)
  BY <1>2, <1>4 DEF AnyRulesets, Unrepeating
<1>9. QED
  BY <1>7, <1>8
-----------------------------------------------------------------------------
\* What is written by hand, and what a module makes of it.
LEMMA StatementsByHand ==
  ASSUME NEW s \in PlainStatements \cup Statements
  PROVE  /\ s \in AnyStatements
         /\ Repeats \/ (IsInjective(s.Action) /\ IsInjective(s.Resource))
<1>1. ASSUME NEW a \in Arrays
      PROVE  a \in Seq(Names) /\ (Repeats \/ IsInjective(a)) /\ a[1] \in Names
  <2>1. PICK n \in 1..MaxArray : a \in [1..n -> Names]
    BY DEF Arrays
  <2>2. n \in Nat /\ 1 \in 1..n
    BY CanonicalAssumption
  <2>3. QED
    BY <2>1, <2>2 DEF Arrays
<1>2. ASSUME NEW x \in Names
      PROVE  <<x>> \in Seq(Names) /\ IsInjective(<<x>>)
  BY DEF IsInjective
<1>3. CASE s \in PlainStatements
  <2>1. s.Action \in Arrays /\ s.Resource = <<CHOOSE n \in Names : TRUE>>
    BY <1>3 DEF PlainStatements
  <2>2. (CHOOSE n \in Names : TRUE) \in Names
    BY <2>1, <1>1
  <2>3. s.Resource \in Seq(Names) /\ IsInjective(s.Resource)
    BY <2>1, <2>2, <1>2
  <2>4. s \in AnyStatements
    BY <1>1, <1>3, <2>1, <2>3 DEF PlainStatements, AnyStatements, Optional
  <2>5. QED
    BY <1>1, <2>1, <2>3, <2>4
<1>4. CASE s \in Statements
  <2>1. s.Action \in Arrays /\ s.Resource \in Arrays
    BY <1>4 DEF Statements
  <2>2. s \in AnyStatements
    BY <1>1, <1>4, <2>1 DEF Statements, AnyStatements, Optional
  <2>3. QED
    BY <1>1, <2>1, <2>2
<1>5. QED
  BY <1>3, <1>4

LEMMA PoliciesByHand ==
  ASSUME NEW d \in Policies
  PROVE  d \in AnyPolicies /\ (Repeats \/ Unrepeating(d)) /\ Sent(d) = d
<1>1. /\ d.kind = "policy" /\ d.ID \in Optional
      /\ d = [kind |-> d.kind, ID |-> d.ID, Statement |-> d.Statement]
      /\ \/ d.Statement \in Lists(PlainStatements)
         \/ \E s \in Statements : d.Statement = <<s>>
  BY DEF Policies, Optional
<1>2. d.Statement \in Seq(PlainStatements \cup Statements)
  <2>1. CASE d.Statement \in Lists(PlainStatements)
    BY <2>1, CanonicalAssumption DEF Lists
  <2>2. CASE \E s \in Statements : d.Statement = <<s>>
    BY <2>2
  <2>3. QED
    BY <1>1, <2>1, <2>2
<1>3. ASSUME NEW i \in DOMAIN d.Statement
      PROVE  /\ d.Statement[i] \in AnyStatements
             /\ Repeats \/ (IsInjective(d.Statement[i].Action) /\ IsInjective(d.Statement[i].Resource))
  <2>1. d.Statement[i] \in PlainStatements \cup Statements
    BY <1>2
  <2>2. QED
    BY <2>1, StatementsByHand
<1>4. d.Statement \in Seq(AnyStatements)
  BY <1>2, <1>3
<1>5. QED
  BY <1>1, <1>3, <1>4 DEF AnyPolicies, Unrepeating, Sent

LEMMA RulesetsByHand ==
  ASSUME NEW d \in Rulesets
  PROVE  d \in AnyRulesets
<1>1. PlainRules \cup Rules \subseteq AnyRules
  BY DEF PlainRules, Rules, AnyRules, Dates, AnyDates, Optional, Forms
<1>2. /\ d.kind = "rules" /\ d = [kind |-> d.kind, Rule |-> d.Rule]
      /\ \/ d.Rule \in Lists(PlainRules)
         \/ \E r \in Rules : d.Rule = <<r>>
  BY DEF Rulesets
<1>3. d.Rule \in Seq(AnyRules)
  <2>1. CASE d.Rule \in Lists(PlainRules)
    BY <2>1, <1>1, CanonicalAssumption DEF Lists
  <2>2. CASE \E r \in Rules : d.Rule = <<r>>
    BY <2>2, <1>1
  <2>3. QED
    BY <1>2, <2>1, <2>2
<1>4. QED
  BY <1>2, <1>3 DEF AnyRulesets

LEMMA RulesetsSent ==
  ASSUME NEW d \in AnyRulesets
  PROVE  Sent(d) \in AnyRulesets
<1>1. /\ d.kind = "rules" /\ d.Rule \in Seq(AnyRules)
      /\ d = [kind |-> d.kind, Rule |-> d.Rule]
  BY DEF AnyRulesets
<1>2. Sent(d) = [kind |-> "rules", Rule |-> Each(WithId, d.Rule)]
  BY <1>1 DEF Sent, with_rule_ids
<1>3. ASSUME NEW r \in AnyRules
      PROVE  CanonicalRule(r) \in Contents
  <2>1. Given(r.Prefix) \in Optional
    BY GivenSays DEF AnyRules
  <2>2. (IF r.Filter = "emptyPrefix" THEN Absent ELSE Given(r.Filter)) \in Optional
    BY DEF AnyRules, Given, Optional
  <2>3. CanonicalDate(r.Date) \in AnyDates
    <3>1. CASE r.Date = Absent
      BY <3>1 DEF CanonicalDate, AnyDates
    <3>2. CASE r.Date # Absent
      BY <3>2 DEF CanonicalDate, AnyRules, AnyDates, Forms
    <3>3. QED
      BY <3>1, <3>2
  <2>4. QED
    BY <2>1, <2>2, <2>3 DEF CanonicalRule, Contents
<1>4. ASSUME NEW r \in AnyRules
      PROVE  WithId(r) \in AnyRules
  BY <1>3 DEF WithId, AnyRules
<1>5. Each(WithId, d.Rule) \in Seq(AnyRules)
  <2>1. DOMAIN d.Rule = 1..Len(d.Rule) /\ Len(d.Rule) \in Nat
    BY <1>1
  <2>2. \A i \in DOMAIN d.Rule : d.Rule[i] \in AnyRules
    BY <1>1
  <2>3. QED
    BY <1>4, <2>1, <2>2 DEF Each
<1>6. QED
  BY <1>2, <1>5 DEF AnyRulesets
\* What the server keeps of what it is sent.
LEMMA RuleDropped ==
  ASSUME NEW r \in AnyRules
  PROVE  /\ FilterDropped(r) \in AnyRules /\ FilterDropped(r).Filter # Text
         /\ r.Filter # Text => FilterDropped(r) = r
<1> DEFINE e == FilterDropped(r)
<1>1. /\ r.ID \in Optional \cup Contents /\ r.Prefix \in Optional
      /\ r.Filter \in Optional \cup {"emptyPrefix"} /\ r.Date \in AnyDates
      /\ r = [ID |-> r.ID, Prefix |-> r.Prefix, Filter |-> r.Filter, Date |-> r.Date]
  BY DEF AnyRules
<1>2. e = [ID |-> r.ID, Prefix |-> r.Prefix,
           Filter |-> IF r.Filter = Text THEN Absent ELSE r.Filter, Date |-> r.Date]
  BY <1>1 DEF FilterDropped
<1> HIDE DEF e
<1>3. e.Filter = IF r.Filter = Text THEN Absent ELSE r.Filter
  BY <1>2
<1>4. e \in AnyRules
  BY <1>1, <1>2 DEF AnyRules, Optional
<1>5. e.Filter # Text
  BY <1>3, CanonicalAssumption
<1>6. r.Filter # Text => e = r
  BY <1>1, <1>2
<1>7. QED
  BY <1>4, <1>5, <1>6 DEF e

LEMMA RulesetsStored ==
  ASSUME NEW d \in AnyRulesets
  PROVE  /\ Stored(d) \in AnyRulesets /\ (drops => Unfiltered(Stored(d)))
         /\ ~drops \/ Unfiltered(d) => Stored(d) = d
<1>1. /\ d.kind = "rules" /\ d.Rule \in Seq(AnyRules)
      /\ d = [kind |-> d.kind, Rule |-> d.Rule]
  BY DEF AnyRulesets
<1>2. CASE ~drops
  BY <1>2 DEF Stored
<1>3. CASE drops
  <2> DEFINE kept == Each(FilterDropped, d.Rule)
  <2>1. Stored(d) = [kind |-> "rules", Rule |-> kept]
    BY <1>1, <1>3 DEF Stored
  <2>2. DOMAIN d.Rule = 1..Len(d.Rule) /\ Len(d.Rule) \in Nat
    BY <1>1
  <2>3. ASSUME NEW i \in DOMAIN d.Rule
        PROVE  /\ kept[i] \in AnyRules /\ kept[i].Filter # Text
               /\ d.Rule[i].Filter # Text => kept[i] = d.Rule[i]
    <3>1. d.Rule[i] \in AnyRules
      BY <1>1
    <3>2. kept[i] = FilterDropped(d.Rule[i])
      BY DEF Each
    <3>3. QED
      BY <3>1, <3>2, RuleDropped
  <2>4. DOMAIN kept = DOMAIN d.Rule /\ kept = [i \in DOMAIN d.Rule |-> kept[i]]
    BY DEF Each
  <2> HIDE DEF kept
  <2>5. kept \in Seq(AnyRules)
    BY <2>2, <2>3, <2>4
  <2>6. Stored(d) \in AnyRulesets /\ Unfiltered(Stored(d))
    BY <2>1, <2>3, <2>4, <2>5 DEF AnyRulesets, Unfiltered
  <2>7. ASSUME Unfiltered(d)
        PROVE  kept = d.Rule
    BY <1>1, <2>3, <2>4, <2>7 DEF Unfiltered
  <2>8. QED
    BY <1>1, <1>3, <2>1, <2>6, <2>7
<1>4. QED
  BY <1>2, <1>3

LEMMA PoliciesStored ==
  ASSUME NEW d \in AnyPolicies
  PROVE  Stored(d) = d
BY DEF Stored, AnyPolicies
-----------------------------------------------------------------------------
LEMMA EchoInit ==
  ASSUME Init
  PROVE  EchoInv
<1>1. CASE doc \in Policies /\ \E d \in Policies : stored = Stored(Sent(d))
  <2>1. doc \in AnyPolicies /\ stored \in AnyPolicies /\ (Repeats \/ Unrepeating(doc))
    BY <1>1, PoliciesByHand, PoliciesStored
  <2>2. echo \in AnyPolicies /\ Unrepeating(echo) /\ Meaning(echo) = Meaning(stored)
    BY <2>1, PolicyEchoed DEF Init
  <2>3. stored.kind # "rules"
    BY <2>1 DEF AnyPolicies
  <2>4. QED
    BY <2>1, <2>2, <2>3 DEF EchoInv
<1>2. CASE doc \in Rulesets /\ \E d \in Rulesets : stored = Stored(Sent(d))
  <2>1. doc \in AnyRulesets /\ stored \in AnyRulesets /\ (drops => Unfiltered(stored))
    BY <1>2, RulesetsByHand, RulesetsSent, RulesetsStored
  <2>2. echo \in AnyRulesets /\ Unrepeating(echo) /\ Meaning(echo) = Meaning(stored)
    BY <2>1, RulesEchoed DEF Init
  <2>3. Unrepeating(doc)
    BY <2>1 DEF Unrepeating, AnyRulesets
  <2>4. QED
    BY <2>1, <2>2, <2>3 DEF EchoInv
<1>3. QED
  BY <1>1, <1>2 DEF Init

LEMMA EchoStep ==
  ASSUME EchoInv, [Next]_vars
  PROVE  EchoInv'
<1>1. CASE Put
  <2>1. /\ doc' = doc /\ drops' = drops /\ stored' = Stored(Sent(doc))
        /\ echo' \in Echoes(stored')
    BY <1>1 DEF Put
  <2>2. CASE {doc, stored, echo} \subseteq AnyPolicies
    <3>1. stored' \in AnyPolicies /\ stored'.kind # "rules"
      BY <2>1, <2>2, PoliciesStored DEF Sent, AnyPolicies
    <3>2. echo' \in AnyPolicies /\ Unrepeating(echo') /\ Meaning(echo') = Meaning(stored')
      BY <2>1, <3>1, PolicyEchoed
    <3>3. QED
      BY <2>1, <2>2, <3>1, <3>2 DEF EchoInv
  <2>3. CASE {doc, stored, echo} \subseteq AnyRulesets
    <3>1. stored' \in AnyRulesets /\ (drops => Unfiltered(stored'))
      BY <2>1, <2>3, RulesetsSent, RulesetsStored
    <3>2. echo' \in AnyRulesets /\ Unrepeating(echo') /\ Meaning(echo') = Meaning(stored')
      BY <2>1, <3>1, RulesEchoed
    <3>3. QED
      BY <2>1, <2>3, <3>1, <3>2 DEF EchoInv
  <2>4. QED
    BY <2>2, <2>3 DEF EchoInv
<1>2. CASE Read
  <2>1. doc' = doc /\ drops' = drops /\ stored' = stored /\ echo' \in Echoes(echo)
    BY <1>2 DEF Read
  <2>2. CASE {doc, stored, echo} \subseteq AnyPolicies
    <3>1. echo' \in AnyPolicies /\ Unrepeating(echo') /\ Meaning(echo') = Meaning(echo)
      BY <2>1, <2>2, PolicyEchoed
    <3>2. QED
      BY <2>1, <2>2, <3>1 DEF EchoInv
  <2>3. CASE {doc, stored, echo} \subseteq AnyRulesets
    <3>1. echo' \in AnyRulesets /\ Unrepeating(echo') /\ Meaning(echo') = Meaning(echo)
      BY <2>1, <2>3, RulesEchoed
    <3>2. QED
      BY <2>1, <2>3, <3>1 DEF EchoInv
  <2>4. QED
    BY <2>2, <2>3 DEF EchoInv
<1>3. CASE UNCHANGED vars
  BY <1>3 DEF vars, EchoInv, Unrepeating, Meaning, Unfiltered
<1>4. QED
  BY <1>1, <1>2, <1>3 DEF Next

\* The server's answers say what was put, in every reachable state.
THEOREM EchoesKeepMeaning == Spec => []EchoInv
<1>1. Init => EchoInv
  BY EchoInit
<1>2. EchoInv /\ [Next]_vars => EchoInv'
  BY EchoStep
<1>3. QED
  BY <1>1, <1>2, PTL DEF Spec

\* canonical_policy and canonical_lifecycle_rules never report drift while the
\* server holds what the playbook says, for documents of any length, as long as no
\* array repeats an element.
THEOREM DriftIsReal == ASSUME ~Repeats PROVE Spec => []NoFalseDrift
<1>1. EchoInv => NoFalseDrift
  <2>1. CASE {doc, stored, echo} \subseteq AnyPolicies
    <3>1. doc.kind = "policy" /\ echo.kind = "policy"
      BY <2>1 DEF AnyPolicies
    <3>2. QED
      BY <2>1, <3>1, PolicyKept DEF EchoInv, NoFalseDrift, InSync, CanonicalForm
  <2>2. CASE {doc, stored, echo} \subseteq AnyRulesets
    <3>1. doc.kind = "rules" /\ echo.kind = "rules"
      BY <2>2 DEF AnyRulesets
    <3>2. QED
      BY <2>2, <3>1, RulesSay DEF EchoInv, NoFalseDrift, InSync, CanonicalForm
  <2>3. QED
    BY <2>1, <2>2 DEF EchoInv
<1>2. QED
  BY <1>1, EchoesKeepMeaning, PTL

LEMMA SameFormSameMeaning ==
  ASSUME EchoInv
  PROVE  NoMaskedDrift
<1>1. CASE {doc, stored, echo} \subseteq AnyPolicies
  <2>1. doc.kind = "policy" /\ echo.kind = "policy"
    BY <1>1 DEF AnyPolicies
  <2>2. QED
    BY <1>1, <2>1, PolicySays DEF EchoInv, NoMaskedDrift, InSync, CanonicalForm
<1>2. CASE {doc, stored, echo} \subseteq AnyRulesets
  <2>1. doc.kind = "rules" /\ echo.kind = "rules"
    BY <1>2 DEF AnyRulesets
  <2>2. QED
    BY <1>2, <2>1, RulesSay DEF EchoInv, NoMaskedDrift, InSync, CanonicalForm
<1>3. QED
  BY <1>1, <1>2 DEF EchoInv

\* And they never hide it, whatever repeats.
THEOREM DriftIsSeen == Spec => []NoMaskedDrift
BY SameFormSameMeaning, EchoesKeepMeaning, PTL

\* Where the server drops what the playbook says - the Prefix of a Filter - the
\* drift is there in every read, after every put: it is never masked.
THEOREM DroppedFilterStaysDrift == Spec => [](~Kept => ~InSync)
<1>1. ASSUME EchoInv, InSync, doc \in AnyRulesets, stored \in AnyRulesets, drops
      PROVE  Unfiltered(doc)
  <2> DEFINE a == Each(RuleMeaning, doc.Rule)  b == Each(RuleMeaning, stored.Rule)
  <2>1. doc.kind = "rules" /\ stored.kind = "rules"
    BY <1>1 DEF AnyRulesets
  <2>2. Bag(a) = Bag(b)
    BY <1>1, <2>1, SameFormSameMeaning DEF NoMaskedDrift, Meaning
  <2>3. ToSet(a) = ToSet(b)
    BY <2>2, BagHasSet
  <2>4. ASSUME NEW i \in DOMAIN doc.Rule
        PROVE  doc.Rule[i].Filter # Text
    <3>1. a[i] = RuleMeaning(doc.Rule[i]) /\ i \in DOMAIN a
      BY DEF Each
    <3>2. a[i] \in ToSet(b)
      BY <3>1, <2>3 DEF ToSet
    <3>3. PICK j \in DOMAIN b : b[j] = a[i]
      BY <3>2 DEF ToSet
    <3>4. j \in DOMAIN stored.Rule /\ b[j] = RuleMeaning(stored.Rule[j])
      BY DEF Each
    <3>5. stored.Rule[j].Filter # Text
      BY <1>1, <2>1, <3>4 DEF EchoInv, Unfiltered
    <3>6. (stored.Rule[j].Filter = Text) = (doc.Rule[i].Filter = Text)
      <4>1. ASSUME NEW r, NEW s, RuleMeaning(r) = RuleMeaning(s)
            PROVE  (r.Filter = Text) = (s.Filter = Text)
        BY <4>1 DEF RuleMeaning
      <4>2. RuleMeaning(stored.Rule[j]) = RuleMeaning(doc.Rule[i])
        BY <3>1, <3>3, <3>4
      <4> HIDE DEF a, b
      <4>3. QED
        BY <4>1, <4>2
    <3>7. QED
      BY <3>5, <3>6, Zenon
  <2>5. QED
    BY <2>4 DEF Unfiltered
<1>2. ASSUME EchoInv, InSync
      PROVE  Kept
  <2>1. CASE {doc, stored, echo} \subseteq AnyPolicies
    BY <2>1, PoliciesStored DEF Kept
  <2>2. CASE {doc, stored, echo} \subseteq AnyRulesets
    <3>1. ~drops \/ Unfiltered(doc)
      BY <1>1, <1>2, <2>2
    <3>2. Stored(doc) = doc
      BY <2>2, <3>1, RulesetsStored
    <3>3. QED
      BY <3>2 DEF Kept
  <2>3. QED
    BY <1>2, <2>1, <2>2 DEF EchoInv
<1>3. EchoInv => (~Kept => ~InSync)
  BY <1>2
<1>4. QED
  BY <1>3, EchoesKeepMeaning, PTL
=============================================================================
