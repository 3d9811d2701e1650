------------------------------ MODULE Canonical ------------------------------
(***************************************************************************)
(* The comparison under every "changed": a document or ruleset written by  *)
(* hand against the server's echo of what it stores                        *)
(* (module_utils/canonical.py). The server answers every read in a         *)
(* representation of its own.                                              *)
(*                                                                         *)
(* A field that is left out holds Absent, one given empty holds Empty. A   *)
(* sorted list stands for the bag of its elements, which is what comparing *)
(* two sorted lists compares.                                              *)
(***************************************************************************)
EXTENDS Naturals, Sequences, FiniteSets, SequencesExt

CONSTANTS
  Names,          \* elements of an Action or Resource array
  Text,           \* a non-empty value of any other field
  Absent, Empty,  \* a field left out, and one that is given empty
  Instants,       \* what dates stand for
  MaxLength,      \* bound: statements or rules in a document
  MaxArray,       \* bound: elements of an array
  Repeats         \* bound: whether an array may repeat itself

\* A left-out field, an empty one, a text and a date are told apart.
Forms == {"date", "timestamp", "datetime"}
ASSUME CanonicalAssumption ==
  /\ MaxLength \in Nat /\ MaxArray \in Nat
  /\ Absent # Empty /\ Text \notin {Absent, Empty}
  /\ "emptyPrefix" \notin {Text, Absent, Empty}
  /\ Absent \notin [form : Forms, at : Instants]

VARIABLES doc,     \* in the playbook
          drops,   \* whether this server drops the Prefix of a Filter
          stored,  \* of the last put, by this playbook or an earlier one
          echo     \* last read
vars == <<doc, drops, stored, echo>>

Lists(S) == UNION {[1..n -> S] : n \in 1..MaxLength}
Arrays   == {a \in UNION {[1..n -> Names] : n \in 1..MaxArray} : Repeats \/ IsInjective(a)}
Optional == {Text, Absent, Empty}

\* Bound: what varies in a document of several statements, and of one.
PlainStatements ==
  [Action : Arrays, Resource : {<<CHOOSE n \in Names : TRUE>>}, Sid : Optional, Condition : {Absent}]
Statements == [Action : Arrays, Resource : Arrays, Sid : {Absent}, Condition : Optional]
Policies ==
  [kind : {"policy"}, ID : {Absent}, Statement : Lists(PlainStatements)]
  \cup [kind : {"policy"}, ID : Optional, Statement : {<<s>> : s \in Statements}]

\* A date is an instant in some form. A Filter may hold a Prefix, or an empty one.
Dates      == {Absent} \cup [form : {"date", "timestamp"}, at : Instants]
PlainRules == [ID : {Text, Absent}, Prefix : Optional, Filter : {Absent, "emptyPrefix"}, Date : {Absent}]
Rules      == [ID : Optional, Prefix : Optional, Filter : Optional \cup {"emptyPrefix"}, Date : Dates]
Rulesets ==
  [kind : {"rules"}, Rule : Lists(PlainRules) \cup {<<r>> : r \in Rules}]
-----------------------------------------------------------------------------
(* canonical.py                                                            *)

Bag(s)   == [x \in ToSet(s) |-> Cardinality({i \in DOMAIN s : s[i] = x})]
Each(Op(_), s) == [i \in DOMAIN s |-> Op(s[i])]

\* "" and {} are dropped.
Given(x) == IF x = Empty THEN Absent ELSE x

\* Mutants: any Sid is dropped; the arrays are compared as they come.
CanonicalStatementDropsSid(s) ==
  [Action |-> Bag(s.Action), Resource |-> Bag(s.Resource), Sid |-> Absent, Condition |-> Given(s.Condition)]
CanonicalStatementInOrder(s) ==
  [Action |-> s.Action, Resource |-> s.Resource, Sid |-> Given(s.Sid), Condition |-> Given(s.Condition)]
CanonicalStatement(s) ==
  [Action |-> Bag(s.Action), Resource |-> Bag(s.Resource), Sid |-> Given(s.Sid),
   Condition |-> Given(s.Condition)]

canonical_policy(d) == [ID |-> Given(d.ID), Statement |-> Bag(Each(CanonicalStatement, d.Statement))]

\* Every form becomes a timestamp in UTC. Mutant: what botocore parsed stays.
CanonicalDateParsed(date) ==
  IF date = Absent \/ date.form = "datetime" THEN date ELSE [date EXCEPT !.form = "timestamp"]
CanonicalDate(date) == IF date = Absent THEN Absent ELSE [date EXCEPT !.form = "timestamp"]

\* The rule without its ID; a Filter of which nothing is left goes as well.
CanonicalRule(r) ==
  [Prefix |-> Given(r.Prefix),
   Filter |-> IF r.Filter = "emptyPrefix" THEN Absent ELSE Given(r.Filter),
   Date   |-> CanonicalDate(r.Date)]

canonical_lifecycle_rules(d) == Bag(Each(CanonicalRule, d.Rule))

CanonicalForm(d) ==
  IF d.kind = "policy" THEN canonical_policy(d) ELSE canonical_lifecycle_rules(d)

\* Before a ruleset is put, each rule without an ID is given one that depends on
\* its content alone.
WithId(r) == [r EXCEPT !.ID = IF Given(@) = Absent THEN CanonicalRule(r) ELSE @]
with_rule_ids(d) == [d EXCEPT !.Rule = Each(WithId, @)]
Sent(d) == IF d.kind = "policy" THEN d ELSE with_rule_ids(d)
-----------------------------------------------------------------------------
(* The server.                                                             *)

\* The repository says of a Filter that holds a Prefix both that it survives
\* (docs/server-quirks.md:53) and that the server drops it
\* (bucket_lifecycle.py:49-51): there may be servers of either kind.
FilterDropped(r) == [r EXCEPT !.Filter = IF @ = Text THEN Absent ELSE @]
Stored(d) == IF drops /\ d.kind = "rules" THEN [d EXCEPT !.Rule = Each(FilterDropped, @)] ELSE d

\* Arrays are stored as sets and come back in any order; what was left out
\* comes back empty.
Injected(x) == IF x = Absent THEN Empty ELSE x
StatementEchoes(s) ==
  [Action : SetToSeqs(ToSet(s.Action)), Resource : SetToSeqs(ToSet(s.Resource)),
   Sid : {Injected(s.Sid)}, Condition : {Injected(s.Condition)}]

\* Empty scoping is dropped, dates come back parsed.
RuleEcho(r) ==
  [r EXCEPT !.Prefix = Given(@), !.Filter = IF @ = "emptyPrefix" THEN Absent ELSE Given(@),
            !.Date = IF @ = Absent THEN @ ELSE [@ EXCEPT !.form = "datetime"]]

Echoes(d) ==
  IF d.kind = "rules" THEN {[d EXCEPT !.Rule = Each(RuleEcho, @)]}
  ELSE {[d EXCEPT !.ID = Injected(@), !.Statement = e] :
          e \in {e \in [DOMAIN d.Statement -> UNION {StatementEchoes(s) : s \in ToSet(d.Statement)}] :
                   \A i \in DOMAIN e : e[i] \in StatementEchoes(d.Statement[i])}}
-----------------------------------------------------------------------------
\* Any document in the playbook; any on the server, which does not tell an empty
\* field from one left out.
Bare(d) ==
  IF d.kind = "policy"
  THEN d.ID # Empty /\ \A s \in ToSet(d.Statement) : s.Sid # Empty /\ s.Condition # Empty
  ELSE \A r \in ToSet(d.Rule) : Empty \notin {r.ID, r.Prefix, r.Filter} /\ r.Filter # "emptyPrefix"
Init ==
  \E S \in {Policies, Rulesets} :
    /\ doc \in S /\ drops \in {FALSE, doc.kind = "rules"}
    /\ stored \in {Stored(Sent(d)) : d \in {d \in S : Bare(d)}} /\ echo \in Echoes(stored)

InSync == CanonicalForm(echo) = CanonicalForm(doc)

\* A module that sees a difference writes the document as it stands.
Put  == ~InSync /\ stored' = Stored(Sent(doc)) /\ echo' \in Echoes(stored') /\ UNCHANGED <<doc, drops>>
Read == echo' \in Echoes(echo) /\ UNCHANGED <<doc, drops, stored>>
Next == Put \/ Read

Spec == Init /\ [][Next]_vars /\ WF_vars(Put)
-----------------------------------------------------------------------------
\* What a document says, however it is put: how often it makes which statement
\* or rule, in no order.
StatementMeaning(s) == <<ToSet(s.Action), ToSet(s.Resource), s.Sid = Text, s.Condition = Text>>
RuleMeaning(r)      == <<r.Prefix = Text, r.Filter = Text, IF r.Date = Absent THEN {} ELSE {r.Date.at}>>
Meaning(d) == IF d.kind = "policy" THEN <<d.ID = Text, Bag(Each(StatementMeaning, d.Statement))>>
              ELSE Bag(Each(RuleMeaning, d.Rule))

\* No false drift: as long as the server holds what the playbook says, every
\* read compares equal.
NoFalseDrift == Meaning(stored) = Meaning(doc) => InSync

\* No masked drift: what compares equal says the same.
NoMaskedDrift == InSync => Meaning(stored) = Meaning(doc)

\* A hand-written document converges: in the end the module sees no difference,
\* for good. Only where the server drops what the document says is there drift for
\* ever, which is put again and never masked.
Kept      == Meaning(Stored(doc)) = Meaning(doc)
Converges == <>[](InSync = Kept)
=============================================================================
