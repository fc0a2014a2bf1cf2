-------------------------- MODULE CommissionRules ---------------------------
(***************************************************************************)
(* The commission rules of a professional, as its salon's owners edit them *)
(* at once, and which of them pays a sale (commissions.service.ts).        *)
(* Nothing in the database keeps two active rules from the same target:    *)
(* the service looks before it writes.                                     *)
(***************************************************************************)
EXTENDS Integers, FiniteSets

CONSTANTS
    Asks,           \* requests in progress at once
    RuleIds,
    Services, Products,     \* the salon's catalogue
    MaxRules,       \* MAX_RULES_PER_PROFESSIONAL
    NoTarget        \* targetId null

\* Base and target of a rule: any sale, any service or product, or one of them.
Targets == {[base |-> "ALL", id |-> NoTarget]}
           \cup [base : {"SERVICE"}, id : Services \cup {NoTarget}]
           \cup [base : {"PRODUCT"}, id : Products \cup {NoTarget}]

\* What an item of a ticket sells: of the catalogue, or what has left it.
Items == [kind : {"SERVICE"}, id : Services \cup {NoTarget}]
         \cup [kind : {"PRODUCT"}, id : Products \cup {NoTarget}]

\* Assumed of the constants by whoever instantiates the module.
RulesAssumption ==
    /\ RuleIds \subseteq Nat \ {0} /\ MaxRules \in Nat
    /\ NoTarget \notin Targets \cup Services \cup Products

VARIABLES
    rules,      \* rules[i]: a CommissionRule, NoRule when there is none
    ask,        \* ask[c]: a request and what it has read
    tied        \* history: a rule was written after another write overtook its check

rulesVars == <<rules, ask, tied>>

NoRule == [target |-> NoTarget, isActive |-> FALSE]
IdleAsk == [pc |-> "idle", id |-> 0, target |-> NoTarget, isActive |-> FALSE, overtaken |-> FALSE]

TypeOK ==
    /\ \A i \in RuleIds : rules[i] = NoRule \/ rules[i] \in [target : Targets, isActive : BOOLEAN]
    /\ \A c \in Asks : ask[c].pc = "idle" <=> ask[c] = IdleAsk

Reply(c, record) == ask' = [ask EXCEPT ![c] = record]

\* assertNoDuplicate: an active rule must not share its target with another.
Clash(target, asked, kept, id) ==
    (asked \/ kept) /\ \E j \in RuleIds \ {id} : rules[j] = [target |-> target, isActive |-> TRUE]

RuleCount == Cardinality({j \in RuleIds : rules[j] # NoRule})

CreateRuleRead(c, target, active) ==
    /\ ask[c].pc = "idle" /\ ~Clash(target, active, FALSE, 0) /\ RuleCount < MaxRules
    /\ Reply(c, [IdleAsk EXCEPT !.pc = "createRule", !.target = target, !.isActive = active])
    /\ UNCHANGED <<rules, tied>>

\* Without isActive in the request the rule keeps its state.
UpdateRuleRead(c, i, target, asked, kept) ==
    /\ ask[c].pc = "idle" /\ rules[i] # NoRule
    /\ kept => ~asked /\ rules[i].isActive
    /\ ~Clash(target, asked, kept, i)
    /\ Reply(c, [IdleAsk EXCEPT !.pc = "updateRule", !.id = i, !.target = target,
                                 !.isActive = asked \/ kept])
    /\ UNCHANGED <<rules, tied>>

TiedRules(rs) == \E i, j \in RuleIds : i # j /\ rs[i] = rs[j] /\ rs[i].isActive

\* The rules change: other requests about rules are overtaken.
PutRule(c, i, rule) ==
    /\ rules' = [rules EXCEPT ![i] = rule]
    /\ ask' = [d \in Asks |->
           CASE d = c -> IdleAsk
             [] d # c /\ ask[d].pc \in {"createRule", "updateRule"} -> [ask[d] EXCEPT !.overtaken = TRUE]
             [] OTHER -> ask[d]]
    /\ tied' = ((tied \/ (c \in Asks /\ ask[c].overtaken)) /\ TiedRules(rules'))

RuleWritten(c) == [target |-> ask[c].target, isActive |-> ask[c].isActive]
CreateRuleWrite(c, i) == ask[c].pc = "createRule" /\ rules[i] = NoRule /\ PutRule(c, i, RuleWritten(c))

UpdateRuleWrite(c) ==
    /\ ask[c].pc = "updateRule"
    /\ IF rules[ask[c].id] # NoRule
         THEN PutRule(c, ask[c].id, RuleWritten(c))
         ELSE Reply(c, IdleAsk) /\ UNCHANGED <<rules, tied>>

DeleteRule(i) == rules[i] # NoRule /\ PutRule(NoTarget, i, NoRule)

-----------------------------------------------------------------------------

Init ==
    /\ rules = [i \in RuleIds |-> NoRule]
    /\ ask = [c \in Asks |-> IdleAsk]
    /\ tied = FALSE

Next ==
    \/ \E c \in Asks :
         \/ UpdateRuleWrite(c)
         \/ \E target \in Targets, active \in BOOLEAN : CreateRuleRead(c, target, active)
         \/ \E i \in RuleIds :
              \/ CreateRuleWrite(c, i)
              \/ \E target \in Targets, asked, kept \in BOOLEAN : UpdateRuleRead(c, i, target, asked, kept)
    \/ \E i \in RuleIds : DeleteRule(i)

Spec == Init /\ [][Next]_rulesVars

-----------------------------------------------------------------------------
(* What a sale pays: pickRule *)

Matches(target, item) == target.base \in {"ALL", item.kind} /\ target.id \in {NoTarget, item.id}

\* Variant of Score that tells only the exact target.
ScoreExactOnly(target, item) == IF target.id # NoTarget /\ target.id = item.id THEN 4 ELSE 0

\* The exact target before the base before any sale.
Score(target, item) ==
    (IF target.id # NoTarget /\ target.id = item.id THEN 4 ELSE 0) + (IF target.base # "ALL" THEN 2 ELSE 0)

\* The rules that match an item best. Among several, the order of the rows decides.
PickRule(item) ==
    LET matching == {i \in RuleIds : rules[i].isActive /\ Matches(rules[i].target, item)}
    IN  {i \in matching : \A j \in matching : Score(rules[j].target, item) <= Score(rules[i].target, item)}

-----------------------------------------------------------------------------
(* Properties *)

\* Two active rules tie on a target ("o repasse dependeria de qual o banco devolve primeiro",
\* assertNoDuplicate) only after a rule was written whose check another write had overtaken.
TieOnlyIfOvertaken == TiedRules(rules) => tied

\* "a mesma venda poderia render comissões diferentes" (computeForTicket): but for such a tie, at most
\* one rule of the professional pays a sale, whatever is sold and however general the others are.
OnePays == ~tied => \A item \in Items : \A i, j \in PickRule(item) : i = j
=============================================================================
