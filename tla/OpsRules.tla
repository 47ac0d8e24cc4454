------------------------------- MODULE OpsRules -------------------------------
(***************************************************************************)
(* The rule catalogue and the filter of GET /api/ops/rules.  A rule's      *)
(* number <<g, n>> stands for its code "OPS-ggnn" and its name.  A client   *)
(* reads the catalogue one severity at a time.                             *)
(***************************************************************************)
EXTENDS Integers, FiniteSets, SequencesExt

VARIABLES
  terminal,   \* the client asks for terminal rules only
  asked,      \* the severities it has asked for
  listed      \* the rules it was given

rulesVars == <<terminal, asked, listed>>

Severity == {"low", "normal", "high", "critical"}

\* The severities of a group go round, and each group starts one further on;
\* even rules want a review, and every fourth one is terminal.
Rule(g, n) ==
  [ code     |-> <<g, n>>,
    severity |-> <<"low", "normal", "high", "critical">>[((g + n) % 4) + 1],
    labels   |-> {"site", "operator", "evidence"} \cup
                 (IF n % 2 = 0 THEN {"reviewed"} ELSE {}),
    terminal |-> n % 4 = 0 ]

RuleGroup(g) == [n \in 1..8 |-> Rule(g, n)]

opsRules01 == RuleGroup(1)
opsRules02 == RuleGroup(2)
opsRules03 == RuleGroup(3)
opsRules04 == RuleGroup(4)
opsRules05 == RuleGroup(5)
opsRules06 == RuleGroup(6)
opsRules07 == RuleGroup(7)
opsRules08 == RuleGroup(8)
opsRules09 == RuleGroup(9)
opsRules10 == RuleGroup(10)
opsRules11 == RuleGroup(11)
opsRules12 == RuleGroup(12)
opsRules13 == RuleGroup(13)
opsRules14 == RuleGroup(14)

\* Mutant of opsRules: the eighth group is there twice, the ninth is not.
MutantRulesGroupTwice ==
  FlattenSeq(<<opsRules01, opsRules02, opsRules03, opsRules04, opsRules05,
               opsRules06, opsRules07, opsRules08, opsRules08, opsRules10,
               opsRules11, opsRules12, opsRules13, opsRules14>>)

opsRules ==
  FlattenSeq(<<opsRules01, opsRules02, opsRules03, opsRules04, opsRules05,
               opsRules06, opsRules07, opsRules08, opsRules09, opsRules10,
               opsRules11, opsRules12, opsRules13, opsRules14>>)

\* What the handler answers; no severity, "", means any.
RulesAnswer(severity, terminalOnly) ==
  LET Wanted(rule) == /\ severity \in {"", rule.severity}
                      /\ terminalOnly => rule.terminal
  IN SelectSeq(opsRules, Wanted)

RulesInit == terminal = FALSE /\ asked = {} /\ listed = <<>>

Ask(severity) ==
  /\ asked' = asked \cup {severity}
  /\ listed' = listed \o RulesAnswer(severity, terminal)
  /\ UNCHANGED terminal

StartOver ==
  asked = Severity /\ terminal' \in BOOLEAN /\ asked' = {} /\ listed' = <<>>

RulesNext == StartOver \/ \E severity \in Severity \ asked : Ask(severity)

-----------------------------------------------------------------------------

\* Who has asked for every severity, in whatever order, was given every rule of
\* the fourteen groups of eight once, or every terminal one; and none of the
\* terminal rules does without a review.
BrowsingShowsEveryRule ==
  LET codes == {listed[k].code : k \in DOMAIN listed}
  IN asked = Severity =>
       /\ codes = (1..14) \X (IF terminal THEN {4, 8} ELSE 1..8)
       /\ Len(listed) = Cardinality(codes)
       /\ \A k \in DOMAIN listed :
            listed[k].terminal => "reviewed" \in listed[k].labels

=============================================================================
