----------------------------- MODULE Automaton -----------------------------
(***************************************************************************)
(* What the three generated parsers have in common.  A parser is a finite  *)
(* automaton: a set of rules, each saying which pieces of input take it    *)
(* from one state to another and which actions it runs on the way.  The    *)
(* generated code spells a rule out as the comparisons of a "case" label   *)
(* and the action bodies of a "tr" label.  A piece is a character or a run *)
(* of characters inside which the automaton cannot branch differently for  *)
(* any property here, for example a letter, an octet, or half a keyword.   *)
(* A piece without a rule takes the automaton to the error state.          *)
(***************************************************************************)
EXTENDS Naturals, Sequences, TLC

\* One transition; doing is the sequence of actions the code runs on it.
Rule(from, on, to, doing) ==
  [from |-> from, on |-> on, to |-> to, do |-> doing]

\* The rules of the same state on several sets of pieces, action lists apart.
Quiet(from, on, to) == Rule(from, on, to, << >>)

\* The k-th of a row of states with a common name.
Nth(name, k) == name \o ToString(k)

\* The rules indexed by state: the switch (cs) of the generated code.
ByState(rules) == [s \in {r.from : r \in rules} |-> {r \in rules : r.from = s}]

\* The rule a state applies to a piece, as a set that is empty for an error.
Applicable(table, state, piece) ==
  IF state \in DOMAIN table THEN {r \in table[state] : piece \in r.on} ELSE {}

\* No state has two rules for one piece: the automaton is deterministic.
Deterministic(table) ==
  \A s \in DOMAIN table : \A r1, r2 \in table[s] : r1.on \cap r2.on # {} => r1 = r2
=============================================================================
