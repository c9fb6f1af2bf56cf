------------------------------ MODULE Settings ------------------------------
(***************************************************************************)
(* The rules in the settings file (flowbrake-ui, settings.rs): how they    *)
(* are written and what is read back.                                      *)
(*                                                                         *)
(* A name is a sequence of strings that are joined, each "." or "=" in it  *)
(* an element of its own; names are lower case and have no spaces at their *)
(* ends.  A line of the file is the text before its last "=" and a value,  *)
(* a natural number, 1 for true.  Two fields of a rule stand for the ten;  *)
(* the settings that are no rules are left out.                            *)
(***************************************************************************)
EXTENDS Integers, Sequences

CONSTANTS
  Name,       \* executable names
  Limit       \* limits that may be typed, among them 0

Rule == [limit : Limit, box : BOOLEAN]
NoRule == [limit |-> 0, box |-> FALSE]

\* append_rule_lines; the lines of the global rule are written first, always
Lines(prefix, r, later) ==
  {[text |-> prefix \o <<".", "limit">>, value |-> r.limit, later |-> later],
   [text |-> prefix \o <<".", "box">>, value |-> IF r.box THEN 1 ELSE 0, later |-> later]}

\* to_contents; a rule that says nothing is not written (has_any_rule)
Contents(global, names) ==
  Lines(<<"global">>, global, FALSE) \cup
    UNION {Lines(<<"rule", ".">> \o n, names[n], TRUE) : n \in {m \in Name : names[m] # NoRule}}

\* split_once('=')
Splits(text) == {i \in 1 .. Len(text) : text[i] = "="}
KeyIn(text) ==
  IF Splits(text) = {} THEN text
  ELSE SubSeq(text, 1, (CHOOSE i \in Splits(text) : \A j \in Splits(text) : i <= j) - 1)

\* from_contents: whether a line gives field f (which has no ".") of the rule of n; the name ends
\* at the last ".", and the global rule is kept under the name "global".
Gives(line, n, f) ==
  \/ n = <<"global">> /\ KeyIn(line.text) = <<"global", ".", f>>
  \/ n # <<>> /\ KeyIn(line.text) = <<"rule", ".">> \o n \o <<".", f>>

\* The values of field f of n; a later line counts, and what follows another "=" is no value.
Read(file, n, f) ==
  LET found == {l \in file : Gives(l, n, f)}
      last == {l \in found : l.later \/ \A k \in found : ~k.later}
  IN  {l.value : l \in {k \in last : Splits(k.text) = {}}}

\* parse_rule_fields
RuleIn(file, n) ==
  LET limits == Read(file, n, "limit") \cap Limit
  IN  [limit |-> IF limits = {} THEN 0 ELSE CHOOSE v \in limits : TRUE, box |-> 1 \in Read(file, n, "box")]

\* from_contents: the entry "global" becomes the global rule and is taken out.
LoadedGlobal(file) == RuleIn(file, <<"global">>)
LoadedNames(file) == [n \in Name |-> IF n = <<"global">> THEN NoRule ELSE RuleIn(file, n)]
=============================================================================
