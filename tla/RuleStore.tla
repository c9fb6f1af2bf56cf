----------------------------- MODULE RuleStore ------------------------------
(***************************************************************************)
(* The rules the UI keeps (flowbrake-ui, main.rs): by process, by          *)
(* executable name (the templates that are saved), and the copies in the   *)
(* engine and in the rows of the table.  A row, of a group of processes or *)
(* of one of them, is made when the table is rebuilt and remembers the     *)
(* processes and the rule of that moment; the next edit starts from it.    *)
(*                                                                         *)
(* All of it runs on the UI thread, one callback at a time: a callback     *)
(* edits the rules and then has steps left to do, in todo.  Processes come *)
(* and go at any time, and their numbers are used again; saving may fail;  *)
(* and the program may crash between any two steps, after which a new one  *)
(* starts from the file as it is then.                                     *)
(*                                                                         *)
(* A rule is a limit and its box here: a field that takes the focus and    *)
(* one that does not.  Enter in a field submits it twice, since it takes   *)
(* the focus away; the second edit is taken for one of the same row.       *)
(***************************************************************************)
EXTENDS Settings, Fields

CONSTANTS
  Pid,        \* process ids, naturals
  NoName,     \* not a name
  Globals,    \* the global rules that are tried
  Opening     \* a bound: what the file has in it when opening it may fail

ASSUME RuleStoreAssumption ==
  /\ Pid \subseteq Nat /\ NoName \notin Name
  /\ 0 \in Limit /\ Limit \subseteq 0 .. MaxLimit /\ Globals \subseteq Rule

VARIABLES
  proc,       \* the name of each running process, or NoName
  rules,      \* the rule of each process, NoRule if there is none
  name_rules, \* the template of each name, NoRule if there is none
  engine,     \* the rules of the engine
  running,    \* whether the engine runs
  rows,       \* the processes and their rules when the table was last rebuilt
  global_rule,
  file,       \* the lines of the settings file
  todo,       \* what the callback has left to do
  focused,    \* whether a field has the focus
  limit_editing,
  kept        \* history: what the file must restore; nothing after a save that failed

savedVars == <<name_rules, global_rule>>
saveVars == <<file, kept>>
fieldVars == <<focused, limit_editing>>
vars == <<proc, running, rows, todo, fieldVars, rules, engine, savedVars, saveVars>>

\* has_any_rule is r # NoRule; a map without an entry gives NoRule.

\* runtime_rule; the engine drops a rule that says nothing
\* Mutant: a limit is in force without its box.
RuntimeRaw(r) == r
Runtime(r) == IF r.box THEN r ELSE NoRule

NoRules == [p \in Pid |-> NoRule]
NoTemplates == [n \in Name |-> NoRule]

\* What is saved
Saved == <<global_rule, name_rules>>

\* AppState::new, before anything was saved
Init ==
  /\ proc \in [Pid -> Name \cup {NoName}]
  /\ global_rule = NoRule /\ name_rules = NoTemplates
  /\ rules = NoRules /\ engine = NoRules /\ running = FALSE
  /\ rows = [proc |-> [p \in Pid |-> NoName], rules |-> NoRules]
  /\ todo = <<>> /\ focused = FALSE /\ limit_editing = FALSE
  /\ file = {} /\ kept = {Saved}

Live == {p \in Pid : proc[p] # NoName}

\* inherit_name_rules, for the rules r and the templates t
Inherited(r, t) == [p \in Pid |-> IF p \in Live /\ r[p] = NoRule THEN t[proc[p]] ELSE r[p]]

\* apply_name_rules_from: the rules inherited are pushed to a running engine, which has e
\* Mutant: never pushed.
Unpushed(e, r, t) == e
Pushed(e, r, t) ==
  [p \in Pid |-> IF running /\ Inherited(r, t)[p] # r[p] THEN Runtime(Inherited(r, t)[p]) ELSE e[p]]

\* build_process_rows, of the rules r
Rows(r) == [proc |-> proc, rules |-> [p \in Pid |-> IF p \in Live THEN r[p] ELSE NoRule]]

\* rebuild_rows, from the rules r, the templates t and the engine's rules e
Rebuild(r, t, e) ==
  /\ rules' = Inherited(r, t) /\ engine' = Pushed(e, r, t)
  /\ rows' = Rows(rules')

\* render_rows, after a click on a row and the like
Idle == todo = <<>>
Click ==
  /\ Idle /\ Rebuild(rules, name_rules, engine)
  /\ UNCHANGED <<proc, running, todo, fieldVars, savedVars, saveVars>>

\* The timer, if can_refresh_table: refresh_table_on_tick rebuilds the table if there are other
\* process ids.  That a limit puts it off for 2 seconds more is left out: the timer may be late.
Tick ==
  /\ Idle /\ ~limit_editing
  /\ rules' = Inherited(rules, name_rules) /\ engine' = Pushed(engine, rules, name_rules)
  /\ rows' = IF {p \in Pid : rows.proc[p] # NoName} # Live THEN Rows(rules') ELSE rows
  /\ UNCHANGED <<proc, running, todo, fieldVars, savedVars, saveVars>>

\* The rows of the table, and first_existing_rule of a group
Members(n) == {p \in Pid : rows.proc[p] = n}
GroupRule(n) ==
  LET ruled == {p \in Members(n) : rows.rules[p] # NoRule}
  IN  IF ruled = {} THEN NoRule
      ELSE rows.rules[CHOOSE p \in ruled : \A q \in ruled : p <= q]

\* How a callback goes on after an edit: it renders the table at once and saves then (a box, a
\* limit in its row, a loss, a delay), or it saves and renders after that (a limit in the sidebar).
\* Mutant: it does not save.
Forgets == todo' = <<>>
Saves == todo' = <<"persist">>
SavesFirst == todo' = <<"persist", "render">>

\* apply_rule_to_row sets rule r for processes ps; templates t, global rule g.
Apply(ps, r, t, g) ==
  LET set == [p \in Pid |-> IF p \in ps THEN r ELSE rules[p]]
      pushed == [p \in Pid |-> IF p \in ps THEN Runtime(r) ELSE engine[p]]
  IN  /\ name_rules' = t /\ global_rule' = g
      /\ \/ Saves /\ Rebuild(set, t, pushed)
         \/ SavesFirst /\ rules' = set /\ engine' = pushed /\ rows' = rows
      /\ UNCHANGED <<proc, running, saveVars>>

ToGroup(n, r) == Members(n) # {} /\ Apply(Members(n), r, [name_rules EXCEPT ![n] = r], global_rule)
ToChild(p, r) == rows.proc[p] # NoName /\ Members(rows.proc[p]) # {p} /\ Apply({p}, r, name_rules, global_rule)
\* The engine's copy of the global rule is left out.
ToGlobal(r) == r \in Globals /\ Apply({}, NoRule, name_rules, r)

\* on_bool_rule_edited, on_selected_bool_rule_edited
Box == Idle /\ Saves /\ UNCHANGED fieldVars
BoxOfGroup(n) == Box /\ ToGroup(n, [GroupRule(n) EXCEPT !.box = ~GroupRule(n).box])
BoxOfChild(p) == Box /\ ToChild(p, [rows.rules[p] EXCEPT !.box = ~rows.rules[p].box])
BoxOfGlobal == Box /\ ToGlobal([global_rule EXCEPT !.box = ~global_rule.box])

\* on_row_limit_focus_changed, on_sidebar_focus_changed
Focus ==
  /\ Idle /\ ~focused /\ focused' = TRUE /\ limit_editing' = TRUE
  /\ UNCHANGED <<proc, running, rows, todo, rules, engine, savedVars, saveVars>>

\* A field is left, and set_limit_editing is told.
\* Mutant: it is not told.
LeftUntold == Idle /\ focused /\ focused' = FALSE /\ UNCHANGED limit_editing
Left == Idle /\ focused /\ focused' = FALSE /\ limit_editing' = FALSE

\* It is submitted: the rule of its row with the limit in text.
Submits == Saves \/ SavesFirst
WithLimit(r, text, unit) == [r EXCEPT !.limit = LimitOf(text, unit)]
LeaveGroup(n, text, unit) == Left /\ Submits /\ ToGroup(n, WithLimit(GroupRule(n), text, unit))
LeaveChild(p, text, unit) == Left /\ Submits /\ ToChild(p, WithLimit(rows.rules[p], text, unit))
LeaveGlobal(text, unit) == Left /\ Submits /\ ToGlobal(WithLimit(global_rule, text, unit))

\* Its text cannot be read, or its row is gone: the table is rendered, and saved or not.
LeaveUnread ==
  /\ Left /\ todo' \in {<<>>, <<"persist">>}
  /\ Rebuild(rules, name_rules, engine) /\ UNCHANGED <<proc, running, savedVars, saveVars>>

\* What is typed, one text for each limit.
LeaveField ==
  \/ LeaveUnread
  \/ \E unit \in Unit, v \in Limit :
       LET text == LimitText(v, unit)
       IN  \/ LeaveGlobal(text, unit)
           \/ \E n \in Name : LeaveGroup(n, text, unit)
           \/ \E p \in Pid : LeaveChild(p, text, unit)

\* Callbacks that save and change no rule, for the language, the speed unit, the window's size and
\* the rows that are open, and when the window is closed or Exit is chosen in the tray, which may end
\* the program.
Others == UNCHANGED <<proc, running, rows, fieldVars, rules, engine, savedVars>>
Persist == Idle /\ todo' = <<"persist", "leave">> /\ Others /\ UNCHANGED saveVars

\* push_all_rules and start, which may fail; restart_engine when IPv6 is switched, which is saved
PushAll == [p \in Pid |-> IF rules[p] # NoRule THEN Runtime(rules[p]) ELSE engine[p]]
Start ==
  /\ Idle /\ running' \in BOOLEAN /\ engine' = PushAll
  /\ todo' = IF running THEN <<"persist", "render">> ELSE todo
  /\ UNCHANGED <<proc, rows, fieldVars, rules, savedVars, saveVars>>

\* The engine fails.
Stop == running /\ running' = FALSE /\ UNCHANGED <<proc, rows, todo, fieldVars, rules, engine, savedVars, saveVars>>

-----------------------------------------------------------------------------
(* The steps of a callback. *)

Due(step) == todo # <<>> /\ Head(todo) = step

\* The end of persist_settings, and render_rows if that is next
Saving ==
  IF Tail(todo) = <<"render">>
    THEN todo' = <<>> /\ Rebuild(rules, name_rules, engine) /\ UNCHANGED <<proc, running, fieldVars, savedVars>>
    ELSE todo' = Tail(todo) /\ Others

\* fs::write empties the file, and writes it then.
Empty ==
  /\ Due("persist") /\ todo' = <<"write">> \o Tail(todo)
  /\ file' = {} /\ Others /\ UNCHANGED kept
Write ==
  /\ Due("write") /\ Saving
  /\ file' = Contents(global_rule, name_rules) /\ kept' = {Saved}

\* It fails, before or after the file was emptied.  The bounds: a second time only after a save, and
\* to open the file only with some contents of it.
Fail ==
  /\ kept # {} /\ ((Due("persist") /\ file \in Opening) \/ Due("write")) /\ Saving
  /\ UNCHANGED file /\ kept' = IF Due("persist") THEN kept \cap {Saved} ELSE {}

\* A new program: AppState::new and the first render_rows, before the engine is started
NewProgram ==
  /\ engine' = NoRules /\ running' = FALSE /\ todo' = <<>> /\ focused' = FALSE /\ limit_editing' = FALSE
  /\ UNCHANGED <<proc, file>>
  /\ global_rule' = LoadedGlobal(file) /\ name_rules' = LoadedNames(file)
  /\ rules' = Inherited(NoRules, name_rules') /\ rows' = Rows(rules')
  /\ kept' = {<<global_rule', name_rules'>>}

\* apply_engine_stop and full_exit; or the program goes on.
Leave == Due("leave") /\ NewProgram
Stay == Due("leave") /\ todo' = <<>> /\ Others /\ UNCHANGED saveVars
Crash == NewProgram

Launch(p, n) ==
  /\ proc[p] = NoName /\ proc' = [proc EXCEPT ![p] = n]
  /\ UNCHANGED <<running, rows, todo, fieldVars, rules, engine, savedVars, saveVars>>
Exit(p) ==
  /\ proc[p] # NoName /\ proc' = [proc EXCEPT ![p] = NoName]
  /\ UNCHANGED <<running, rows, todo, fieldVars, rules, engine, savedVars, saveVars>>

Step == Empty \/ Write \/ Fail \/ Stay \/ Leave

Next ==
  \/ Click \/ Tick \/ Focus \/ LeaveField \/ Persist \/ Start \/ Stop \/ Step \/ Crash
  \/ BoxOfGlobal
  \/ \E n \in Name : BoxOfGroup(n)
  \/ \E p \in Pid : BoxOfChild(p)
  \/ \E p \in Pid, n \in Name : Launch(p, n)
  \/ \E p \in Pid : Exit(p)

\* A callback ends; a field that has the focus is left; and the timer does not find a callback or a
\* field every time.
Spec == Init /\ [][Next]_vars /\ WF_vars(Step) /\ SF_vars(LeaveField) /\ SF_vars(Tick)

-----------------------------------------------------------------------------
(* Properties. *)

TypeOK ==
  /\ proc \in [Pid -> Name \cup {NoName}] /\ running \in BOOLEAN
  /\ rules \in [Pid -> Rule] /\ engine \in [Pid -> Rule] /\ name_rules \in [Name -> Rule]
  /\ \A p \in Pid : engine[p].limit # 0 => engine[p].box
  /\ global_rule \in Rule /\ limit_editing \in BOOLEAN

(***************************************************************************)
(* A running engine enforces exactly the rules the UI holds, and a stopped *)
(* one nothing else: whatever was edited, inherited, started or reused     *)
(* meanwhile (apply_rule_to_row, apply_name_rules_from, push_all_rules).   *)
(***************************************************************************)
EngineFollows ==
  \A p \in Pid :
    engine[p] = Runtime(rules[p]) \/ (~running /\ engine[p] = NoRule)

(***************************************************************************)
(* A process of a name with a template gets a rule, however its start      *)
(* falls between ticks and edits, unless it ends or the template goes; a   *)
(* field that is being edited puts off the refresh that inherits, but not  *)
(* for good (apply_name_rules_from, can_refresh_table).                    *)
(***************************************************************************)
NewcomersCovered ==
  \A p \in Pid, n \in Name :
    (proc[p] = n /\ name_rules[n] # NoRule) ~>
      (proc[p] # n \/ name_rules[n] = NoRule \/ rules[p] # NoRule)

(***************************************************************************)
(* The next program starts with the templates and the global rule of this  *)
(* one ("Rules are restored when matching processes appear again",         *)
(* README.md:300), if the last save did not fail: with all of them when    *)
(* the program ends, and, when it crashes, with all of them but the edit   *)
(* that was not saved yet.  Nothing is promised of a crash while the file  *)
(* is written, when all of them are lost (persist_settings, save,          *)
(* from_contents).                                                         *)
(***************************************************************************)
Unsaved == \E i \in 1 .. Len(todo) : todo[i] = "persist"
Restored ==
  [][(Leave \/ (Crash /\ ~Due("write"))) /\ kept # {} =>
       Saved' = Saved \/ (Unsaved /\ Saved' \in kept)]_vars

(***************************************************************************)
(* Leaving a field as it is shown changes no rule, in either unit, although *)
(* every field that loses the focus is submitted and a limit is kept in    *)
(* KiB/s and shown rounded, in Kb/s (README.md:317; edit_row_limit).  The  *)
(* rows must be fresh, and the processes of a group must have one rule,    *)
(* also their template: else they all get that of the row                  *)
(* (apply_rule_to_row).                                                    *)
(***************************************************************************)
Kept == name_rules' = name_rules /\ \A p \in Pid : rules'[p] \in {rules[p], Inherited(rules, name_rules)[p]}
LeftAsShown ==
  [][\A unit \in Unit :
       /\ \A n \in Name :
            /\ LeaveGroup(n, LimitText(GroupRule(n).limit, unit), unit)
            /\ name_rules[n] = GroupRule(n) /\ \A p \in Members(n) : rules[p] = GroupRule(n)
            => Kept
       /\ \A p \in Pid :
            LeaveChild(p, LimitText(rows.rules[p].limit, unit), unit) /\ rules[p] = rows.rules[p]
            => Kept]_vars

(***************************************************************************)
(* PID overrides are session-only (README.md:224): an edit of a group's    *)
(* box changes the box of the template that is saved, and not its limit,   *)
(* whatever limit one of the processes has of its own.                     *)
(***************************************************************************)
OverridesStayOut ==
  [][\A n \in Name :
       BoxOfGroup(n) => name_rules'[n].limit = name_rules[n].limit]_vars
=============================================================================
