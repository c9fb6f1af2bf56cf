-------------------------- MODULE RuleStore_proof ---------------------------
(***************************************************************************)
(* Proofs about RuleStore, for any processes, names and limits: a running  *)
(* engine enforces exactly the rules of the UI; a field that is left as it *)
(* is shown changes no rule; and what the program had is restored.         *)
(***************************************************************************)
EXTENDS RuleStore, TLAPS, WellFoundedInduction

\* EngineFollows, of one process with rule r in the UI and e in the engine.
Follows(r, e) == e = Runtime(r) \/ (~running /\ e = NoRule)
RowsType == [proc : [Pid -> Name \cup {NoName}], rules : [Pid -> Rule]]
RulesTyped ==
  /\ rules \in [Pid -> Rule] /\ engine \in [Pid -> Rule] /\ name_rules \in [Name -> Rule]
  /\ rows \in RowsType
  /\ \A p \in Pid : engine[p].limit # 0 => engine[p].box
StoreInv ==
  /\ proc \in [Pid -> Name \cup {NoName}] /\ running \in BOOLEAN
  /\ RulesTyped /\ EngineFollows /\ global_rule \in Rule /\ limit_editing \in BOOLEAN

LEMMA NoRuleTyped == NoRule \in Rule /\ Runtime(NoRule) = NoRule
BY RuleStoreAssumption DEF NoRule, Rule, Runtime

LEMMA RuntimeTyped == \A r \in Rule : Runtime(r) \in Rule /\ (Runtime(r).limit # 0 => Runtime(r).box)
BY NoRuleTyped DEF Runtime, NoRule

LEMMA LeastOf == ASSUME NEW S \in SUBSET Nat, S # {} PROVE \E p \in S : \A q \in S : p <= q
<1> DEFINE R == {ss \in Nat \X Nat : ss[1] < ss[2]}
<1>1. IsWellFoundedOn(R, Nat)
  BY NatLessThanWellFounded DEF OpToRel
<1> HIDE DEF R
<1>2. PICK x \in S : \A y \in S : ~(<<y, x>> \in R)
  BY <1>1, WFMin
<1>3. ASSUME NEW y \in S PROVE x <= y
  <2>1. ~(y < x) /\ x \in Nat /\ y \in Nat
    BY <1>2 DEF R
  <2> QED BY <2>1
<1> QED BY <1>3

\* The rule of a row is a rule.
LEMMA GroupRuleTyped == ASSUME StoreInv, NEW n PROVE GroupRule(n) \in Rule /\ Members(n) \in SUBSET Pid
<1> DEFINE ruled == {p \in Members(n) : rows.rules[p] # NoRule}
           first == CHOOSE p \in ruled : \A q \in ruled : p <= q
<1>1. rows.rules \in [Pid -> Rule] /\ Members(n) \in SUBSET Pid /\ ruled \in SUBSET Pid
  BY DEF StoreInv, RulesTyped, RowsType, Members
<1>2. GroupRule(n) = IF ruled = {} THEN NoRule ELSE rows.rules[first]
  BY DEF GroupRule
<1>3. CASE ruled = {}
  BY <1>1, <1>2, <1>3, NoRuleTyped
<1>4. CASE ruled # {}
  <2> HIDE DEF ruled
  <2>1. \E p \in ruled : \A q \in ruled : p <= q
    BY <1>1, <1>4, LeastOf, RuleStoreAssumption
  <2>2. first \in ruled
    BY <2>1
  <2> HIDE DEF first
  <2> QED BY <1>1, <1>2, <1>4, <2>2
<1> QED BY <1>3, <1>4

LEMMA RowsTyped == ASSUME StoreInv, NEW r \in [Pid -> Rule] PROVE Rows(r) \in RowsType
BY NoRuleTyped DEF Rows, RowsType, StoreInv

LEMMA StoreInit == Init => StoreInv
<1> SUFFICES ASSUME Init PROVE StoreInv
  OBVIOUS
<1>1. rules \in [Pid -> Rule] /\ engine = rules /\ \A p \in Pid : engine[p] = NoRule
  BY NoRuleTyped DEF Init, NoRules
<1>2. rows \in RowsType
  BY <1>1 DEF Init, NoRules, RowsType
<1>3. \A p \in Pid : engine[p].limit # 0 => engine[p].box
  BY <1>1 DEF NoRule
<1>4. global_rule \in Rule /\ name_rules \in [Name -> Rule]
  BY NoRuleTyped DEF Init, NoTemplates
<1> QED BY <1>1, <1>2, <1>3, <1>4 DEF Init, StoreInv, RulesTyped, EngineFollows

(***************************************************************************)
(* Inheriting keeps the engine with the rules, from any rules r and engine *)
(* e that agree.                                                           *)
(***************************************************************************)
Agree(r, e) == \A p \in Pid : Follows(r[p], e[p]) /\ (e[p].limit # 0 => e[p].box)
LEMMA InheritKeeps ==
  ASSUME StoreInv, NEW r \in [Pid -> Rule], NEW e \in [Pid -> Rule], NEW t \in [Name -> Rule], Agree(r, e)
  PROVE  /\ Inherited(r, t) \in [Pid -> Rule] /\ Pushed(e, r, t) \in [Pid -> Rule]
         /\ Agree(Inherited(r, t), Pushed(e, r, t))
<1> DEFINE i == Inherited(r, t)
           u == Pushed(e, r, t)
<1>1. ASSUME NEW p \in Live PROVE p \in Pid /\ t[proc[p]] \in Rule
  BY DEF Live, StoreInv
<1>2. i \in [Pid -> Rule]
  BY <1>1 DEF Inherited
<1>3. ASSUME NEW p \in Pid
      PROVE  /\ u[p] = IF running /\ i[p] # r[p] THEN Runtime(i[p]) ELSE e[p]
             /\ i[p] # r[p] => r[p] = NoRule
  BY DEF Pushed, Inherited
<1>4. u \in [Pid -> Rule]
  BY <1>2, RuntimeTyped DEF Pushed
<1>5. ASSUME NEW p \in Pid
      PROVE  Follows(i[p], u[p]) /\ (u[p].limit # 0 => u[p].box)
  <2>1. CASE i[p] = r[p]
    BY <1>3, <2>1 DEF Agree
  <2>2. CASE i[p] # r[p] /\ running
    BY <1>2, <1>3, <2>2, RuntimeTyped DEF Follows
  <2>3. CASE i[p] # r[p] /\ ~running
    BY <1>3, <2>3, NoRuleTyped DEF Follows, Agree
  <2> QED BY <2>1, <2>2, <2>3
<1> QED BY <1>2, <1>4, <1>5 DEF Agree

\* What a step has to keep: rules and an engine that agree, rows, templates and a global rule.
LEMMA KeepsInv ==
  ASSUME StoreInv, UNCHANGED <<proc, running>>, limit_editing' \in BOOLEAN,
         rules' \in [Pid -> Rule], engine' \in [Pid -> Rule], Agree(rules', engine'),
         rows' \in RowsType, name_rules' \in [Name -> Rule], global_rule' \in Rule
  PROVE  StoreInv'
<1>1. RulesTyped'
  BY DEF RulesTyped, Agree, RowsType
<1>2. EngineFollows'
  BY DEF EngineFollows, Agree, Follows, Runtime
<1> QED BY <1>1, <1>2 DEF StoreInv

LEMMA InvAgrees ==
  StoreInv => /\ rules \in [Pid -> Rule] /\ engine \in [Pid -> Rule] /\ Agree(rules, engine)
              /\ rows \in RowsType /\ name_rules \in [Name -> Rule] /\ global_rule \in Rule
              /\ limit_editing \in BOOLEAN
BY DEF StoreInv, RulesTyped, EngineFollows, Agree, Follows

\* Steps that leave the rules alone.
LEMMA OthersKeep ==
  ASSUME StoreInv, UNCHANGED <<proc, running, rows, rules, engine, savedVars>>, limit_editing' \in BOOLEAN
  PROVE  StoreInv'
<1>1. UNCHANGED <<proc, running, rows, rules, engine>> /\ name_rules' = name_rules /\ global_rule' = global_rule
  BY DEF savedVars
<1> QED BY <1>1, InvAgrees, KeepsInv

\* rebuild_rows, from rules and an engine that agree.
LEMMA RebuildKeeps ==
  ASSUME StoreInv, NEW r \in [Pid -> Rule], NEW e \in [Pid -> Rule], NEW t \in [Name -> Rule], Agree(r, e),
         Rebuild(r, t, e), name_rules' \in [Name -> Rule], global_rule' \in Rule, UNCHANGED <<proc, running>>,
         limit_editing' \in BOOLEAN
  PROVE  StoreInv'
<1>1. rules' = Inherited(r, t) /\ engine' = Pushed(e, r, t) /\ rows' = Rows(rules')
  BY DEF Rebuild
<1>2. rules' \in [Pid -> Rule] /\ engine' \in [Pid -> Rule] /\ Agree(rules', engine')
  BY <1>1, InheritKeeps
<1>3. rows' \in RowsType
  BY <1>1, <1>2, RowsTyped
<1> QED BY <1>2, <1>3, KeepsInv

\* render_rows, of the rules there are.
LEMMA RenderKeeps ==
  ASSUME StoreInv, Rebuild(rules, name_rules, engine), UNCHANGED <<proc, running, savedVars>>,
         limit_editing' \in BOOLEAN
  PROVE  StoreInv'
<1>1. name_rules' = name_rules /\ global_rule' = global_rule
  BY DEF savedVars
<1>2. name_rules' \in [Name -> Rule] /\ global_rule' \in Rule
  BY <1>1, InvAgrees
<1> QED BY <1>2, InvAgrees, RebuildKeeps

LEMMA ApplyKeeps ==
  ASSUME StoreInv, NEW ps \in SUBSET Pid, NEW r \in Rule, NEW t \in [Name -> Rule], NEW g \in Rule,
         Apply(ps, r, t, g), limit_editing' \in BOOLEAN
  PROVE  StoreInv'
<1> DEFINE set == [p \in Pid |-> IF p \in ps THEN r ELSE rules[p]]
           pushed == [p \in Pid |-> IF p \in ps THEN Runtime(r) ELSE engine[p]]
<1>1. set \in [Pid -> Rule] /\ pushed \in [Pid -> Rule]
  BY InvAgrees, RuntimeTyped
<1>2. Agree(set, pushed)
  <2>1. ASSUME NEW p \in ps PROVE Follows(set[p], pushed[p]) /\ (pushed[p].limit # 0 => pushed[p].box)
    BY RuntimeTyped DEF Follows
  <2>2. ASSUME NEW p \in Pid, p \notin ps
        PROVE  Follows(set[p], pushed[p]) /\ (pushed[p].limit # 0 => pushed[p].box)
    BY <2>2, InvAgrees DEF Agree
  <2> QED BY <2>1, <2>2 DEF Agree
<1>3. name_rules' = t /\ global_rule' = g /\ UNCHANGED <<proc, running>>
  BY DEF Apply
<1>4. CASE Rebuild(set, t, pushed)
  <2> HIDE DEF set, pushed
  <2> QED BY <1>1, <1>2, <1>3, <1>4, RebuildKeeps
<1>5. CASE rules' = set /\ engine' = pushed /\ rows' = rows
  <2> HIDE DEF set, pushed
  <2> QED BY <1>1, <1>2, <1>3, <1>5, InvAgrees, KeepsInv
<1> QED BY <1>4, <1>5 DEF Apply

\* An edit, of a group, of a process or of the global rule.
Edits ==
  \/ \E n \in Name, r \in Rule : ToGroup(n, r)
  \/ \E p \in Pid, r \in Rule : ToChild(p, r)
  \/ \E r \in Rule : ToGlobal(r)

LEMMA EditsKeep == ASSUME StoreInv, Edits, limit_editing' \in BOOLEAN PROVE StoreInv'
<1>1. ASSUME NEW n \in Name, NEW r \in Rule, ToGroup(n, r) PROVE StoreInv'
  <2>1. [name_rules EXCEPT ![n] = r] \in [Name -> Rule] /\ Members(n) \in SUBSET Pid /\ global_rule \in Rule
    BY InvAgrees, GroupRuleTyped
  <2>2. Apply(Members(n), r, [name_rules EXCEPT ![n] = r], global_rule)
    BY <1>1 DEF ToGroup
  <2> QED BY <2>1, <2>2, ApplyKeeps
<1>2. ASSUME NEW p \in Pid, NEW r \in Rule, ToChild(p, r) PROVE StoreInv'
  <2>1. Apply({p}, r, name_rules, global_rule) /\ {p} \in SUBSET Pid
    BY <1>2 DEF ToChild
  <2> QED BY <2>1, InvAgrees, ApplyKeeps
<1>3. ASSUME NEW r \in Rule, ToGlobal(r) PROVE StoreInv'
  <2>1. Apply({}, NoRule, name_rules, r) /\ {} \in SUBSET Pid
    BY <1>3 DEF ToGlobal
  <2> QED BY <2>1, InvAgrees, NoRuleTyped, ApplyKeeps
<1> QED BY <1>1, <1>2, <1>3 DEF Edits

-----------------------------------------------------------------------------
(* What the fields show. *)

\* Rounding to the nearest: k / 1000 units of 8192, with k the rounded 1.024.
LEMMA BitsReadBack ==
  ASSUME NEW k \in Nat PROVE Rounded(1000 * Rounded(8 * 1024 * k, 1000), 8 * 1024) = k
<1> DEFINE t == (2 * (8192 * k) + 1000) \div 2000
<1>1. t \in Int /\ 2000 * t <= 16384 * k + 1000 /\ 16384 * k + 1000 < 2000 * t + 2000
  OBVIOUS
<1>2. 16384 * k <= 2000 * t + 8192 /\ 2000 * t + 8192 < 16384 * k + 16384
  BY <1>1
<1> HIDE DEF t
<1>3. (2000 * t + 8192) \div 16384 = k
  BY <1>1, <1>2
<1> QED BY <1>3 DEF t, Rounded

LEMMA LimitsRead == LimitsReadBack
<1> SUFFICES ASSUME NEW unit \in Unit, NEW k \in 0 .. MaxLimit PROVE LimitOf(LimitText(k, unit), unit) = k
  BY DEF LimitsReadBack
<1>1. k \in Nat /\ k <= MaxLimit /\ MaxLimit \in Nat
  BY FieldsAssumption
<1>2. CASE unit = "bits"
  BY <1>1, <1>2, BitsReadBack DEF LimitText, LimitOf
<1>3. CASE unit = "bytes"
  <2>1. LimitText(k, unit) = 1000 * k
    BY <1>3 DEF LimitText
  <2>2. (1000 * k) \div 1000 = k /\ (1000 * k) % 1000 = 0
    BY <1>1
  <2> QED BY <1>1, <1>3, <2>1, <2>2 DEF LimitOf
<1> QED BY <1>2, <1>3 DEF Unit

\* The remainders of points, as its digits.
LEMMA Digits ==
  ASSUME NEW points \in Nat
  PROVE  /\ points \div 100 \in Nat /\ points % 100 \in Nat /\ (points % 100) \div 10 \in Nat /\ points % 10 \in Nat
         /\ points = 100 * (points \div 100) + (points % 100)
         /\ points % 100 = 10 * ((points % 100) \div 10) + (points % 10)
<1> DEFINE whole == points \div 100
           rest == points % 100
           tenths == rest \div 10
           last == rest % 10
<1>1. whole \in Nat /\ rest \in Nat /\ points = 100 * whole + rest
  OBVIOUS
<1> HIDE DEF whole, rest
<1>2. tenths \in Nat /\ last \in 0 .. 9 /\ rest = 10 * tenths + last
  BY <1>1
<1> HIDE DEF tenths, last
<1>3. points % 10 = last
  <2>1. points = 10 * (10 * whole + tenths) + last /\ 10 * whole + tenths \in Nat
    BY <1>1, <1>2
  <2> QED BY <1>2, <2>1
<1> QED BY <1>1, <1>2, <1>3 DEF whole, rest, tenths

\* Reading a text by its number of digits.
LEMMA LossOfNone ==
  ASSUME NEW text, text.fraction = <<>>, ~text.point, text.whole \in Nat, 100 * text.whole <= MaxLoss
  PROVE  LossOf(text) = 100 * text.whole
<1>1. Len(text.fraction) = 0
  OBVIOUS
<1> QED BY <1>1 DEF LossOf, MaxLoss

LEMMA LossOfOne ==
  ASSUME NEW text, NEW tenths \in Nat, text.fraction = <<tenths>>, text.whole \in Nat,
         100 * text.whole + 10 * tenths <= MaxLoss
  PROVE  LossOf(text) = 100 * text.whole + 10 * tenths
<1>1. Len(text.fraction) = 1 /\ text.fraction[1] = tenths /\ text.fraction # <<>>
  OBVIOUS
<1> QED BY <1>1 DEF LossOf, MaxLoss

LEMMA LossOfTwo ==
  ASSUME NEW text, NEW tenths \in Nat, NEW hundredths \in Nat, text.fraction = <<tenths, hundredths>>,
         text.whole \in Nat, 100 * text.whole + (10 * tenths + hundredths) <= MaxLoss
  PROVE  LossOf(text) = 100 * text.whole + (10 * tenths + hundredths)
<1>1. /\ Len(text.fraction) = 2 /\ text.fraction # <<>>
      /\ text.fraction[1] = tenths /\ text.fraction[2] = hundredths
  OBVIOUS
<1> QED BY <1>1 DEF LossOf, MaxLoss

\* One loss reads back.
LEMMA LossReads ==
  ASSUME NEW points \in Nat, points <= MaxLoss
  PROVE  LossOf(LossText(points)) = points
<1> DEFINE whole == points \div 100
           rest == points % 100
           tenths == rest \div 10
           hundredths == points % 10
           text == LossText(points)
<1>1. /\ whole \in Nat /\ rest \in Nat /\ tenths \in Nat /\ hundredths \in Nat
      /\ points = 100 * whole + rest /\ rest = 10 * tenths + hundredths /\ points <= MaxLoss
  BY Digits
<1>2. /\ text.whole = whole /\ (rest = 0 => ~text.point)
      /\ text.fraction = IF rest = 0 THEN <<>> ELSE IF hundredths = 0 THEN <<tenths>> ELSE <<tenths, hundredths>>
  <2>1. /\ text.whole = whole /\ text.point = (rest # 0)
        /\ text.fraction = IF rest = 0 THEN <<>>
                           ELSE IF hundredths = 0 THEN <<tenths>> ELSE <<tenths, hundredths>>
    BY DEF LossText
  <2> HIDE DEF text, whole, rest, tenths, hundredths
  <2>2. ASSUME rest = 0 PROVE ~text.point
    BY <2>1, <2>2
  <2> QED BY <2>1, <2>2
<1> HIDE DEF text, whole, rest, tenths, hundredths
<1>3. CASE rest = 0
  <2>1. text.fraction = <<>> /\ ~text.point /\ text.whole \in Nat /\ 100 * text.whole <= MaxLoss
    BY <1>1, <1>2, <1>3
  <2> QED BY <1>1, <1>2, <1>3, <2>1, LossOfNone DEF text
<1>4. CASE rest # 0 /\ hundredths = 0
  <2>1. text.fraction = <<tenths>> /\ text.whole \in Nat /\ 100 * text.whole + 10 * tenths <= MaxLoss
    BY <1>1, <1>2, <1>4
  <2> QED BY <1>1, <1>2, <1>4, <2>1, LossOfOne DEF text
<1>5. CASE rest # 0 /\ hundredths # 0
  <2>1. /\ text.fraction = <<tenths, hundredths>> /\ text.whole \in Nat
        /\ 100 * text.whole + (10 * tenths + hundredths) <= MaxLoss
    BY <1>1, <1>2, <1>5
  <2> QED BY <1>1, <1>2, <1>5, <2>1, LossOfTwo DEF text
<1> QED BY <1>3, <1>4, <1>5

LEMMA LossesRead == LossesReadBack
<1>1. ASSUME NEW points \in 0 .. MaxLoss PROVE LossOf(LossText(points)) = points
  <2>1. points \in Nat /\ points <= MaxLoss
    BY DEF MaxLoss
  <2> QED BY <2>1, LossReads
<1> QED BY <1>1 DEF LossesReadBack

\* A limit that is shown is one that may be typed.
LEMMA WithLimitTyped ==
  ASSUME NEW r \in Rule, NEW v \in Limit, NEW unit \in Unit
  PROVE  /\ LimitOf(LimitText(v, unit), unit) = v
         /\ WithLimit(r, LimitText(v, unit), unit) \in Rule
         /\ v = r.limit => WithLimit(r, LimitText(v, unit), unit) = r
<1>1. LimitOf(LimitText(v, unit), unit) = v
  <2>1. v \in 0 .. MaxLimit
    BY RuleStoreAssumption
  <2> QED BY <2>1, LimitsRead DEF LimitsReadBack
<1> QED BY <1>1 DEF WithLimit, Rule

-----------------------------------------------------------------------------
(* The rules and the engine. *)

\* What is read from any file is a rule.
LEMMA LoadedTyped ==
  ASSUME NEW lines PROVE LoadedGlobal(lines) \in Rule /\ LoadedNames(lines) \in [Name -> Rule]
<1>1. ASSUME NEW n PROVE RuleIn(lines, n) \in Rule
  <2> DEFINE limits == Read(lines, n, "limit") \cap Limit
  <2>1. (IF limits = {} THEN 0 ELSE CHOOSE v \in limits : TRUE) \in Limit
    BY RuleStoreAssumption
  <2>2. (1 \in Read(lines, n, "box")) \in BOOLEAN
    OBVIOUS
  <2> QED BY <2>1, <2>2 DEF RuleIn, Rule
<1> QED BY <1>1, NoRuleTyped DEF LoadedGlobal, LoadedNames

\* A new program, whatever it reads: nothing is in its engine.
LEMMA NewProgramKeeps == ASSUME StoreInv, NewProgram PROVE StoreInv'
<1>1. global_rule' \in Rule /\ name_rules' \in [Name -> Rule]
  BY LoadedTyped DEF NewProgram
<1>2. rules' \in [Pid -> Rule]
  <2>1. ASSUME NEW p \in Live PROVE name_rules'[proc[p]] \in Rule
    BY <1>1 DEF Live, StoreInv
  <2> QED BY <2>1, NoRuleTyped DEF NewProgram, Inherited, NoRules
<1>3. /\ engine' \in [Pid -> Rule] /\ running' = FALSE /\ proc' = proc /\ limit_editing' = FALSE
      /\ \A p \in Pid : engine'[p] = NoRule
  BY NoRuleTyped DEF NewProgram, NoRules
<1>4. rows' \in RowsType
  BY <1>2, RowsTyped DEF NewProgram
<1>5. RulesTyped'
  BY <1>1, <1>2, <1>3, <1>4 DEF RulesTyped, NoRule, RowsType
<1> QED BY <1>1, <1>3, <1>5 DEF StoreInv, EngineFollows

\* Fields and boxes edit the rule of their row.
LEMMA LeaveFieldEdits ==
  ASSUME StoreInv, LeaveField PROVE StoreInv'
<1>1. limit_editing' \in BOOLEAN
  BY DEF LeaveField, LeaveUnread, LeaveGlobal, LeaveGroup, LeaveChild, Left
<1>2. CASE LeaveUnread
  <2>1. Rebuild(rules, name_rules, engine) /\ UNCHANGED <<proc, running, savedVars>>
    BY <1>2 DEF LeaveUnread
  <2> QED BY <1>1, <2>1, RenderKeeps
<1>3. ASSUME NEW unit \in Unit, NEW v \in Limit, LeaveGlobal(LimitText(v, unit), unit) PROVE StoreInv'
  <2>1. WithLimit(global_rule, LimitText(v, unit), unit) \in Rule
    BY InvAgrees, WithLimitTyped
  <2> QED BY <1>1, <1>3, <2>1, EditsKeep DEF LeaveGlobal, Edits
<1>4. ASSUME NEW unit \in Unit, NEW v \in Limit, NEW n \in Name, LeaveGroup(n, LimitText(v, unit), unit)
      PROVE  StoreInv'
  <2>1. WithLimit(GroupRule(n), LimitText(v, unit), unit) \in Rule
    BY GroupRuleTyped, WithLimitTyped
  <2> QED BY <1>1, <1>4, <2>1, EditsKeep DEF LeaveGroup, Edits
<1>5. ASSUME NEW unit \in Unit, NEW v \in Limit, NEW p \in Pid, LeaveChild(p, LimitText(v, unit), unit)
      PROVE  StoreInv'
  <2>1. rows.rules[p] \in Rule
    BY InvAgrees DEF RowsType
  <2>2. WithLimit(rows.rules[p], LimitText(v, unit), unit) \in Rule
    BY <2>1, WithLimitTyped
  <2> QED BY <1>1, <1>5, <2>2, EditsKeep DEF LeaveChild, Edits
<1> QED BY <1>2, <1>3, <1>4, <1>5 DEF LeaveField

LEMMA BoxesEdit ==
  ASSUME StoreInv, Box, BoxOfGlobal \/ (\E n \in Name : BoxOfGroup(n)) \/ (\E p \in Pid : BoxOfChild(p))
  PROVE  StoreInv'
<1>1. limit_editing' \in BOOLEAN
  BY InvAgrees DEF Box, fieldVars
<1>2. ASSUME NEW r \in Rule PROVE [r EXCEPT !.box = ~r.box] \in Rule
  BY DEF Rule
<1>3. CASE BoxOfGlobal
  BY <1>1, <1>2, <1>3, InvAgrees, EditsKeep DEF BoxOfGlobal, Edits
<1>4. ASSUME NEW n \in Name, BoxOfGroup(n) PROVE StoreInv'
  <2>1. [GroupRule(n) EXCEPT !.box = ~GroupRule(n).box] \in Rule
    BY <1>2, GroupRuleTyped
  <2> QED BY <1>1, <1>4, <2>1, EditsKeep DEF BoxOfGroup, Edits
<1>5. ASSUME NEW p \in Pid, BoxOfChild(p) PROVE StoreInv'
  <2>1. rows.rules[p] \in Rule
    BY InvAgrees DEF RowsType
  <2>2. [rows.rules[p] EXCEPT !.box = ~rows.rules[p].box] \in Rule
    BY <1>2, <2>1
  <2> QED BY <1>1, <1>5, <2>2, EditsKeep DEF BoxOfChild, Edits
<1> QED BY <1>3, <1>4, <1>5

LEMMA SavingKeeps == ASSUME StoreInv, Saving PROVE StoreInv'
<1>1. limit_editing' \in BOOLEAN
  BY InvAgrees DEF Saving, Others, fieldVars
<1>2. CASE Tail(todo) = <<"render">>
  <2>1. Rebuild(rules, name_rules, engine) /\ UNCHANGED <<proc, running, savedVars>>
    BY <1>2 DEF Saving
  <2> QED BY <1>1, <2>1, RenderKeeps
<1>3. CASE Tail(todo) # <<"render">>
  BY <1>1, <1>3, OthersKeep DEF Saving, Others
<1> QED BY <1>2, <1>3

LEMMA StoreStep == StoreInv /\ [Next]_vars => StoreInv'
<1> SUFFICES ASSUME StoreInv, [Next]_vars PROVE StoreInv'
  OBVIOUS
<1>1. CASE Click
  <2>1. Rebuild(rules, name_rules, engine) /\ UNCHANGED <<proc, running, savedVars>> /\ limit_editing' \in BOOLEAN
    BY <1>1, InvAgrees DEF Click, fieldVars
  <2> QED BY <2>1, RenderKeeps
<1>2. CASE Tick
  <2>1. rules' \in [Pid -> Rule] /\ engine' \in [Pid -> Rule] /\ Agree(rules', engine')
    BY <1>2, InvAgrees, InheritKeeps DEF Tick
  <2>2. rows' \in RowsType
    BY <1>2, <2>1, InvAgrees, RowsTyped DEF Tick
  <2>3. /\ proc' = proc /\ running' = running /\ name_rules' = name_rules /\ global_rule' = global_rule
        /\ limit_editing' = limit_editing
    BY <1>2 DEF Tick, savedVars, fieldVars
  <2> QED BY <2>1, <2>2, <2>3, InvAgrees, KeepsInv
<1>3. CASE Focus
  <2>1. UNCHANGED <<proc, running, rows, rules, engine, savedVars>> /\ limit_editing' \in BOOLEAN
    BY <1>3 DEF Focus
  <2> QED BY <2>1, OthersKeep
<1>4. CASE Persist \/ Stay \/ Empty
  <2>1. UNCHANGED <<proc, running, rows, rules, engine, savedVars>> /\ limit_editing' \in BOOLEAN
    BY <1>4, InvAgrees DEF Persist, Stay, Empty, Others, fieldVars
  <2> QED BY <2>1, OthersKeep
<1>5. CASE Write \/ Fail
  BY <1>5, SavingKeeps DEF Write, Fail
<1>6. CASE Start
  <2>1. /\ running' \in BOOLEAN /\ proc' = proc /\ rules' = rules /\ name_rules' = name_rules /\ rows' = rows
        /\ global_rule' = global_rule /\ limit_editing' = limit_editing
        /\ engine' = [p \in Pid |-> IF rules[p] # NoRule THEN Runtime(rules[p]) ELSE engine[p]]
    BY <1>6 DEF Start, PushAll, savedVars, fieldVars
  <2>2. ASSUME NEW p \in Pid
        PROVE  engine'[p] \in Rule /\ engine'[p] = Runtime(rules[p]) /\ (engine'[p].limit # 0 => engine'[p].box)
    <3>1. engine'[p] = Runtime(rules[p])
      BY <2>1, InvAgrees, NoRuleTyped DEF Agree, Follows
    <3> QED BY <3>1, InvAgrees, RuntimeTyped
  <2>3. engine' \in [Pid -> Rule]
    BY <2>1, <2>2
  <2>4. RulesTyped'
    BY <2>1, <2>2, <2>3 DEF StoreInv, RulesTyped, RowsType
  <2>5. EngineFollows'
    BY <2>1, <2>2 DEF EngineFollows, Runtime
  <2> QED BY <2>1, <2>4, <2>5 DEF StoreInv
<1>7. CASE Stop
  BY <1>7 DEF Stop, savedVars, fieldVars, StoreInv, RulesTyped, RowsType, EngineFollows, Runtime
<1>8. ASSUME NEW p \in Pid, NEW n \in Name, Launch(p, n) PROVE StoreInv'
  BY <1>8 DEF Launch, savedVars, fieldVars, StoreInv, RulesTyped, RowsType, EngineFollows, Runtime
<1>9. ASSUME NEW p \in Pid, Exit(p) PROVE StoreInv'
  BY <1>9 DEF Exit, savedVars, fieldVars, StoreInv, RulesTyped, RowsType, EngineFollows, Runtime
<1>10. CASE UNCHANGED vars
  BY <1>10 DEF vars, savedVars, fieldVars, StoreInv, RulesTyped, RowsType, EngineFollows, Runtime
<1>11. CASE LeaveField
  BY <1>11, LeaveFieldEdits
<1>12. CASE BoxOfGlobal \/ (\E n \in Name : BoxOfGroup(n)) \/ (\E p \in Pid : BoxOfChild(p))
  BY <1>12, BoxesEdit DEF BoxOfGlobal, BoxOfGroup, BoxOfChild
<1>13. CASE Leave \/ Crash
  BY <1>13, NewProgramKeeps DEF Leave, Crash
<1> QED BY <1>1, <1>2, <1>3, <1>4, <1>5, <1>6, <1>7, <1>8, <1>9, <1>10, <1>11, <1>12, <1>13 DEF Next, Step

(***************************************************************************)
(* The rules keep their type, and a limit without its box is never in the  *)
(* engine (runtime_rule).                                                  *)
(***************************************************************************)
THEOREM TypeCorrect == Spec => []TypeOK
<1>1. StoreInv => TypeOK
  BY DEF StoreInv, RulesTyped, TypeOK
<1> QED BY <1>1, StoreInit, StoreStep, PTL DEF Spec

(***************************************************************************)
(* A running engine enforces exactly the rules the UI holds                *)
(* (apply_rule_to_row, apply_name_rules_from, push_all_rules).             *)
(***************************************************************************)
THEOREM EngineInStep == Spec => []EngineFollows
<1>1. StoreInv => EngineFollows
  BY DEF StoreInv
<1> QED BY <1>1, StoreInit, StoreStep, PTL DEF Spec

-----------------------------------------------------------------------------
(* A field that is left as it is shown. *)

\* An edit that sets the rule there is already changes at most what is inherited.
LEMMA SameApplied ==
  ASSUME StoreInv, NEW ps \in SUBSET Pid, NEW r, Apply(ps, r, name_rules, global_rule),
         \A p \in ps : rules[p] = r
  PROVE  Kept
<1> DEFINE set == [p \in Pid |-> IF p \in ps THEN r ELSE rules[p]]
<1>1. set = rules
  BY InvAgrees
<1>2. name_rules' = name_rules
  BY DEF Apply
<1>3. rules' = Inherited(set, name_rules) \/ rules' = set
  BY DEF Apply, Rebuild
<1> HIDE DEF set
<1>4. rules' = Inherited(rules, name_rules) \/ rules' = rules
  BY <1>1, <1>3
<1> QED BY <1>2, <1>4 DEF Kept

(***************************************************************************)
(* A field that is left as it is shown changes no rule but what a process  *)
(* inherits anyway, for any limits, in either unit: a process's own, and a *)
(* group's if its processes and its template have the one rule             *)
(* (edit_row_limit, apply_rule_to_row).                                    *)
(***************************************************************************)
THEOREM LeftChangesNothing == Spec => LeftAsShown
<1> DEFINE Group(unit, n) ==
             /\ LeaveGroup(n, LimitText(GroupRule(n).limit, unit), unit)
             /\ name_rules[n] = GroupRule(n) /\ \A p \in Members(n) : rules[p] = GroupRule(n)
           Child(unit, p) ==
             LeaveChild(p, LimitText(rows.rules[p].limit, unit), unit) /\ rules[p] = rows.rules[p]
<1>1. ASSUME StoreInv, NEW unit \in Unit, NEW n \in Name, Group(unit, n) PROVE Kept
  <2> DEFINE r == GroupRule(n)
  <2>1. r \in Rule /\ r.limit \in Limit /\ Members(n) \in SUBSET Pid
    BY <1>1, GroupRuleTyped DEF Rule
  <2>2. ToGroup(n, WithLimit(r, LimitText(r.limit, unit), unit))
    BY <1>1 DEF LeaveGroup
  <2>3. WithLimit(r, LimitText(r.limit, unit), unit) = r
    BY <2>1, WithLimitTyped
  <2>4. name_rules[n] = r /\ \A p \in Members(n) : rules[p] = r
    BY <1>1
  <2> HIDE DEF r
  <2>5. Apply(Members(n), r, [name_rules EXCEPT ![n] = r], global_rule)
    BY <2>2, <2>3 DEF ToGroup
  <2>6. [name_rules EXCEPT ![n] = r] = name_rules
    BY <1>1, <2>4, InvAgrees
  <2>7. Apply(Members(n), r, name_rules, global_rule)
    BY <2>5, <2>6
  <2> QED BY <1>1, <2>1, <2>4, <2>7, SameApplied
<1>2. ASSUME StoreInv, NEW unit \in Unit, NEW p \in Pid, Child(unit, p) PROVE Kept
  <2> DEFINE r == rows.rules[p]
  <2>1. r \in Rule /\ r.limit \in Limit
    BY <1>2, InvAgrees DEF RowsType, Rule
  <2>2. ToChild(p, WithLimit(r, LimitText(r.limit, unit), unit))
    BY <1>2 DEF LeaveChild
  <2>3. WithLimit(r, LimitText(r.limit, unit), unit) = r
    BY <2>1, WithLimitTyped
  <2>4. Apply({p}, r, name_rules, global_rule)
    BY <2>2, <2>3 DEF ToChild
  <2>5. rules[p] = r /\ {p} \in SUBSET Pid
    BY <1>2
  <2> QED BY <1>2, <2>4, <2>5, SameApplied
<1>3. StoreInv => \A unit \in Unit :
        /\ \A n \in Name : Group(unit, n) => Kept
        /\ \A p \in Pid : Child(unit, p) => Kept
  BY <1>1, <1>2
<1>4. StoreInv /\ [Next]_vars =>
        [\A unit \in Unit :
           /\ \A n \in Name : Group(unit, n) => Kept
           /\ \A p \in Pid : Child(unit, p) => Kept]_vars
  BY <1>3
<1> QED BY <1>4, StoreInit, StoreStep, PTL DEF Spec, LeftAsShown

-----------------------------------------------------------------------------
(* What is saved is what is read back. *)

\* The parts of names and of the lines of the file.
Words == {"rule", "global", ".", "limit", "box"} \cup UNION {{n[i] : i \in DOMAIN n} : n \in Name}
\* Names that no line of the file is mistaken for: they have no "=", and are not "global".
Plain == \A n \in Name : /\ n \in Seq(Words) /\ n # <<>> /\ n # <<"global">>
                         /\ \A i \in 1 .. Len(n) : n[i] # "="
NameKey(n, f) == <<"rule", ".">> \o n \o <<".", f>>
FieldName == {"limit", "box"}

LEMMA Joins ==
  ASSUME NEW S, NEW a \in Seq(S), NEW b \in Seq(S), NEW c, c = a \o b
  PROVE  /\ c \in Seq(S) /\ Len(a) \in Nat /\ Len(b) \in Nat /\ Len(c) = Len(a) + Len(b)
         /\ \A i \in 1 .. Len(a) : c[i] = a[i]
         /\ \A i \in 1 .. Len(b) : c[Len(a) + i] = b[i]
OBVIOUS

LEMMA NameKeyParts ==
  ASSUME NEW n \in Seq(Words), NEW f \in FieldName
  PROVE  /\ NameKey(n, f) \in Seq(Words) /\ Len(NameKey(n, f)) = Len(n) + 4
         /\ NameKey(n, f)[1] = "rule" /\ NameKey(n, f)[2] = "."
         /\ \A i \in 1 .. Len(n) : NameKey(n, f)[i + 2] = n[i]
         /\ NameKey(n, f)[Len(n) + 3] = "." /\ NameKey(n, f)[Len(n) + 4] = f
<1> DEFINE a == <<"rule", ".">>
           b == <<".", f>>
<1>1. "rule" \in Words /\ "." \in Words /\ f \in Words
  BY DEF Words, FieldName
<1>2. a \in Seq(Words) /\ Len(a) = 2 /\ a[1] = "rule" /\ a[2] = "."
  BY <1>1
<1>3. b \in Seq(Words) /\ Len(b) = 2 /\ b[1] = "." /\ b[2] = f
  BY <1>1
<1> HIDE DEF a, b
<1> DEFINE c == a \o n
           d == c \o b
<1>4. c = a \o n /\ d = c \o b /\ NameKey(n, f) = d
  BY DEF a, b, NameKey
<1> HIDE DEF c, d
<1>5. /\ c \in Seq(Words) /\ Len(c) = 2 + Len(n) /\ Len(n) \in Nat
      /\ \A i \in 1 .. 2 : c[i] = a[i]
      /\ \A i \in 1 .. Len(n) : c[2 + i] = n[i]
  <2>1. /\ c \in Seq(Words) /\ Len(c) = Len(a) + Len(n) /\ Len(n) \in Nat
        /\ \A i \in 1 .. Len(a) : c[i] = a[i]
        /\ \A i \in 1 .. Len(n) : c[Len(a) + i] = n[i]
    <3>1. n \in Seq(Words) /\ a \in Seq(Words) /\ c = a \o n
      BY <1>2, <1>4
    <3> QED BY ONLY <3>1, Joins
  <2> QED BY <1>2, <2>1
<1>6. /\ d \in Seq(Words) /\ Len(d) = Len(n) + 4
      /\ \A i \in 1 .. Len(n) + 2 : d[i] = c[i]
      /\ d[Len(n) + 3] = b[1] /\ d[Len(n) + 4] = b[2]
  <2>1. /\ d \in Seq(Words) /\ Len(d) = Len(c) + Len(b)
        /\ \A i \in 1 .. Len(c) : d[i] = c[i]
        /\ \A i \in 1 .. Len(b) : d[Len(c) + i] = b[i]
    <3>1. c \in Seq(Words) /\ b \in Seq(Words) /\ d = c \o b
      BY <1>3, <1>4, <1>5
    <3> QED BY ONLY <3>1, Joins
  <2>2. d[Len(c) + 1] = b[1] /\ d[Len(c) + 2] = b[2]
    BY <1>3, <2>1
  <2>3. Len(c) + 1 = Len(n) + 3 /\ Len(c) + 2 = Len(n) + 4
    BY <1>5
  <2> QED BY <1>3, <1>5, <2>1, <2>2, <2>3
<1>7. d[1] = "rule" /\ d[2] = "."
  BY <1>2, <1>5, <1>6
<1>8. ASSUME NEW i \in 1 .. Len(n) PROVE d[i + 2] = n[i]
  <2>1. i + 2 = 2 + i /\ i + 2 \in 1 .. Len(n) + 2
    BY <1>5
  <2> QED BY <1>5, <1>6, <2>1
<1> QED BY <1>3, <1>4, <1>6, <1>7, <1>8

\* Two keys are of the same name and field if they are the same.
LEMMA NameKeyUnique ==
  ASSUME NEW m \in Seq(Words), NEW n \in Seq(Words), NEW e \in FieldName, NEW f \in FieldName,
         NameKey(m, e) = NameKey(n, f)
  PROVE  m = n /\ e = f
<1> DEFINE k == NameKey(m, e)
<1>1. /\ Len(k) = Len(m) + 4 /\ k[Len(m) + 4] = e
      /\ \A i \in 1 .. Len(m) : k[i + 2] = m[i]
  BY NameKeyParts
<1>2. /\ Len(k) = Len(n) + 4 /\ k[Len(n) + 4] = f
      /\ \A i \in 1 .. Len(n) : k[i + 2] = n[i]
  BY NameKeyParts
<1> HIDE DEF k
<1>3. Len(m) = Len(n) /\ Len(m) \in Nat
  <2>1. Len(m) \in Nat /\ Len(n) \in Nat
    OBVIOUS
  <2> QED BY <1>1, <1>2, <2>1
<1>4. e = f /\ \A i \in 1 .. Len(m) : m[i] = n[i]
  BY <1>1, <1>2, <1>3
<1> QED BY <1>3, <1>4

\* No key is split.
LEMMA NameKeyWhole ==
  ASSUME Plain, NEW n \in Name, NEW f \in FieldName
  PROVE  Splits(NameKey(n, f)) = {} /\ KeyIn(NameKey(n, f)) = NameKey(n, f)
<1>1. n \in Seq(Words) /\ \A i \in 1 .. Len(n) : n[i] # "="
  BY DEF Plain
<1> DEFINE k == NameKey(n, f)
<1>2. /\ Len(k) = Len(n) + 4 /\ Len(n) \in Nat
      /\ k[1] = "rule" /\ k[2] = "." /\ k[Len(n) + 3] = "." /\ k[Len(n) + 4] = f
      /\ \A i \in 1 .. Len(n) : k[i + 2] = n[i]
  BY <1>1, NameKeyParts
<1>3. f # "="
  BY DEF FieldName
<1> HIDE DEF k
<1>4. ASSUME NEW i \in 1 .. Len(k) PROVE k[i] # "="
  <2>1. CASE i = 1 \/ i = 2
    BY <1>2, <2>1
  <2>2. CASE i = Len(n) + 3 \/ i = Len(n) + 4
    BY <1>2, <1>3, <2>2
  <2>3. CASE i > 2 /\ i < Len(n) + 3
    <3>1. i - 2 \in 1 .. Len(n) /\ i = (i - 2) + 2
      BY <1>2, <2>3
    <3>2. k[i] = n[i - 2]
      BY <1>2, <3>1
    <3> QED BY <1>1, <3>1, <3>2
  <2>4. i \in Int /\ 1 <= i /\ i <= Len(n) + 4
    BY <1>2
  <2> QED BY <1>2, <2>1, <2>2, <2>3, <2>4
<1>5. Splits(k) = {}
  BY <1>4 DEF Splits
<1> QED BY <1>5 DEF KeyIn, k

LEMMA GlobalKeyWhole ==
  ASSUME NEW f \in FieldName
  PROVE  Splits(<<"global", ".", f>>) = {} /\ KeyIn(<<"global", ".", f>>) = <<"global", ".", f>>
<1>1. Len(<<"global", ".", f>>) = 3
  OBVIOUS
<1>2. /\ <<"global", ".", f>>[1] = "global" /\ <<"global", ".", f>>[2] = "."
      /\ <<"global", ".", f>>[3] = f
  OBVIOUS
<1>3. f # "="
  BY DEF FieldName
<1>4. ASSUME NEW i \in 1 .. 3 PROVE <<"global", ".", f>>[i] # "="
  <2>1. i = 1 \/ i = 2 \/ i = 3
    OBVIOUS
  <2> QED BY <1>2, <1>3, <2>1
<1> QED BY <1>1, <1>4 DEF Splits, KeyIn

\* The value of a field of a rule, as it is written.
Written(r, f) == IF f = "limit" THEN r.limit ELSE IF r.box THEN 1 ELSE 0

LEMMA GlobalConcat ==
  ASSUME NEW f \in FieldName
  PROVE  <<"global">> \o <<".", f>> = <<"global", ".", f>>
<1> DEFINE a == <<"global">>
           b == <<".", f>>
           c == a \o b
           d == <<"global", ".", f>>
<1>1. "global" \in Words /\ "." \in Words /\ f \in Words
  BY DEF Words, FieldName
<1>2. a \in Seq(Words) /\ Len(a) = 1 /\ a[1] = "global"
  BY <1>1
<1>3. b \in Seq(Words) /\ Len(b) = 2 /\ b[1] = "." /\ b[2] = f
  BY <1>1
<1>4. d \in Seq(Words) /\ Len(d) = 3 /\ d[1] = "global" /\ d[2] = "." /\ d[3] = f
  BY <1>1
<1>5. c = a \o b
  OBVIOUS
<1> HIDE DEF a, b, c, d
<1>6. /\ c \in Seq(Words) /\ Len(c) = Len(a) + Len(b)
      /\ \A i \in 1 .. Len(a) : c[i] = a[i]
      /\ \A i \in 1 .. Len(b) : c[Len(a) + i] = b[i]
  <2>1. a \in Seq(Words) /\ b \in Seq(Words) /\ c = a \o b
    BY <1>2, <1>3, <1>5
  <2> QED BY ONLY <2>1, Joins
<1>7. Len(c) = 3 /\ c[1] = "global" /\ c[1 + 1] = "." /\ c[1 + 2] = f
  BY <1>2, <1>3, <1>6
<1>8. \A i \in 1 .. 3 : c[i] = d[i]
  BY <1>4, <1>7
<1>9. c = d
  BY <1>4, <1>6, <1>7, <1>8
<1> QED BY <1>9 DEF a, b, c, d

\* The lines of the file: of each field of the global rule, and of each name with a rule.
LEMMA LinesOf ==
  ASSUME NEW g, NEW t, NEW l \in Contents(g, t)
  PROVE  \/ \E f \in FieldName :
              l = [text |-> <<"global", ".", f>>, value |-> Written(g, f), later |-> FALSE]
         \/ \E n \in Name, f \in FieldName :
              t[n] # NoRule /\ l = [text |-> NameKey(n, f), value |-> Written(t[n], f), later |-> TRUE]
<1>1. CASE l \in Lines(<<"global">>, g, FALSE)
  <2>1. /\ <<"global">> \o <<".", "limit">> = <<"global", ".", "limit">>
        /\ <<"global">> \o <<".", "box">> = <<"global", ".", "box">>
    BY GlobalConcat DEF FieldName
  <2>2. \/ l = [text |-> <<"global", ".", "limit">>, value |-> g.limit, later |-> FALSE]
        \/ l = [text |-> <<"global", ".", "box">>, value |-> IF g.box THEN 1 ELSE 0, later |-> FALSE]
    BY <1>1, <2>1 DEF Lines
  <2>3. "limit" \in FieldName /\ "box" \in FieldName /\ "box" # "limit"
    BY DEF FieldName
  <2>4. CASE l = [text |-> <<"global", ".", "limit">>, value |-> g.limit, later |-> FALSE]
    BY <2>3, <2>4 DEF Written
  <2>5. CASE l = [text |-> <<"global", ".", "box">>, value |-> IF g.box THEN 1 ELSE 0, later |-> FALSE]
    BY <2>3, <2>5 DEF Written
  <2> QED BY <2>2, <2>4, <2>5
<1>2. CASE l \notin Lines(<<"global">>, g, FALSE)
  <2>1. PICK n \in Name : t[n] # NoRule /\ l \in Lines(<<"rule", ".">> \o n, t[n], TRUE)
    BY <1>2 DEF Contents
  <2>2. \/ l = [text |-> NameKey(n, "limit"), value |-> t[n].limit, later |-> TRUE]
        \/ l = [text |-> NameKey(n, "box"), value |-> IF t[n].box THEN 1 ELSE 0, later |-> TRUE]
    BY <2>1 DEF Lines, NameKey
  <2>3. "limit" \in FieldName /\ "box" \in FieldName /\ "box" # "limit"
    BY DEF FieldName
  <2>4. CASE l = [text |-> NameKey(n, "limit"), value |-> t[n].limit, later |-> TRUE]
    BY <2>1, <2>3, <2>4 DEF Written
  <2>5. CASE l = [text |-> NameKey(n, "box"), value |-> IF t[n].box THEN 1 ELSE 0, later |-> TRUE]
    BY <2>1, <2>3, <2>5 DEF Written
  <2> QED BY <2>2, <2>4, <2>5
<1> QED BY <1>1, <1>2

\* And each of them is there.
LEMMA GlobalLine ==
  ASSUME NEW g, NEW t, NEW f \in FieldName
  PROVE  [text |-> <<"global", ".", f>>, value |-> Written(g, f), later |-> FALSE] \in Contents(g, t)
<1>1. /\ <<"global">> \o <<".", "limit">> = <<"global", ".", "limit">>
      /\ <<"global">> \o <<".", "box">> = <<"global", ".", "box">>
  BY GlobalConcat DEF FieldName
<1>2. CASE f = "limit"
  BY <1>1, <1>2 DEF Contents, Lines, Written
<1>3. CASE f = "box"
  <2>1. Written(g, f) = IF g.box THEN 1 ELSE 0
    BY <1>3 DEF Written
  <2> QED BY <1>1, <1>3, <2>1 DEF Contents, Lines
<1> QED BY <1>2, <1>3 DEF FieldName

LEMMA NameLine ==
  ASSUME NEW g, NEW t, NEW n \in Name, t[n] # NoRule, NEW f \in FieldName
  PROVE  [text |-> NameKey(n, f), value |-> Written(t[n], f), later |-> TRUE] \in Contents(g, t)
<1>1. [text |-> NameKey(n, f), value |-> Written(t[n], f), later |-> TRUE]
        \in Lines(<<"rule", ".">> \o n, t[n], TRUE)
  <2>1. CASE f = "limit"
    BY <2>1 DEF Lines, Written, NameKey
  <2>2. CASE f = "box"
    <3>1. Written(t[n], f) = IF t[n].box THEN 1 ELSE 0
      BY <2>2 DEF Written
    <3> QED BY <2>2, <3>1 DEF Lines, NameKey
  <2> QED BY <2>1, <2>2 DEF FieldName
<1> QED BY <1>1 DEF Contents

\* What a line gives, by its key.
LEMMA KeysApart ==
  ASSUME NEW n \in Seq(Words), NEW e \in FieldName, NEW f \in FieldName
  PROVE  /\ NameKey(n, f) # <<"global", ".", e>>
         /\ <<"global", ".", e>> = <<"global", ".", f>> => e = f
<1>1. NameKey(n, f)[1] = "rule"
  BY NameKeyParts
<1>2. <<"global", ".", e>>[1] = "global" /\ <<"global", ".", e>>[3] = e /\ <<"global", ".", f>>[3] = f
  OBVIOUS
<1> QED BY <1>1, <1>2

\* A name is read from its own line, or from none.
LEMMA ReadName ==
  ASSUME Plain, NEW g, NEW t, NEW n \in Name, NEW f \in FieldName
  PROVE  Read(Contents(g, t), n, f) = IF t[n] # NoRule THEN {Written(t[n], f)} ELSE {}
<1> DEFINE L == [text |-> NameKey(n, f), value |-> Written(t[n], f), later |-> TRUE]
           found == {l \in Contents(g, t) : Gives(l, n, f)}
           last == {l \in found : l.later \/ \A k \in found : ~k.later}
<1>1. n \in Seq(Words) /\ n # <<>> /\ n # <<"global">>
  BY DEF Plain
<1>2. \A l : Gives(l, n, f) <=> KeyIn(l.text) = NameKey(n, f)
  BY <1>1 DEF Gives, NameKey
<1>3. ASSUME NEW l \in found PROVE l = L /\ t[n] # NoRule
  <2>1. l \in Contents(g, t) /\ KeyIn(l.text) = NameKey(n, f)
    BY <1>2
  <2>2. ASSUME NEW e \in FieldName,
               l = [text |-> <<"global", ".", e>>, value |-> Written(g, e), later |-> FALSE]
        PROVE  FALSE
    <3>1. KeyIn(l.text) = <<"global", ".", e>>
      BY <2>2, GlobalKeyWhole
    <3>2. NameKey(n, f) = <<"global", ".", e>>
      BY <2>1, <3>1
    <3>3. NameKey(n, f) # <<"global", ".", e>>
      BY <1>1, KeysApart
    <3> QED BY <3>2, <3>3
  <2>3. ASSUME NEW m \in Name, NEW e \in FieldName, t[m] # NoRule,
               l = [text |-> NameKey(m, e), value |-> Written(t[m], e), later |-> TRUE]
        PROVE  l = L /\ t[n] # NoRule
    <3>1. KeyIn(l.text) = NameKey(m, e) /\ m \in Seq(Words)
      BY <2>3, NameKeyWhole DEF Plain
    <3>2. NameKey(m, e) = NameKey(n, f)
      BY <2>1, <3>1
    <3>3. m = n /\ e = f
      BY <1>1, <3>1, <3>2, NameKeyUnique
    <3> QED BY <2>3, <3>3
  <2> QED BY <2>1, <2>2, <2>3, LinesOf
<1>4. CASE t[n] # NoRule
  <2>1. L \in Contents(g, t)
    BY <1>4, NameLine
  <2>2. KeyIn(L.text) = NameKey(n, f) /\ Splits(L.text) = {} /\ L.later = TRUE /\ L.value = Written(t[n], f)
    BY NameKeyWhole
  <2> HIDE DEF L
  <2>3. found = {L}
    BY <1>2, <1>3, <2>1, <2>2
  <2>4. last = {L}
    BY <2>2, <2>3
  <2>5. {l.value : l \in {k \in last : Splits(k.text) = {}}} = {L.value}
    BY <2>2, <2>4
  <2> QED BY <1>4, <2>2, <2>5 DEF Read
<1>5. CASE t[n] = NoRule
  <2>1. found = {}
    BY <1>3, <1>5
  <2> QED BY <1>5, <2>1 DEF Read
<1> QED BY <1>4, <1>5

\* The global rule is read from its line.
LEMMA ReadGlobal ==
  ASSUME Plain, NEW g, NEW t, NEW f \in FieldName
  PROVE  Read(Contents(g, t), <<"global">>, f) = {Written(g, f)}
<1> DEFINE n == <<"global">>
           L == [text |-> <<"global", ".", f>>, value |-> Written(g, f), later |-> FALSE]
           found == {l \in Contents(g, t) : Gives(l, n, f)}
           last == {l \in found : l.later \/ \A k \in found : ~k.later}
<1>1. n \in Seq(Words) /\ n # <<>>
  <2>1. "global" \in Words
    BY DEF Words
  <2> QED BY <2>1
<1>2. \A l : Gives(l, n, f) <=> KeyIn(l.text) \in {<<"global", ".", f>>, NameKey(n, f)}
  BY <1>1 DEF Gives, NameKey
<1>3. ASSUME NEW l \in found PROVE l = L
  <2>1. l \in Contents(g, t) /\ KeyIn(l.text) \in {<<"global", ".", f>>, NameKey(n, f)}
    BY <1>2
  <2>2. ASSUME NEW e \in FieldName,
               l = [text |-> <<"global", ".", e>>, value |-> Written(g, e), later |-> FALSE]
        PROVE  l = L
    <3>1. KeyIn(l.text) = <<"global", ".", e>>
      BY <2>2, GlobalKeyWhole
    <3>2. <<"global", ".", e>> # NameKey(n, f)
      BY <1>1, KeysApart
    <3>3. <<"global", ".", e>> = <<"global", ".", f>>
      BY <2>1, <3>1, <3>2
    <3>4. e = f
      BY <1>1, <3>3, KeysApart
    <3> QED BY <2>2, <3>4
  <2>3. ASSUME NEW m \in Name, NEW e \in FieldName,
               l = [text |-> NameKey(m, e), value |-> Written(t[m], e), later |-> TRUE]
        PROVE  FALSE
    <3>1. KeyIn(l.text) = NameKey(m, e) /\ m \in Seq(Words) /\ m # n
      BY <2>3, NameKeyWhole DEF Plain
    <3> HIDE DEF n
    <3>2. NameKey(m, e) # <<"global", ".", f>>
      BY <3>1, KeysApart
    <3>3. NameKey(m, e) # NameKey(n, f)
      BY <1>1, <3>1, NameKeyUnique
    <3> QED BY <2>1, <3>1, <3>2, <3>3
  <2> QED BY <2>1, <2>2, <2>3, LinesOf
<1>4. L \in Contents(g, t)
  BY GlobalLine
<1>5. KeyIn(L.text) = <<"global", ".", f>> /\ Splits(L.text) = {} /\ L.later = FALSE /\ L.value = Written(g, f)
  BY GlobalKeyWhole
<1> HIDE DEF L
<1>6. found = {L}
  BY <1>2, <1>3, <1>4, <1>5
<1>7. last = {L}
  BY <1>5, <1>6
<1>8. {l.value : l \in {k \in last : Splits(k.text) = {}}} = {L.value}
  BY <1>5, <1>7
<1> QED BY <1>5, <1>8 DEF Read

\* A rule that is written and read is the same.
LEMMA RuleReadBack ==
  ASSUME NEW r \in Rule, NEW lines, NEW n,
         \A f \in FieldName : Read(lines, n, f) = {Written(r, f)}
  PROVE  RuleIn(lines, n) = r
<1>1. r.limit \in Limit /\ r.box \in BOOLEAN /\ r = [limit |-> r.limit, box |-> r.box]
  BY DEF Rule
<1>2. Read(lines, n, "limit") = {r.limit}
  BY DEF FieldName, Written
<1>3. Read(lines, n, "box") = {IF r.box THEN 1 ELSE 0}
  BY DEF FieldName, Written
<1>4. Read(lines, n, "limit") \cap Limit = {r.limit}
  BY <1>1, <1>2
<1>5. (CHOOSE v \in {r.limit} : TRUE) = r.limit
  OBVIOUS
<1>6. RuleIn(lines, n) = [limit |-> r.limit, box |-> 1 \in Read(lines, n, "box")]
  BY <1>4, <1>5 DEF RuleIn
<1>7. CASE r.box = TRUE
  <2>1. (1 \in Read(lines, n, "box")) = TRUE
    BY <1>3, <1>7
  <2> QED BY <1>1, <1>6, <1>7, <2>1
<1>8. CASE r.box = FALSE
  <2>1. (1 \in Read(lines, n, "box")) = FALSE
    BY <1>3, <1>8
  <2> QED BY <1>1, <1>6, <1>8, <2>1
<1> QED BY <1>1, <1>7, <1>8

LEMMA NothingRead ==
  ASSUME NEW lines, NEW n, Read(lines, n, "limit") = {}, Read(lines, n, "box") = {}
  PROVE  RuleIn(lines, n) = NoRule
<1>1. (1 \in Read(lines, n, "box")) = FALSE /\ Read(lines, n, "limit") \cap Limit = {}
  OBVIOUS
<1>2. RuleIn(lines, n) = [limit |-> 0, box |-> FALSE]
  BY <1>1 DEF RuleIn
<1> QED BY <1>2 DEF NoRule

\* And so are the templates and the global rule.
LEMMA ContentsReadBack ==
  ASSUME Plain, NEW g \in Rule, NEW t \in [Name -> Rule]
  PROVE  LoadedGlobal(Contents(g, t)) = g /\ LoadedNames(Contents(g, t)) = t
<1>1. LoadedGlobal(Contents(g, t)) = g
  <2>1. \A f \in FieldName : Read(Contents(g, t), <<"global">>, f) = {Written(g, f)}
    BY ReadGlobal
  <2> QED BY <2>1, RuleReadBack DEF LoadedGlobal
<1>2. ASSUME NEW n \in Name PROVE LoadedNames(Contents(g, t))[n] = t[n]
  <2>1. n # <<"global">> /\ t[n] \in Rule
    BY DEF Plain
  <2>2. LoadedNames(Contents(g, t))[n] = RuleIn(Contents(g, t), n)
    BY <2>1 DEF LoadedNames
  <2>3. CASE t[n] # NoRule
    <3>1. \A f \in FieldName : Read(Contents(g, t), n, f) = {Written(t[n], f)}
      BY <2>3, ReadName
    <3> QED BY <2>1, <2>2, <3>1, RuleReadBack
  <2>4. CASE t[n] = NoRule
    <3>1. Read(Contents(g, t), n, "limit") = {} /\ Read(Contents(g, t), n, "box") = {}
      BY <2>4, ReadName DEF FieldName
    <3> QED BY <2>2, <2>4, <3>1, NothingRead
  <2> QED BY <2>3, <2>4
<1>3. LoadedNames(Contents(g, t)) = [n \in Name |-> LoadedNames(Contents(g, t))[n]]
  BY DEF LoadedNames
<1> QED BY <1>1, <1>2, <1>3

\* An empty file gives what the first program starts with.
LEMMA NothingReadBack == LoadedGlobal({}) = NoRule /\ LoadedNames({}) = [n \in Name |-> NoRule]
<1>1. \A n, f : Read({}, n, f) = {}
  BY DEF Read
<1>2. \A n : RuleIn({}, n) = NoRule
  BY <1>1, NothingRead
<1> QED BY <1>2 DEF LoadedGlobal, LoadedNames

-----------------------------------------------------------------------------
(* What the next program starts with. *)

Todos == {<<>>, <<"persist">>, <<"persist", "render">>, <<"persist", "leave">>,
          <<"write">>, <<"write", "render">>, <<"write", "leave">>, <<"leave">>}
Afters == {<<>>, <<"render">>, <<"leave">>}

\* Unless it is being written, the file has what is kept; and that is what the program has, unless
\* it is still to be saved.
RestoreInv ==
  /\ todo \in Todos
  /\ ~Due("write") => \A k \in kept : k = <<LoadedGlobal(file), LoadedNames(file)>>
  /\ ~Due("write") /\ ~Due("persist") => \A k \in kept : k = Saved

LEMMA Pair == ASSUME NEW a, NEW b PROVE <<a>> \o <<b>> = <<a, b>> /\ <<a>> \o <<>> = <<a>>
<1> DEFINE S == {a, b}
           x == <<a>>
           y == <<b>>
           z == <<a, b>>
           c == x \o y
<1>1. x \in Seq(S) /\ Len(x) = 1 /\ x[1] = a
  OBVIOUS
<1>2. y \in Seq(S) /\ Len(y) = 1 /\ y[1] = b
  OBVIOUS
<1>3. z \in Seq(S) /\ Len(z) = 2 /\ z[1] = a /\ z[2] = b
  OBVIOUS
<1>4. c = x \o y
  OBVIOUS
<1> HIDE DEF x, y, z, c
<1>5. /\ c \in Seq(S) /\ Len(c) = Len(x) + Len(y)
      /\ \A i \in 1 .. Len(x) : c[i] = x[i]
      /\ \A i \in 1 .. Len(y) : c[Len(x) + i] = y[i]
  <2>1. x \in Seq(S) /\ y \in Seq(S) /\ c = x \o y
    BY <1>1, <1>2, <1>4
  <2> HIDE DEF S
  <2> QED BY ONLY <2>1, Joins
<1>6. c = z
  <2>1. Len(c) = 2 /\ c[1] = a /\ c[2] = b
    BY <1>1, <1>2, <1>5
  <2>2. \A i \in 1 .. 2 : c[i] = z[i]
    BY <1>3, <2>1
  <2> QED BY <1>3, <1>5, <2>1, <2>2
<1>7. <<a>> \o <<>> = <<a>>
  OBVIOUS
<1> QED BY <1>6, <1>7 DEF c, x, y, z

LEMMA TodoFacts ==
  ASSUME todo \in Todos
  PROVE  /\ Unsaved => Due("persist")
         /\ Due("persist") => Unsaved /\ Tail(todo) \in Afters /\ <<"write">> \o Tail(todo) \in Todos
         /\ Due("write") => Tail(todo) \in Afters
         /\ Due("persist") => ~Due("write")
         /\ Due("leave") => ~Due("write") /\ ~Due("persist")
         /\ todo = <<>> => ~Due("write") /\ ~Due("persist")
<1>1. CASE todo = <<>>
  BY <1>1 DEF Due, Unsaved
<1>2. CASE todo \in {<<"persist">>, <<"persist", "render">>, <<"persist", "leave">>}
  <2>1. Len(todo) \in Nat /\ Len(todo) >= 1 /\ todo[1] = "persist" /\ todo # <<>> /\ Head(todo) = "persist"
    BY <1>2
  <2>2. Tail(todo) \in Afters
    <3>1. CASE todo = <<"persist">>
      BY <3>1 DEF Afters
    <3>2. CASE todo = <<"persist", "render">>
      BY <3>2 DEF Afters
    <3>3. CASE todo = <<"persist", "leave">>
      BY <3>3 DEF Afters
    <3> QED BY <1>2, <3>1, <3>2, <3>3
  <2>3. <<"write">> \o Tail(todo) \in {<<"write">>, <<"write", "render">>, <<"write", "leave">>}
    BY <2>2, Pair DEF Afters
  <2>4. Due("persist") /\ ~Due("write") /\ ~Due("leave")
    BY <2>1 DEF Due
  <2>5. Unsaved
    BY <2>1 DEF Unsaved
  <2>6. <<"write">> \o Tail(todo) \in Todos
    BY <2>3 DEF Todos
  <2> QED BY <2>1, <2>2, <2>4, <2>5, <2>6
<1>3. CASE todo \in {<<"write">>, <<"write", "render">>, <<"write", "leave">>}
  <2>1. /\ todo # <<>> /\ Head(todo) = "write"
        /\ Len(todo) \in 1 .. 2 /\ todo[1] # "persist" /\ (Len(todo) = 2 => todo[2] # "persist")
    BY <1>3
  <2>2. ~Unsaved
    <3>1. ASSUME NEW i \in 1 .. Len(todo) PROVE todo[i] # "persist"
      <4>1. i \in Int /\ 1 <= i /\ i <= Len(todo) /\ (Len(todo) = 1 \/ Len(todo) = 2)
        BY <2>1
      <4>2. i = 1 \/ (i = 2 /\ Len(todo) = 2)
        BY <4>1
      <4> QED BY <2>1, <4>2
    <3> QED BY <3>1 DEF Unsaved
  <2>3. Tail(todo) \in Afters
    <3>1. CASE todo = <<"write">>
      BY <3>1 DEF Afters
    <3>2. CASE todo = <<"write", "render">>
      BY <3>2 DEF Afters
    <3>3. CASE todo = <<"write", "leave">>
      BY <3>3 DEF Afters
    <3> QED BY <1>3, <3>1, <3>2, <3>3
  <2>4. Due("write") /\ ~Due("persist") /\ ~Due("leave")
    BY <2>1 DEF Due
  <2> QED BY <2>1, <2>2, <2>3, <2>4
<1>4. CASE todo = <<"leave">>
  <2>1. Len(todo) = 1 /\ todo[1] = "leave" /\ Head(todo) = "leave" /\ todo # <<>>
    BY <1>4
  <2>2. ~Due("write") /\ ~Due("persist") /\ ~Unsaved
    BY <2>1 DEF Due, Unsaved
  <2> QED BY <2>1, <2>2
<1> QED BY <1>1, <1>2, <1>3, <1>4 DEF Todos

\* An edit, or another callback that is going to save.
LEMMA UnsavedKeeps ==
  ASSUME RestoreInv, todo = <<>>, UNCHANGED <<file, kept>>,
         todo' \in {<<"persist">>, <<"persist", "render">>, <<"persist", "leave">>}
  PROVE  RestoreInv'
<1>1. todo' \in Todos /\ Head(todo') = "persist" /\ todo' # <<>>
  BY DEF Todos
<1>2. Due("persist")' /\ ~Due("write")'
  BY <1>1 DEF Due
<1>3. \A k \in kept : k = <<LoadedGlobal(file), LoadedNames(file)>>
  BY DEF RestoreInv, Due
<1> QED BY <1>1, <1>2, <1>3 DEF RestoreInv

LEMMA EditUnsaved ==
  ASSUME NEW ps, NEW r, NEW t, NEW g, Apply(ps, r, t, g)
  PROVE  UNCHANGED <<file, kept>> /\ todo' \in {<<"persist">>, <<"persist", "render">>}
BY DEF Apply, Saves, SavesFirst, saveVars

\* What leaves the rules that are saved and the file alone.
LEMMA SameKeeps ==
  ASSUME RestoreInv, UNCHANGED <<todo, file, kept, name_rules, global_rule>>
  PROVE  RestoreInv'
BY DEF RestoreInv, Due, Saved

\* A step of a callback ends it, or goes on to its last.
LEMMA SavingEnds ==
  ASSUME todo \in Todos, Due("persist") \/ Due("write"), Saving
  PROVE  todo' \in {<<>>, <<"leave">>} /\ Saved' = Saved /\ todo' \in Todos /\ ~Due("write")' /\ ~Due("persist")'
<1>1. Tail(todo) \in Afters
  BY TodoFacts
<1>2. todo' \in {<<>>, <<"leave">>}
  BY <1>1 DEF Saving, Afters
<1>3. Saved' = Saved
  BY DEF Saving, Others, savedVars, Saved
<1>4. todo' = <<>> \/ Head(todo') = "leave"
  BY <1>2
<1> QED BY <1>2, <1>3, <1>4 DEF Todos, Due

LEMMA RestoreStep ==
  ASSUME Plain, StoreInv, RestoreInv, [Next]_vars
  PROVE  RestoreInv'
<1>1. todo \in Todos
  BY DEF RestoreInv
<1>2. CASE Click \/ Tick \/ Focus \/ Stop \/ UNCHANGED vars
  <2>1. UNCHANGED <<todo, file, kept, name_rules, global_rule>>
    BY <1>2 DEF Click, Tick, Focus, Stop, vars, savedVars, saveVars
  <2> QED BY <2>1, SameKeeps
<1>3. ASSUME NEW p \in Pid, \/ \E n \in Name : Launch(p, n)
                            \/ Exit(p)
      PROVE  RestoreInv'
  <2>1. UNCHANGED <<todo, file, kept, name_rules, global_rule>>
    BY <1>3 DEF Launch, Exit, savedVars, saveVars
  <2> QED BY <2>1, SameKeeps
<1>4. CASE LeaveField
  <2>1. CASE LeaveUnread
    <3>1. todo = <<>> /\ UNCHANGED <<file, kept, name_rules, global_rule>> /\ todo' \in {<<>>, <<"persist">>}
      BY <2>1 DEF LeaveUnread, Left, Idle, savedVars, saveVars
    <3> QED BY <3>1, UnsavedKeeps, SameKeeps
  <2>2. CASE \E unit \in Unit, v \in Limit :
               \/ LeaveGlobal(LimitText(v, unit), unit)
               \/ \E n \in Name : LeaveGroup(n, LimitText(v, unit), unit)
               \/ \E p \in Pid : LeaveChild(p, LimitText(v, unit), unit)
    <3>1. todo = <<>> /\ UNCHANGED <<file, kept>> /\ todo' \in {<<"persist">>, <<"persist", "render">>}
      BY <2>2, EditUnsaved DEF LeaveGlobal, LeaveGroup, LeaveChild, Left, Idle, ToGlobal, ToGroup, ToChild
    <3> QED BY <3>1, UnsavedKeeps
  <2> QED BY <1>4, <2>1, <2>2 DEF LeaveField
<1>5. CASE BoxOfGlobal \/ (\E n \in Name : BoxOfGroup(n)) \/ (\E p \in Pid : BoxOfChild(p))
  <2>1. todo = <<>> /\ UNCHANGED <<file, kept>> /\ todo' \in {<<"persist">>, <<"persist", "render">>}
    BY <1>5, EditUnsaved DEF BoxOfGlobal, BoxOfGroup, BoxOfChild, Box, Idle, ToGlobal, ToGroup, ToChild
  <2> QED BY <2>1, UnsavedKeeps
<1>6. CASE Persist \/ Start
  <2>1. /\ todo = <<>> /\ UNCHANGED <<file, kept, name_rules, global_rule>>
        /\ todo' \in {<<>>, <<"persist", "render">>, <<"persist", "leave">>}
    BY <1>6 DEF Persist, Start, Idle, Others, savedVars, saveVars
  <2> QED BY <2>1, UnsavedKeeps, SameKeeps
<1>7. CASE Empty
  <2>1. todo' = <<"write">> \o Tail(todo) /\ todo' \in Todos
    BY <1>1, <1>7, TodoFacts DEF Empty
  <2>2. Due("write")'
    <3>1. Tail(todo) \in Afters
      BY <1>1, <1>7, TodoFacts DEF Empty
    <3>2. todo' # <<>> /\ Head(todo') = "write"
      BY <2>1, <3>1 DEF Afters
    <3> QED BY <3>2 DEF Due
  <2> QED BY <2>1, <2>2 DEF RestoreInv
<1>8. CASE Write
  <2>1. todo' \in Todos /\ Saved' = Saved
    BY <1>1, <1>8, SavingEnds DEF Write
  <2>2. file' = Contents(global_rule, name_rules) /\ kept' = {Saved}
    BY <1>8 DEF Write
  <2>3. LoadedGlobal(file') = global_rule /\ LoadedNames(file') = name_rules
    BY <2>2, InvAgrees, ContentsReadBack
  <2> QED BY <2>1, <2>2, <2>3 DEF RestoreInv, Saved
<1>9. CASE Fail
  <2>1. todo' \in Todos /\ Saved' = Saved
    BY <1>1, <1>9, SavingEnds DEF Fail
  <2>2. CASE Due("persist")
    <3>1. file' = file /\ kept' = kept \cap {Saved}
      BY <1>9, <2>2 DEF Fail
    <3>2. \A k \in kept : k = <<LoadedGlobal(file), LoadedNames(file)>>
      BY <1>1, <2>2, TodoFacts DEF RestoreInv
    <3> QED BY <2>1, <3>1, <3>2 DEF RestoreInv
  <2>3. CASE ~Due("persist")
    <3>1. kept' = {}
      BY <1>9, <2>3 DEF Fail
    <3> QED BY <2>1, <3>1 DEF RestoreInv
  <2> QED BY <2>2, <2>3
<1>10. CASE Stay
  <2>1. todo' = <<>> /\ UNCHANGED <<file, kept, name_rules, global_rule>>
    BY <1>10 DEF Stay, Others, savedVars, saveVars
  <2>2. ~Due("write") /\ ~Due("persist")
    BY <1>1, <1>10, TodoFacts DEF Stay
  <2> QED BY <2>1, <2>2 DEF RestoreInv, Todos, Saved
<1>11. CASE Leave \/ Crash
  <2>1. /\ todo' = <<>> /\ file' = file /\ global_rule' = LoadedGlobal(file) /\ name_rules' = LoadedNames(file)
        /\ kept' = {<<global_rule', name_rules'>>}
    BY <1>11 DEF Leave, Crash, NewProgram
  <2> QED BY <2>1 DEF RestoreInv, Todos, Saved
<1> QED BY <1>2, <1>3, <1>4, <1>5, <1>6, <1>7, <1>8, <1>9, <1>10, <1>11 DEF Next, Step

(***************************************************************************)
(* The next program starts with what this one had, if the last save did    *)
(* not fail: with all of it when the program ends, and with what was saved *)
(* last when it crashes between two steps of a callback, though not while  *)
(* the file is written; for any names that have no "=" and are not         *)
(* "global" (persist_settings, to_contents, from_contents).                *)
(***************************************************************************)
THEOREM RulesRestored == ASSUME Plain PROVE Spec => Restored
<1>1. Init => RestoreInv
  <2> SUFFICES ASSUME Init PROVE RestoreInv
    OBVIOUS
  <2>1. Saved = <<LoadedGlobal(file), LoadedNames(file)>>
    BY NothingReadBack DEF Init, Saved, NoTemplates
  <2> QED BY <2>1 DEF Init, RestoreInv, Todos
<1>2. StoreInv /\ RestoreInv /\ [Next]_vars => RestoreInv'
  BY RestoreStep
<1>3. ASSUME RestoreInv, Leave \/ (Crash /\ ~Due("write")), kept # {}
      PROVE  Saved' = Saved \/ (Unsaved /\ Saved' \in kept)
  <2>1. Saved' = <<LoadedGlobal(file), LoadedNames(file)>>
    BY <1>3 DEF Leave, Crash, NewProgram, Saved
  <2>2. todo \in Todos
    BY <1>3 DEF RestoreInv
  <2>3. ~Due("write")
    BY <1>3, <2>2, TodoFacts DEF Leave
  <2>4. PICK k \in kept : k = Saved'
    BY <1>3, <2>1, <2>3 DEF RestoreInv
  <2>5. CASE Due("persist")
    BY <2>2, <2>4, <2>5, TodoFacts
  <2>6. CASE ~Due("persist")
    BY <1>3, <2>3, <2>4, <2>6 DEF RestoreInv
  <2> QED BY <2>5, <2>6
<1>4. RestoreInv /\ [Next]_vars =>
        [(Leave \/ (Crash /\ ~Due("write"))) /\ kept # {} =>
           Saved' = Saved \/ (Unsaved /\ Saved' \in kept)]_vars
  BY <1>3
<1> QED BY <1>1, <1>2, <1>4, StoreInit, StoreStep, PTL DEF Spec, Restored
=============================================================================
