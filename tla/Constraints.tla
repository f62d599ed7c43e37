---------------------------- MODULE Constraints ----------------------------
(***************************************************************************)
(* Parameter constraints of a method capability and the subsumption check  *)
(* that decides whether a delegated capability is an attenuation:          *)
(* amla-protocol-constraints/src/lib.rs and MethodCapability of            *)
(* amla-protocol-capabilities/src/method.rs.                               *)
(*                                                                         *)
(* A value is an opaque JSON value; what the code asks of two values is    *)
(* given by relations: Below is compare_lt (numbers with numbers, strings  *)
(* with strings, nothing else), Starts, Ends and Includes are the string   *)
(* tests <<text, part>>.  A constraint holds its operand as a set: one     *)
(* value for a comparison, the whole list for In and NotIn, none for       *)
(* Exists and NotExists.  And / Or are modelled one level deep.            *)
(***************************************************************************)
EXTENDS Integers, FiniteSets

CONSTANTS Params, Values, Missing, Below, Starts, Ends, Includes

Transitive(R) == \A x, y, z \in Values : <<x, y>> \in R /\ <<y, z>> \in R => <<x, z>> \in R

ASSUME MissingIsNoValue == Missing \notin Values
ASSUME Orders == /\ Transitive(Below) /\ Transitive(Starts)
                 /\ Transitive(Ends) /\ Transitive(Includes)

SetOps    == {"In", "NotIn"}
ExistOps  == {"Exists", "NotExists"}
ValueOps  == {"Lt", "Le", "Gt", "Ge", "Eq", "Ne", "StartsWith", "EndsWith", "Contains"}

Simple ==
    [op : ValueOps, param : Params, values : {{v} : v \in Values}]
        \cup [op : SetOps, param : Params, values : SUBSET Values]
        \cup [op : ExistOps, param : Params, values : {{}}]

Composite == [op : {"And", "Or"}, parts : SUBSET Simple]
Constraint == Simple \cup Composite

(* The parameters of a call: a value each, or Missing. *)
Calls == [Params -> Values \cup {Missing}]

compare_lt(a, b) == <<a, b>> \in Below
compare_le(a, b) == a = b \/ compare_lt(a, b)

(* Constraint::evaluate of a constraint on one parameter: every test but   *)
(* NotExists fails closed on a missing parameter.                          *)
EvaluateSimple(c, call) ==
    LET a == call[c.param] IN
    \/ c.op = "NotExists" /\ a = Missing
    \/ /\ a # Missing
       /\ \/ c.op = "Exists"
          \/ c.op = "Lt" /\ \A v \in c.values : compare_lt(a, v)
          \/ c.op = "Le" /\ \A v \in c.values : compare_le(a, v)
          \/ c.op = "Gt" /\ \A v \in c.values : compare_lt(v, a)
          \/ c.op = "Ge" /\ \A v \in c.values : compare_le(v, a)
          \/ c.op \in {"Eq", "In"} /\ a \in c.values
          \/ c.op \in {"Ne", "NotIn"} /\ a \notin c.values
          \/ c.op = "StartsWith" /\ \A v \in c.values : <<a, v>> \in Starts
          \/ c.op = "EndsWith" /\ \A v \in c.values : <<a, v>> \in Ends
          \/ c.op = "Contains" /\ \A v \in c.values : <<a, v>> \in Includes

(* A constraint that has a param_name. *)
IsSimple(c) == c.op \notin {"And", "Or"}

(* Constraint::evaluate; an empty Or fails. *)
evaluate(c, call) ==
    \/ c.op = "And" /\ \A part \in c.parts : EvaluateSimple(part, call)
    \/ c.op = "Or" /\ \E part \in c.parts : EvaluateSimple(part, call)
    \/ IsSimple(c) /\ EvaluateSimple(c, call)

-----------------------------------------------------------------------------
(* Every operand of c stands in relation R to every operand of p; both     *)
(* have one operand.                                                       *)
Operands(c, p, R(_, _)) == \A x \in c.values, y \in p.values : R(x, y)

compare_ge(a, b) == compare_le(b, a)
compare_gt(a, b) == compare_lt(b, a)
starts_with(a, b) == <<a, b>> \in Starts
ends_with(a, b) == <<a, b>> \in Ends
contains(a, b) == <<a, b>> \in Includes

(* The arms of subsumes_same_param in which a parent Eq meets a child      *)
(* comparison.                                                             *)
EqAgainstComparison(p, c) ==
    /\ p.op = "Eq"
    /\ \/ c.op = "Lt" /\ Operands(p, c, compare_lt)
       \/ c.op = "Le" /\ Operands(p, c, compare_le)
       \/ c.op = "Gt" /\ Operands(p, c, compare_gt)
       \/ c.op = "Ge" /\ Operands(p, c, compare_ge)

(* Constraint::subsumes_same_param, p the parent and c the child.          *)
subsumes_same_param(p, c) ==
    \/ p.op = "Lt" /\ c.op = "Lt" /\ Operands(c, p, compare_le)
    \/ p.op = "Le" /\ c.op \in {"Le", "Eq"} /\ Operands(c, p, compare_le)
    \/ p.op = "Gt" /\ c.op = "Gt" /\ Operands(c, p, compare_ge)
    \/ p.op = "Ge" /\ c.op \in {"Ge", "Eq"} /\ Operands(c, p, compare_ge)
    \/ p.op = c.op /\ p.op \in {"Eq", "Ne"} /\ p.values = c.values
    \/ p.op = "In" /\ c.op = "In" /\ c.values \subseteq p.values
    \/ p.op = "NotIn" /\ c.op = "NotIn" /\ p.values \subseteq c.values
    \/ p.op = "StartsWith" /\ c.op = "StartsWith" /\ Operands(c, p, starts_with)
    \/ p.op = "EndsWith" /\ c.op = "EndsWith" /\ Operands(c, p, ends_with)
    \/ p.op = "Contains" /\ c.op = "Contains" /\ Operands(c, p, contains)
    \/ p.op = c.op /\ p.op \in ExistOps
    \/ EqAgainstComparison(p, c)

SubsumesSimple(p, c) == p.param = c.param /\ subsumes_same_param(p, c)

(* Constraint::subsumes.  And against Or, or a composite parent against a  *)
(* simple child, falls to the last arm and is refused.                     *)
subsumes(p, c) ==
    \/ /\ p.op = "And" /\ c.op = "And"
       /\ \A pc \in p.parts : \E cc \in c.parts : SubsumesSimple(pc, cc)
    \/ /\ p.op = "Or" /\ c.op = "Or"
       /\ \A cc \in c.parts : \E pc \in p.parts : SubsumesSimple(pc, cc)
    \/ IsSimple(p) /\ c.op = "And" /\ \E cc \in c.parts : SubsumesSimple(p, cc)
    \/ IsSimple(p) /\ c.op = "Or" /\ \A cc \in c.parts : SubsumesSimple(p, cc)
    \/ IsSimple(p) /\ IsSimple(c) /\ SubsumesSimple(p, c)

referenced_params(c) ==
    IF IsSimple(c) THEN {c.param} ELSE {part.param : part \in c.parts}

-----------------------------------------------------------------------------
(* ConstraintSet::evaluate. *)
evaluate_all(set, call) == \A c \in set : evaluate(c, call)

(* ConstraintSet::subsumes: the child's constraints are looked at one by   *)
(* one, and only those on a parameter the parent constrains too.           *)
subsumes_all(parent, child) ==
    \A c \in child :
        (\E p \in parent : referenced_params(p) \cap referenced_params(c) # {})
            => \E p \in parent :
                  /\ IsSimple(c) => IsSimple(p) /\ p.param = c.param
                  /\ subsumes(p, c)

(* A MethodCapability under its key (which is its pattern): the limit      *)
(* NoLimit, a number no capability has as its limit, stands for            *)
(* max_calls = None.                                                       *)
CONSTANT NoLimit
ASSUME NoLimitIsNumber == NoLimit \in Nat

(* May n calls be made under a capability with this limit? *)
AllowsCalls(limit, n) == limit = NoLimit \/ n <= limit

(* WithinLimit without the arm for a child that has no limit. *)
WithinLimit_unless_none(child, parent) ==
    parent = NoLimit \/ child = NoLimit \/ child <= parent

WithinLimit(child, parent) == parent = NoLimit \/ (child # NoLimit /\ child <= parent)

(* MethodCapability::is_subset_of, for two capabilities of one pattern.    *)
is_subset_of(child, parent) ==
    /\ subsumes_all(parent.constraints, child.constraints)
    /\ WithinLimit(child.max_calls, parent.max_calls)

(* The calls a capability lets through: MethodCapability::validate_call.   *)
Permits(cap, call) == evaluate_all(cap.constraints, call)

(* What the check needs of a child so that its answer says something of    *)
(* the calls: neither side has an And or an Or, every parameter the parent *)
(* constrains is constrained by the child, the parent constrains each      *)
(* once, and none by an Eq that the child turns into a comparison.         *)
KeepsParams(parent, child) == \A p \in parent : \E c \in child : c.param = p.param
OncePerParam(set) == \A p, q \in set : p.param = q.param => p = q
Keeps(parent, child) ==
    /\ \A c \in parent.constraints \cup child.constraints : IsSimple(c)
    /\ KeepsParams(parent.constraints, child.constraints)
    /\ OncePerParam(parent.constraints)
    /\ \A p \in parent.constraints, c \in child.constraints : ~EqAgainstComparison(p, c)
=============================================================================
