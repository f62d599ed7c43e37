-------------------------- MODULE AuthorityProofs --------------------------
(***************************************************************************)
(* Attenuation, for every set of parameters and values: where the          *)
(* subsumption check accepts a child, a call the child lets through is one *)
(* the parent lets through.  The check is not sound as a whole (a parent   *)
(* Eq accepts a child comparison, and a set accepts a child that leaves a  *)
(* parameter out); each theorem names the part it holds for.               *)
(*                                                                         *)
(* Delegation, for any number of CTAs, executors, nonces and requests, any *)
(* configuration and any number of restarts: a CTA emits at most one       *)
(* certificate per nonce between two restarts, and only what the executor  *)
(* that the parent designates has signed; the chain behind what it emits   *)
(* validates; and no chain that validates widens what its root grants.     *)
(***************************************************************************)
EXTENDS Authority, NaturalsInduction, WellFoundedInduction, TLAPS

-----------------------------------------------------------------------------
(* Constraints and capabilities.                                           *)

(* c is not one of the comparisons that a parent Eq wrongly subsumes. *)
NoCross(p, c) == ~EqAgainstComparison(p, c)

(* The relations are transitive on values. *)
LEMMA CompareTransitive ==
    ASSUME NEW x \in Values, NEW y \in Values, NEW z \in Values
    PROVE  /\ compare_lt(x, y) /\ compare_le(y, z) => compare_lt(x, z)
           /\ compare_le(x, y) /\ compare_lt(y, z) => compare_lt(x, z)
           /\ compare_le(x, y) /\ compare_le(y, z) => compare_le(x, z)
  BY Orders DEF Transitive, compare_le, compare_lt

(* Constraint::subsumes_same_param answers as its documentation says       *)
(* ("any value that satisfies other also satisfies self") except when a    *)
(* parent Eq meets a child comparison.                                     *)
THEOREM SameParamIsSound ==
    ASSUME NEW p \in Simple, NEW c \in Simple, NEW call \in Calls,
           SubsumesSimple(p, c), NoCross(p, c), EvaluateSimple(c, call)
    PROVE  EvaluateSimple(p, call)
<1> DEFINE a == call[c.param]
<1>0. /\ p.param = c.param /\ subsumes_same_param(p, c)
      /\ c.param \in Params /\ p.param \in Params
      /\ p.values \subseteq Values /\ c.values \subseteq Values
  BY DEF SubsumesSimple, Simple
<1>1. a \in Values \cup {Missing}
  BY <1>0 DEF Calls
<1>2. CASE p.op = c.op /\ p.op \in ExistOps
  BY <1>0, <1>2 DEF EvaluateSimple, ExistOps
<1>3. ASSUME ~(p.op = c.op /\ p.op \in ExistOps) PROVE p.op \notin ExistOps /\ c.op \notin ExistOps
  BY <1>0, <1>3 DEF subsumes_same_param, ExistOps, EqAgainstComparison, NoCross
<1>4. CASE p.op \notin ExistOps /\ c.op \notin ExistOps
  <2>1. a # Missing /\ a \in Values
    BY <1>1, <1>4 DEF EvaluateSimple, ExistOps
  <2>2. CASE p.op = "Lt" /\ c.op = "Lt" /\ Operands(c, p, compare_le)
    <3>1. PICK w \in Values : c.values = {w}
      BY <2>2 DEF Simple, SetOps, ExistOps, ValueOps
    <3>2. compare_lt(a, w)
      BY <2>2, <3>1 DEF EvaluateSimple
    <3>3. \A v \in p.values : compare_le(w, v)
      BY <2>2, <3>1 DEF Operands
    <3>4. \A v \in p.values : compare_lt(a, v)
      BY <1>0, <2>1, <3>2, <3>3, CompareTransitive
    <3> QED BY <1>0, <2>1, <2>2, <3>4 DEF EvaluateSimple
  <2>3. CASE p.op = "Le" /\ c.op \in {"Le", "Eq"} /\ Operands(c, p, compare_le)
    <3>1. PICK w \in Values : c.values = {w}
      BY <2>3 DEF Simple, SetOps, ExistOps, ValueOps
    <3>2. compare_le(a, w)
      BY <2>3, <3>1 DEF EvaluateSimple, compare_le
    <3>3. \A v \in p.values : compare_le(w, v)
      BY <2>3, <3>1 DEF Operands
    <3>4. \A v \in p.values : compare_le(a, v)
      BY <1>0, <2>1, <3>2, <3>3, CompareTransitive
    <3> QED BY <1>0, <2>1, <2>3, <3>4 DEF EvaluateSimple
  <2>4. CASE p.op = "Gt" /\ c.op = "Gt" /\ Operands(c, p, compare_ge)
    <3>1. PICK w \in Values : c.values = {w}
      BY <2>4 DEF Simple, SetOps, ExistOps, ValueOps
    <3>2. compare_lt(w, a)
      BY <2>4, <3>1 DEF EvaluateSimple
    <3>3. \A v \in p.values : compare_le(v, w)
      BY <2>4, <3>1 DEF Operands, compare_ge
    <3>4. \A v \in p.values : compare_lt(v, a)
      BY <1>0, <2>1, <3>2, <3>3, CompareTransitive
    <3> QED BY <1>0, <2>1, <2>4, <3>4 DEF EvaluateSimple
  <2>5. CASE p.op = "Ge" /\ c.op \in {"Ge", "Eq"} /\ Operands(c, p, compare_ge)
    <3>1. PICK w \in Values : c.values = {w}
      BY <2>5 DEF Simple, SetOps, ExistOps, ValueOps
    <3>2. compare_le(w, a)
      BY <2>5, <3>1 DEF EvaluateSimple, compare_le
    <3>3. \A v \in p.values : compare_le(v, w)
      BY <2>5, <3>1 DEF Operands, compare_ge
    <3>4. \A v \in p.values : compare_le(v, a)
      BY <1>0, <2>1, <3>2, <3>3, CompareTransitive
    <3> QED BY <1>0, <2>1, <2>5, <3>4 DEF EvaluateSimple
  <2>6. CASE p.op = c.op /\ p.op \in {"Eq", "Ne"} /\ p.values = c.values
    BY <1>0, <2>1, <2>6 DEF EvaluateSimple
  <2>7. CASE p.op = "In" /\ c.op = "In" /\ c.values \subseteq p.values
    BY <1>0, <2>1, <2>7 DEF EvaluateSimple
  <2>8. CASE p.op = "NotIn" /\ c.op = "NotIn" /\ p.values \subseteq c.values
    BY <1>0, <2>1, <2>8 DEF EvaluateSimple
  <2>9. CASE p.op = "StartsWith" /\ c.op = "StartsWith" /\ Operands(c, p, starts_with)
    <3>1. PICK w \in Values : c.values = {w}
      BY <2>9 DEF Simple, SetOps, ExistOps, ValueOps
    <3>2. <<a, w>> \in Starts
      BY <2>9, <3>1 DEF EvaluateSimple
    <3>3. \A v \in p.values : <<a, v>> \in Starts
      BY <1>0, <2>1, <2>9, <3>1, <3>2, Orders DEF Operands, starts_with, Transitive
    <3> QED BY <1>0, <2>1, <2>9, <3>3 DEF EvaluateSimple
  <2>10. CASE p.op = "EndsWith" /\ c.op = "EndsWith" /\ Operands(c, p, ends_with)
    <3>1. PICK w \in Values : c.values = {w}
      BY <2>10 DEF Simple, SetOps, ExistOps, ValueOps
    <3>2. <<a, w>> \in Ends
      BY <2>10, <3>1 DEF EvaluateSimple
    <3>3. \A v \in p.values : <<a, v>> \in Ends
      BY <1>0, <2>1, <2>10, <3>1, <3>2, Orders DEF Operands, ends_with, Transitive
    <3> QED BY <1>0, <2>1, <2>10, <3>3 DEF EvaluateSimple
  <2>11. CASE p.op = "Contains" /\ c.op = "Contains" /\ Operands(c, p, contains)
    <3>1. PICK w \in Values : c.values = {w}
      BY <2>11 DEF Simple, SetOps, ExistOps, ValueOps
    <3>2. <<a, w>> \in Includes
      BY <2>11, <3>1 DEF EvaluateSimple
    <3>3. \A v \in p.values : <<a, v>> \in Includes
      BY <1>0, <2>1, <2>11, <3>1, <3>2, Orders DEF Operands, contains, Transitive
    <3> QED BY <1>0, <2>1, <2>11, <3>3 DEF EvaluateSimple
  <2> QED BY <1>0, <1>4, <2>2, <2>3, <2>4, <2>5, <2>6, <2>7, <2>8, <2>9, <2>10, <2>11
          DEF subsumes_same_param, NoCross
<1> QED BY <1>2, <1>3, <1>4

(* The same for Constraint::subsumes, over constraints and composites of   *)
(* constraints, when no part of the parent is an Eq that meets a child     *)
(* comparison.                                                             *)
Parts(c) == IF IsSimple(c) THEN {c} ELSE c.parts
NoCrossParts(p, c) == \A pc \in Parts(p), cc \in Parts(c) : NoCross(pc, cc)

LEMMA SimpleShape ==
    /\ \A c \in Constraint : IsSimple(c) => c \in Simple
    /\ \A c \in Constraint : ~IsSimple(c) => c \in Composite /\ c.parts \subseteq Simple
  BY DEF Constraint, Simple, Composite, IsSimple, SetOps, ExistOps, ValueOps

THEOREM SubsumesIsSound ==
    ASSUME NEW p \in Constraint, NEW c \in Constraint, NEW call \in Calls,
           subsumes(p, c), NoCrossParts(p, c), evaluate(c, call)
    PROVE  evaluate(p, call)
<1>1. CASE p.op = "And" /\ c.op = "And"
  <2>0. p.parts \subseteq Simple /\ c.parts \subseteq Simple /\ Parts(p) = p.parts /\ Parts(c) = c.parts
    BY <1>1, SimpleShape DEF IsSimple, Parts
  <2>1. \A cc \in c.parts : EvaluateSimple(cc, call)
    BY <1>1 DEF evaluate, IsSimple
  <2>2. ASSUME NEW pc \in p.parts PROVE EvaluateSimple(pc, call)
    <3>1. PICK cc \in c.parts : SubsumesSimple(pc, cc)
      BY <1>1 DEF subsumes, IsSimple
    <3>2. NoCross(pc, cc)
      BY <2>0 DEF NoCrossParts
    <3> QED BY <2>0, <2>1, <3>1, <3>2, SameParamIsSound
  <2> QED BY <1>1, <2>2 DEF evaluate
<1>2. CASE p.op = "Or" /\ c.op = "Or"
  <2>0. p.parts \subseteq Simple /\ c.parts \subseteq Simple /\ Parts(p) = p.parts /\ Parts(c) = c.parts
    BY <1>2, SimpleShape DEF IsSimple, Parts
  <2>1. PICK cc \in c.parts : EvaluateSimple(cc, call)
    BY <1>2 DEF evaluate, IsSimple
  <2>2. PICK pc \in p.parts : SubsumesSimple(pc, cc)
    BY <1>2 DEF subsumes, IsSimple
  <2>3. NoCross(pc, cc)
    BY <2>0 DEF NoCrossParts
  <2>4. EvaluateSimple(pc, call)
    BY <2>0, <2>1, <2>2, <2>3, SameParamIsSound
  <2> QED BY <1>2, <2>4 DEF evaluate
<1>3. CASE IsSimple(p)
  <2>0. p \in Simple /\ Parts(p) = {p} /\ (evaluate(p, call) <=> EvaluateSimple(p, call))
    BY <1>3, SimpleShape DEF IsSimple, Parts, evaluate
  <2>1. PICK cc \in Parts(c) : SubsumesSimple(p, cc) /\ EvaluateSimple(cc, call) /\ cc \in Simple
    <3>1. CASE c.op = "And"
      BY <1>3, <3>1, SimpleShape DEF subsumes, IsSimple, Parts, evaluate
    <3>2. CASE c.op = "Or"
      BY <1>3, <3>2, SimpleShape DEF subsumes, IsSimple, Parts, evaluate
    <3>3. CASE IsSimple(c)
      BY <1>3, <3>3, SimpleShape DEF subsumes, IsSimple, Parts, evaluate
    <3> QED BY <3>1, <3>2, <3>3 DEF IsSimple
  <2>2. NoCross(p, cc)
    BY <2>0 DEF NoCrossParts
  <2>3. EvaluateSimple(p, call)
    BY <2>0, <2>1, <2>2, SameParamIsSound
  <2> QED BY <2>0, <2>3
<1> QED BY <1>1, <1>2, <1>3 DEF subsumes, IsSimple

(* MethodCapability::is_subset_of narrows the permitted calls when the     *)
(* child says something of every parameter its parent constrains, and the  *)
(* parent constrains each of them once: a child that leaves a parameter    *)
(* out is accepted and widens it.                                          *)
LEMMA SetOfSimple ==
    ASSUME NEW parent, NEW child, NEW call \in Calls,
           parent \subseteq Simple, child \subseteq Simple,
           subsumes_all(parent, child), KeepsParams(parent, child), OncePerParam(parent),
           \A p \in parent, c \in child : NoCross(p, c),
           evaluate_all(child, call)
    PROVE  evaluate_all(parent, call)
<1> SUFFICES ASSUME NEW p \in parent PROVE evaluate(p, call)
  BY DEF evaluate_all
<1>0. \A x \in Simple : IsSimple(x) /\ x \in Constraint /\ referenced_params(x) = {x.param}
  BY DEF Simple, IsSimple, SetOps, ExistOps, ValueOps, referenced_params, Constraint
<1>1. PICK c \in child : c.param = p.param
  BY <1>0 DEF KeepsParams
<1>2. PICK q \in parent : q.param = c.param /\ subsumes(q, c)
  BY <1>0, <1>1 DEF subsumes_all
<1>3. q = p
  BY <1>0, <1>1, <1>2 DEF OncePerParam
<1>4. NoCrossParts(p, c)
  BY <1>0, <1>3 DEF NoCrossParts, Parts
<1> QED BY <1>0, <1>2, <1>3, <1>4, SubsumesIsSound DEF evaluate_all

THEOREM AttenuationNarrowsCalls ==
    ASSUME NEW parent, NEW child, NEW call \in Calls,
           parent.constraints \subseteq Constraint, child.constraints \subseteq Constraint,
           is_subset_of(child, parent), Keeps(parent, child),
           Permits(child, call)
    PROVE  Permits(parent, call)
<1>1. parent.constraints \subseteq Simple /\ child.constraints \subseteq Simple
  BY SimpleShape DEF Keeps
<1> QED BY <1>1, SetOfSimple DEF is_subset_of, Keeps, NoCross, Permits

-----------------------------------------------------------------------------
(* Certificates are only added.  Every certificate that was known keeps    *)
(* its hash, and what was built is the one its hash names.                 *)
Certificate == [issuer : Keys, caps : {r.caps : r \in Requests},
                designee : {r.designee : r \in Requests},
                expires : {r.expires : r \in Requests}, prev : Nat, root : Nat]
PcasTyped == pcas \in Seq(Certificate)
Grown == /\ DOMAIN pcas \subseteq DOMAIN pcas'
         /\ \A i \in DOMAIN pcas : pcas'[i] = pcas[i]

LEMMA BuildGrows ==
    ASSUME PcasTyped, NEW pca \in Certificate, build_and_sign(pca)
    PROVE  PcasTyped' /\ Grown /\ \E i \in DOMAIN pcas' : pcas'[i] = pca
<1>1. CASE \E i \in Known : pcas[i] = pca
  BY <1>1 DEF build_and_sign, PcasTyped, Grown, Known
<1>2. CASE ~(\E i \in Known : pcas[i] = pca)
  <2>1. pcas' = Append(pcas, pca)
    BY <1>2 DEF build_and_sign
  <2>2. PcasTyped' /\ Grown
    BY <2>1 DEF PcasTyped, Grown
  <2>3. Len(pcas') \in DOMAIN pcas' /\ pcas'[Len(pcas')] = pca
    BY <2>1 DEF PcasTyped
  <2> QED BY <2>2, <2>3
<1> QED BY <1>1, <1>2

LEMMA RootHashNat ==
    ASSUME PcasTyped, NEW i \in Known
    PROVE  RootHash(i) \in Nat /\ i \in Nat
<1>1. pcas[i] \in Certificate /\ i \in Nat
  BY DEF PcasTyped, Known
<1>2. pcas[i].root \in Nat
  BY <1>1 DEF Certificate
<1> QED BY <1>1, <1>2 DEF RootHash

LEMMA PcaTyped ==
    ASSUME NEW k \in Keys, NEW r \in Requests, NEW prev \in Nat, NEW root \in Nat
    PROVE  Pca(k, r, prev, root) \in Certificate
  BY DEF Pca, Certificate

-----------------------------------------------------------------------------
(* The strengthening.  A nonce is in the set of its CTA from the moment a  *)
(* submission passed the freshness check until the CTA restarts, and while *)
(* it is there it belongs to one submission, under way or answered.        *)
Spent(s) == s.poc.challenge \in seen[s.cta]
NonceInv ==
    /\ era \in [Ctas -> Nat]
    /\ seen \in [Ctas -> SUBSET Nonces]
    /\ \A s \in checked : s.cta \in Ctas /\ Spent(s)
    /\ \A a \in emitted : a.cta \in Ctas /\ a.era \in Nat /\ a.era <= era[a.cta]
    /\ \A a \in emitted : a.era = era[a.cta] => a.poc.challenge \in seen[a.cta]
    /\ \A s, t \in checked : s.cta = t.cta /\ s.poc.challenge = t.poc.challenge => s = t
    /\ \A s \in checked, a \in emitted :
          ~(s.cta = a.cta /\ a.era = era[a.cta] /\ s.poc.challenge = a.poc.challenge)

(* Proofs of continuity name certificates and requests that exist.         *)
ProofsTyped ==
    /\ pocs \subseteq [parent_hash : Known, executor : Executors, challenge : Nonces,
                       signed : Requests]
    /\ checked \subseteq [cta : Ctas, parent : Known, poc : pocs, request : Requests]
    /\ \A a \in emitted : a.cta \in Ctas /\ a.child \in Known /\ a.poc \in pocs

AInv == PcasTyped /\ ProofsTyped /\ NonceInv /\ OneChildPerNonce /\ EmittedAsSigned

LEMMA InitAInv == Init => AInv
  BY DEF Init, AInv, PcasTyped, ProofsTyped, NonceInv, Spent, OneChildPerNonce,
         EmittedAsSigned, Known

(* Growing the set of certificates disturbs neither the types of what      *)
(* refers to them nor what was emitted.                                    *)
LEMMA GrowthKeeps ==
    ASSUME AInv, Grown, pocs' = pocs, checked' = checked, emitted' = emitted
    PROVE  ProofsTyped' /\ EmittedAsSigned'
<1>1. Known \subseteq Known'
  BY DEF Grown, Known
<1>2. ProofsTyped'
  <2>1. pocs' \subseteq [parent_hash : Known', executor : Executors, challenge : Nonces,
                         signed : Requests]
    BY <1>1 DEF AInv, ProofsTyped
  <2>2. checked' \subseteq [cta : Ctas, parent : Known', poc : pocs', request : Requests]
    BY <1>1 DEF AInv, ProofsTyped
  <2>3. \A a \in emitted' : a.cta \in Ctas /\ a.child \in Known' /\ a.poc \in pocs'
    BY <1>1 DEF AInv, ProofsTyped
  <2> QED BY <2>1, <2>2, <2>3 DEF ProofsTyped
<1>3. EmittedAsSigned'
  <2> SUFFICES ASSUME NEW a \in emitted
               PROVE  LET child == pcas'[a.child] IN
                      /\ child.issuer = a.cta
                      /\ child.prev = a.poc.parent_hash
                      /\ a.poc.signed = [caps |-> child.caps, designee |-> child.designee,
                                         expires |-> child.expires]
                      /\ IsDesignated(pcas'[child.prev].designee, a.poc.executor, a.cta)
    BY DEF EmittedAsSigned, IsDesignated
  <2>1. a.child \in Known /\ a.poc \in pocs /\ a.poc.parent_hash \in Known
    BY DEF AInv, ProofsTyped
  <2>2. pcas'[a.child] = pcas[a.child] /\ pcas'[a.poc.parent_hash] = pcas[a.poc.parent_hash]
    BY <2>1 DEF Grown, Known
  <2>3. pcas[a.child].prev = a.poc.parent_hash
    BY DEF AInv, EmittedAsSigned
  <2> QED BY <2>2, <2>3 DEF AInv, EmittedAsSigned
<1> QED BY <1>2, <1>3

LEMMA NonceUnchanged ==
    ASSUME NonceInv, OneChildPerNonce, UNCHANGED <<seen, checked, era, emitted>>
    PROVE  NonceInv' /\ OneChildPerNonce'
  BY DEF NonceInv, Spent, OneChildPerNonce

-----------------------------------------------------------------------------
(* A certificate that no CTA has a hand in.                                *)
LEMMA IssueRootAInv == ASSUME AInv, NEW g \in Gateways, IssueRoot(g) PROVE AInv'
<1>1. PICK r \in Requests : build_and_sign(Pca(g, r, 0, 0))
  BY DEF IssueRoot
<1>2. Pca(g, r, 0, 0) \in Certificate
  BY PcaTyped DEF Keys
<1>3. PcasTyped' /\ Grown
  BY <1>1, <1>2, BuildGrows DEF AInv
<1>4. ProofsTyped' /\ EmittedAsSigned'
  BY <1>3, GrowthKeeps DEF IssueRoot
<1>5. NonceInv' /\ OneChildPerNonce'
  BY NonceUnchanged DEF IssueRoot, AInv
<1> QED BY <1>3, <1>4, <1>5 DEF AInv

LEMMA ContinueAInv ==
    ASSUME AInv, NEW e \in Executors, NEW i \in Known, Continue(e, i) PROVE AInv'
<1>1. PICK r \in Requests : build_and_sign(Pca(e, r, i, RootHash(i)))
  BY DEF Continue
<1>2. Pca(e, r, i, RootHash(i)) \in Certificate
  BY PcaTyped, RootHashNat DEF Keys, AInv
<1>3. PcasTyped' /\ Grown
  BY <1>1, <1>2, BuildGrows DEF AInv
<1>4. ProofsTyped' /\ EmittedAsSigned'
  BY <1>3, GrowthKeeps DEF Continue
<1>5. NonceInv' /\ OneChildPerNonce'
  BY NonceUnchanged DEF Continue, AInv
<1> QED BY <1>3, <1>4, <1>5 DEF AInv

LEMMA ProveAInv ==
    ASSUME AInv, NEW e \in Executors, NEW i \in Known, Prove(e, i) PROVE AInv'
<1>1. PICK r \in Requests, n \in Nonces :
         pocs' = pocs \cup {[parent_hash |-> i, executor |-> e, challenge |-> n, signed |-> r]}
  BY DEF Prove
<1>2. UNCHANGED <<pcas, seen, checked, era, emitted>> /\ Known' = Known
  BY DEF Prove, Known
<1>3. ProofsTyped'
  <2>1. pocs' \subseteq [parent_hash : Known', executor : Executors, challenge : Nonces,
                         signed : Requests]
    BY <1>1, <1>2 DEF AInv, ProofsTyped
  <2>2. checked' \subseteq [cta : Ctas, parent : Known', poc : pocs', request : Requests]
    <3>1. pocs \subseteq pocs' BY <1>1
    <3> QED BY <1>2, <3>1 DEF AInv, ProofsTyped
  <2>3. \A a \in emitted' : a.cta \in Ctas /\ a.child \in Known' /\ a.poc \in pocs'
    BY <1>1, <1>2 DEF AInv, ProofsTyped
  <2> QED BY <2>1, <2>2, <2>3 DEF ProofsTyped
<1>4. EmittedAsSigned' /\ PcasTyped'
  BY <1>2 DEF AInv, EmittedAsSigned, IsDesignated, PcasTyped
<1>5. NonceInv' /\ OneChildPerNonce'
  BY <1>2, NonceUnchanged DEF AInv
<1> QED BY <1>3, <1>4, <1>5 DEF AInv

(* The nonce goes into the set with the check, and no other submission     *)
(* that is under way or answered has it.                                   *)
LEMMA SubmitAInv ==
    ASSUME AInv, NEW c \in Ctas, NEW i \in Known, NEW p \in pocs, NEW q \in pocs,
           Submit(c, i, p, q.signed)
    PROVE  AInv'
<1> DEFINE s == [cta |-> c, parent |-> i, poc |-> p, request |-> q.signed]
<1>1. /\ p.challenge \notin seen[c] /\ p.challenge \in Nonces /\ q.signed \in Requests
      /\ seen' = [seen EXCEPT ![c] = @ \cup {p.challenge}]
      /\ checked' = checked \cup {s}
      /\ UNCHANGED <<pcas, pocs, era, emitted>> /\ Known' = Known
  BY DEF Submit, fresh, AInv, ProofsTyped, Known
<1>2. ProofsTyped'
  BY <1>1 DEF AInv, ProofsTyped
<1>3. EmittedAsSigned' /\ PcasTyped' /\ OneChildPerNonce'
  BY <1>1 DEF AInv, EmittedAsSigned, IsDesignated, PcasTyped, OneChildPerNonce
<1>4. NonceInv'
  <2>0. seen \in [Ctas -> SUBSET Nonces] /\ era \in [Ctas -> Nat]
    BY DEF AInv, NonceInv
  <2>1. seen' \in [Ctas -> SUBSET Nonces] /\ era' \in [Ctas -> Nat]
    BY <1>1, <2>0
  <2>2. \A d \in Ctas : seen[d] \subseteq seen'[d]
    BY <1>1, <2>0
  <2>3. p.challenge \in seen'[c]
    BY <1>1, <2>0
  <2>4. \A t \in checked' : t.cta \in Ctas /\ t.poc.challenge \in seen'[t.cta]
    BY <1>1, <2>2, <2>3 DEF AInv, NonceInv, Spent
  <2>5. \A a \in emitted' : /\ a.cta \in Ctas /\ a.era \in Nat /\ a.era <= era'[a.cta]
                            /\ a.era = era'[a.cta] => a.poc.challenge \in seen'[a.cta]
    BY <1>1, <2>2 DEF AInv, NonceInv
  <2>6. \A t \in checked : ~(t.cta = c /\ t.poc.challenge = p.challenge)
    BY <1>1 DEF AInv, NonceInv, Spent
  <2>7. \A t, u \in checked' : t.cta = u.cta /\ t.poc.challenge = u.poc.challenge => t = u
    BY <1>1, <2>6 DEF AInv, NonceInv
  <2>8. \A t \in checked', a \in emitted' :
          ~(t.cta = a.cta /\ a.era = era'[a.cta] /\ t.poc.challenge = a.poc.challenge)
    BY <1>1 DEF AInv, NonceInv
  <2> QED BY <2>1, <2>4, <2>5, <2>7, <2>8 DEF NonceInv, Spent
<1> QED BY <1>2, <1>3, <1>4 DEF AInv

(* The emitted certificate is built from what was checked, and the proof   *)
(* of continuity ties that to a signature of the designated executor.      *)
LEMMA EmitAInv == ASSUME AInv, NEW s \in checked, Emit(s) PROVE AInv'
<1> DEFINE child == Pca(s.cta, s.request, s.poc.parent_hash, RootHash(s.parent))
           h == HashOf(child)
           new == [cta |-> s.cta, era |-> era[s.cta], poc |-> s.poc, child |-> h]
<1>1. /\ Accepts(s) /\ build_and_sign(child)
      /\ emitted' = emitted \cup {new}
      /\ checked' = checked \ {s}
      /\ UNCHANGED <<pocs, seen, era>>
  BY DEF Emit
<1>2. /\ s.cta \in Ctas /\ s.parent \in Known /\ s.poc \in pocs /\ s.request \in Requests
      /\ s.poc.parent_hash \in Known
  BY DEF AInv, ProofsTyped
<1>3. child \in Certificate
  <2>1. RootHash(s.parent) \in Nat /\ s.poc.parent_hash \in Nat
    BY <1>2, RootHashNat DEF AInv
  <2> QED BY <1>2, <2>1, PcaTyped DEF Keys
<1>4. PcasTyped' /\ Grown /\ \E i \in DOMAIN pcas' : pcas'[i] = child
  BY <1>1, <1>3, BuildGrows DEF AInv
<1>5. h \in DOMAIN pcas' /\ pcas'[h] = child
  BY <1>4 DEF HashOf
<1>6. Known \subseteq Known'
  BY <1>4 DEF Grown, Known
<1>7. ProofsTyped'
  <2>1. pocs' \subseteq [parent_hash : Known', executor : Executors, challenge : Nonces,
                         signed : Requests]
    BY <1>1, <1>6 DEF AInv, ProofsTyped
  <2>2. checked' \subseteq [cta : Ctas, parent : Known', poc : pocs', request : Requests]
    BY <1>1, <1>6 DEF AInv, ProofsTyped
  <2>3. \A a \in emitted' : a.cta \in Ctas /\ a.child \in Known' /\ a.poc \in pocs'
    BY <1>1, <1>2, <1>5, <1>6 DEF AInv, ProofsTyped, Known
  <2> QED BY <2>1, <2>2, <2>3 DEF ProofsTyped
<1>8. EmittedAsSigned'
  <2> SUFFICES ASSUME NEW a \in emitted'
               PROVE  LET made == pcas'[a.child] IN
                      /\ made.issuer = a.cta
                      /\ made.prev = a.poc.parent_hash
                      /\ a.poc.signed = [caps |-> made.caps, designee |-> made.designee,
                                         expires |-> made.expires]
                      /\ IsDesignated(pcas'[made.prev].designee, a.poc.executor, a.cta)
    BY DEF EmittedAsSigned, IsDesignated
  <2>1. CASE a \in emitted
    <3>1. a.child \in Known /\ a.poc \in pocs /\ a.poc.parent_hash \in Known
      BY <2>1 DEF AInv, ProofsTyped
    <3>2. pcas'[a.child] = pcas[a.child] /\ pcas'[a.poc.parent_hash] = pcas[a.poc.parent_hash]
      BY <1>4, <3>1 DEF Grown, Known
    <3>3. pcas[a.child].prev = a.poc.parent_hash
      BY <2>1 DEF AInv, EmittedAsSigned
    <3> QED BY <2>1, <3>2, <3>3 DEF AInv, EmittedAsSigned
  <2>2. CASE a = new
    <3>1. /\ s.poc.parent_hash = s.parent /\ s.poc.signed = s.request
          /\ IsDesignated(pcas[s.parent].designee, s.poc.executor, s.cta)
      BY <1>1 DEF Accepts, verify_proof_of_continuity
    <3>2. pcas'[s.parent] = pcas[s.parent]
      BY <1>2, <1>4 DEF Grown, Known
    <3>3. s.request = [caps |-> child.caps, designee |-> child.designee, expires |-> child.expires]
      <4>1. s.request = [caps |-> s.request.caps, designee |-> s.request.designee,
                         expires |-> s.request.expires]
        BY <1>2, RequestsAreTyped
      <4>2. /\ child.caps = s.request.caps /\ child.designee = s.request.designee
            /\ child.expires = s.request.expires
        BY DEF Pca
      <4> QED BY <4>1, <4>2
    <3>4. child.issuer = s.cta /\ child.prev = s.poc.parent_hash
      BY DEF Pca
    <3>5. a.child = h /\ a.poc = s.poc /\ a.cta = s.cta
      BY <2>2
    <3> HIDE DEF child, h, new
    <3> QED BY <1>5, <3>1, <3>2, <3>3, <3>4, <3>5
  <2> QED BY <1>1, <2>1, <2>2
<1>9. NonceInv' /\ OneChildPerNonce'
  <2>0. /\ new.cta = s.cta /\ new.era = era[s.cta] /\ new.poc = s.poc
        /\ s.poc.challenge \in seen[s.cta]
        /\ era \in [Ctas -> Nat]
    BY DEF AInv, NonceInv, Spent
  <2> HIDE DEF child, h, new
  <2>1. \A a \in emitted : ~(a.cta = new.cta /\ a.era = new.era
                              /\ a.poc.challenge = new.poc.challenge)
    BY <2>0 DEF AInv, NonceInv
  <2>2. OneChildPerNonce'
    BY <1>1, <2>1 DEF AInv, OneChildPerNonce
  <2>3. \A t \in checked' : ~(t.cta = new.cta /\ t.poc.challenge = new.poc.challenge)
    BY <1>1, <2>0 DEF AInv, NonceInv
  <2>4. /\ \A t \in checked' : t.cta \in Ctas /\ t.poc.challenge \in seen'[t.cta]
        /\ \A a \in emitted' : a.cta \in Ctas /\ a.era \in Nat /\ a.era <= era'[a.cta]
        /\ \A a \in emitted' : a.era = era'[a.cta] => a.poc.challenge \in seen'[a.cta]
    BY <1>1, <1>2, <2>0 DEF AInv, NonceInv, Spent
  <2>5. /\ \A t, u \in checked' : t.cta = u.cta /\ t.poc.challenge = u.poc.challenge => t = u
        /\ \A t \in checked', a \in emitted' :
             ~(t.cta = a.cta /\ a.era = era'[a.cta] /\ t.poc.challenge = a.poc.challenge)
    BY <1>1, <2>0, <2>3 DEF AInv, NonceInv
  <2>6. era' \in [Ctas -> Nat] /\ seen' \in [Ctas -> SUBSET Nonces]
    BY <1>1 DEF AInv, NonceInv
  <2> QED BY <2>2, <2>4, <2>5, <2>6 DEF NonceInv, Spent
<1> QED BY <1>4, <1>7, <1>8, <1>9 DEF AInv

LEMMA RefuseAInv == ASSUME AInv, NEW s \in checked, Refuse(s) PROVE AInv'
<1>1. checked' \subseteq checked /\ UNCHANGED <<pcas, pocs, seen, era, emitted>> /\ Known' = Known
  BY DEF Refuse, Known
<1>2. PcasTyped' /\ ProofsTyped' /\ OneChildPerNonce' /\ EmittedAsSigned'
  BY <1>1 DEF AInv, PcasTyped, ProofsTyped, OneChildPerNonce, EmittedAsSigned, IsDesignated
<1>3. NonceInv'
  BY <1>1 DEF AInv, NonceInv, Spent
<1> QED BY <1>2, <1>3 DEF AInv

(* A restart forgets the nonces, and begins an era of its own.             *)
LEMMA RestartAInv == ASSUME AInv, NEW c \in Ctas, Restart(c) PROVE AInv'
<1>0. era \in [Ctas -> Nat] /\ seen \in [Ctas -> SUBSET Nonces]
  BY DEF AInv, NonceInv
<1>1. /\ era' = [era EXCEPT ![c] = @ + 1] /\ seen' = [seen EXCEPT ![c] = {}]
      /\ checked' = {s \in checked : s.cta # c}
      /\ UNCHANGED <<pcas, pocs, emitted>> /\ Known' = Known
  BY DEF Restart, Known
<1>2. PcasTyped' /\ ProofsTyped' /\ OneChildPerNonce' /\ EmittedAsSigned'
  BY <1>1 DEF AInv, PcasTyped, ProofsTyped, OneChildPerNonce, EmittedAsSigned, IsDesignated
<1>3. /\ era' \in [Ctas -> Nat] /\ seen' \in [Ctas -> SUBSET Nonces]
      /\ \A d \in Ctas : d # c => era'[d] = era[d] /\ seen'[d] = seen[d]
      /\ era'[c] = era[c] + 1
  BY <1>0, <1>1
<1>4. \A s \in checked' : s \in checked /\ s.cta # c
  BY <1>1
<1>5. \A a \in emitted : a.cta = c => a.era <= era'[c] /\ a.era # era'[c]
  BY <1>0, <1>3 DEF AInv, NonceInv
<1>6. NonceInv'
  <2>1. \A s \in checked' : s.cta \in Ctas /\ s.poc.challenge \in seen'[s.cta]
    BY <1>3, <1>4 DEF AInv, NonceInv, Spent
  <2>2. /\ \A a \in emitted' : a.cta \in Ctas /\ a.era \in Nat /\ a.era <= era'[a.cta]
        /\ \A a \in emitted' : a.era = era'[a.cta] => a.poc.challenge \in seen'[a.cta]
    BY <1>1, <1>3, <1>5 DEF AInv, NonceInv
  <2>3. /\ \A s, t \in checked' : s.cta = t.cta /\ s.poc.challenge = t.poc.challenge => s = t
        /\ \A s \in checked', a \in emitted' :
             ~(s.cta = a.cta /\ a.era = era'[a.cta] /\ s.poc.challenge = a.poc.challenge)
    BY <1>1, <1>3, <1>4, <1>5 DEF AInv, NonceInv
  <2> QED BY <1>3, <2>1, <2>2, <2>3 DEF NonceInv, Spent
<1> QED BY <1>2, <1>6 DEF AInv

-----------------------------------------------------------------------------
LEMMA StepAInv == AInv /\ [Next]_vars => AInv'
<1> SUFFICES ASSUME AInv, [Next]_vars PROVE AInv'
  OBVIOUS
<1>1. ASSUME UNCHANGED <<pcas, pocs, seen, checked, era, emitted>> PROVE AInv'
  <2>1. Known' = Known
    BY <1>1 DEF Known
  <2> QED BY <1>1, <2>1 DEF AInv, PcasTyped, ProofsTyped, NonceInv, Spent, OneChildPerNonce,
                            EmittedAsSigned, IsDesignated
<1>2. CASE Tick
  BY <1>1, <1>2 DEF Tick
<1>3. CASE UNCHANGED vars
  BY <1>1, <1>3 DEF vars
<1> QED BY <1>2, <1>3, IssueRootAInv, ContinueAInv, ProveAInv, SubmitAInv, EmitAInv,
           RefuseAInv, RestartAInv DEF Next

(* Between two restarts a CTA answers a nonce with one certificate at most *)
(* (StatefulFreshnessValidator), however submissions are repeated,         *)
(* mixed up and interleaved.                                               *)
THEOREM NoncesAreSpentOnce == Spec => []OneChildPerNonce
<1>1. AInv => OneChildPerNonce
  BY DEF AInv
<1> QED BY <1>1, InitAInv, StepAInv, PTL DEF Spec

(* Cta::submit emits only what the designated executor signed for that     *)
(* parent.                                                                 *)
THEOREM CertificatesAreSigned == Spec => []EmittedAsSigned
<1>1. AInv => EmittedAsSigned
  BY DEF AInv
<1> QED BY <1>1, InitAInv, StepAInv, PTL DEF Spec

-----------------------------------------------------------------------------
(* Chains.  A set of numbers that has a member has a least one: what holds *)
(* of a certificate whenever it holds of its parent holds of all.          *)
LEMMA LeastNat ==
    ASSUME NEW T \in SUBSET Nat, T # {}
    PROVE  \E x \in T : \A y \in T : x <= y
<1>1. IsWellFoundedOn(OpToRel(<, Nat), Nat)
  BY NatLessThanWellFounded
<1>2. PICK x \in T : \A y \in T : ~(<<y, x>> \in OpToRel(<, Nat))
  BY <1>1, WFMin
<1>3. \A y \in T : ~(y < x)
  BY <1>2 DEF OpToRel
<1> QED BY <1>3

(* A certificate comes after its parent.                                   *)
Ordered == \A i \in Known : pcas[i].prev \in Nat /\ pcas[i].prev < i

(* The chain up to i is the chain up to its parent, and i.                 *)
UpTo(f, j) == IF is_root(j) THEN <<j>> ELSE Append(f[pcas[j].prev], j)
LEMMA UpToExists ==
    ASSUME PcasTyped, Ordered
    PROVE  \E f : f = [j \in Known |-> UpTo(f, j)]
<1>0. Len(pcas) \in Nat /\ Known = 1 .. Len(pcas)
  BY DEF PcasTyped, Known
<1> DEFINE Good(n) == \E f : f = [j \in 1 .. n |-> UpTo(f, j)]
           Bad == {n \in 0 .. Len(pcas) : ~Good(n)}
<1>1. Good(0)
  <2>1. [j \in 1 .. 0 |-> <<>>] = [j \in 1 .. 0 |-> UpTo([k \in 1 .. 0 |-> <<>>], j)]
    OBVIOUS
  <2> QED BY <2>1
<1>2. ASSUME NEW n \in 1 .. Len(pcas), Good(n - 1) PROVE Good(n)
  <2>1. PICK f : f = [j \in 1 .. (n - 1) |-> UpTo(f, j)]
    BY <1>2
  <2> DEFINE g == [j \in 1 .. n |-> IF j < n THEN f[j] ELSE UpTo(f, n)]
  <2>2. ASSUME NEW j \in 1 .. n PROVE g[j] = UpTo(g, j)
    <3>1. pcas[j].prev \in Nat /\ pcas[j].prev < j
      BY <1>0, <2>2 DEF Ordered
    <3>2. ~is_root(j) => g[pcas[j].prev] = f[pcas[j].prev]
      BY <3>1, <2>2, <1>2, <1>0 DEF is_root
    <3>3. UpTo(g, j) = UpTo(f, j)
      BY <3>2 DEF UpTo
    <3>4. CASE j < n
      <4>1. f[j] = UpTo(f, j)
        BY <2>1, <3>4, <1>0
      <4> QED BY <3>3, <3>4, <4>1
    <3>5. CASE j = n
      BY <3>3, <3>5, <1>0
    <3> QED BY <3>4, <3>5, <1>0
  <2>3. g = [j \in 1 .. n |-> UpTo(g, j)]
    <3>1. g = [j \in 1 .. n |-> g[j]]
      OBVIOUS
    <3> HIDE DEF g
    <3> QED BY <2>2, <3>1
  <2> QED BY <2>3
<1>3. Good(Len(pcas))
  <2> SUFFICES ASSUME Bad # {} PROVE FALSE
    BY <1>0
  <2> HIDE DEF Good
  <2>1. Bad \in SUBSET Nat
    BY <1>0
  <2>2. PICK n \in Bad : \A m \in Bad : n <= m
    <3> HIDE DEF Bad
    <3> QED BY <2>1, LeastNat
  <2>3. n # 0 /\ n \in 1 .. Len(pcas)
    BY <1>0, <1>1, <2>2
  <2>4. (n - 1) \notin Bad
    BY <1>0, <2>2, <2>3
  <2>5. Good(n - 1)
    BY <1>0, <2>3, <2>4
  <2> QED BY <1>2, <2>2, <2>3, <2>5
<1> QED BY <1>0, <1>3

LEMMA ChainStep ==
    ASSUME PcasTyped, Ordered, NEW i \in Known
    PROVE  Chain(i) = IF is_root(i) THEN <<i>> ELSE Append(Chain(pcas[i].prev), i)
<1> DEFINE F == CHOOSE f : f = [j \in Known |-> UpTo(f, j)]
<1>1. F = [j \in Known |-> UpTo(F, j)]
  BY UpToExists
<1>2. \A j : Chain(j) = F[j]
  BY DEF Chain, UpTo
<1>3. F[i] = UpTo(F, i)
  <2> HIDE DEF F
  <2> QED BY <1>1
<1> HIDE DEF F
<1> QED BY <1>2, <1>3 DEF UpTo

(* What holds of the roots, and of a certificate whose parent it holds of, *)
(* holds of all.                                                           *)
LEMMA ByParent ==
    ASSUME PcasTyped, Ordered, NEW Good \in SUBSET Known,
           \A i \in Known : is_root(i) \/ pcas[i].prev \in Good => i \in Good
    PROVE  \A i \in Known : i \in Good
<1>0. Known \in SUBSET Nat /\ \A i \in Known : \A j \in Nat : j < i /\ j # 0 => j \in Known
  BY DEF PcasTyped, Known
<1> DEFINE Bad == Known \ Good
<1> SUFFICES ASSUME Bad # {} PROVE FALSE
  OBVIOUS
<1>1. Bad \in SUBSET Nat
  BY <1>0
<1>2. PICK i \in Bad : \A j \in Bad : i <= j
  <2> HIDE DEF Bad
  <2> QED BY <1>1, LeastNat
<1>3. ~is_root(i) /\ pcas[i].prev \notin Good
  BY <1>2
<1>4. pcas[i].prev \in Known /\ pcas[i].prev < i
  BY <1>0, <1>2, <1>3 DEF Ordered, is_root
<1>5. pcas[i].prev \in Bad
  BY <1>3, <1>4
<1>6. i <= pcas[i].prev
  BY <1>2, <1>5
<1>7. i \in Nat /\ pcas[i].prev \in Nat
  BY <1>0, <1>2, <1>4
<1> QED BY <1>4, <1>6, <1>7

(* A chain starts at a root, ends in its certificate, and each certificate *)
(* of it is the parent of the next.                                        *)
Shape(i, chain) ==
    /\ chain \in Seq(Known) /\ Len(chain) >= 1
    /\ is_root(chain[1]) /\ chain[Len(chain)] = i
    /\ \A k \in 2 .. Len(chain) : ~is_root(chain[k]) /\ Linked(chain, k)
LEMMA ChainShape ==
    ASSUME PcasTyped, Ordered
    PROVE  \A i \in Known : Shape(i, Chain(i))
<1> DEFINE Good == {i \in Known : Shape(i, Chain(i))}
<1>1. ASSUME NEW i \in Known, is_root(i) PROVE i \in Good
  <2>1. Chain(i) = <<i>>
    BY <1>1, ChainStep
  <2>2. <<i>> \in Seq(Known) /\ Len(<<i>>) = 1 /\ <<i>>[1] = i
    OBVIOUS
  <2>3. Shape(i, <<i>>)
    BY <1>1, <2>2 DEF Shape
  <2> QED BY <2>1, <2>3
<1>2. ASSUME NEW i \in Known, ~is_root(i), pcas[i].prev \in Good PROVE i \in Good
  <2> DEFINE p == pcas[i].prev
             before == Chain(p)
             chain == Chain(i)
  <2>1. chain = Append(before, i)
    BY <1>2, ChainStep
  <2>2. Shape(p, before)
    BY <1>2
  <2> HIDE DEF before, chain, p
  <2>3. /\ chain \in Seq(Known) /\ Len(chain) = Len(before) + 1 /\ chain[Len(chain)] = i
        /\ Len(before) \in Nat /\ Len(before) >= 1
        /\ \A k \in 1 .. Len(before) : chain[k] = before[k]
    BY <1>2, <2>1, <2>2 DEF Shape
  <2>4. is_root(chain[1])
    BY <2>2, <2>3 DEF Shape
  <2>5. ASSUME NEW k \in 2 .. Len(chain) PROVE ~is_root(chain[k]) /\ Linked(chain, k)
    <3>1. CASE k = Len(chain)
      <4>1. chain[k - 1] = p /\ chain[k] = i
        BY <2>2, <2>3, <3>1 DEF Shape
      <4> QED BY <1>2, <4>1 DEF Linked, p
    <3>2. CASE k # Len(chain)
      <4>1. k \in 2 .. Len(before)
        BY <2>3, <3>2
      <4>2. chain[k] = before[k] /\ chain[k - 1] = before[k - 1]
        BY <2>3, <4>1
      <4> QED BY <2>2, <4>1, <4>2 DEF Shape, Linked
    <3> QED BY <3>1, <3>2
  <2>6. Shape(i, chain)
    BY <2>3, <2>4, <2>5 DEF Shape
  <2> QED BY <2>6, <1>2 DEF chain
<1> HIDE DEF Good
<1>3. \A i \in Known : i \in Good
  <2>1. Good \in SUBSET Known
    BY DEF Good
  <2> QED BY <1>1, <1>2, <2>1, ByParent
<1> QED BY <1>3 DEF Good

-----------------------------------------------------------------------------
(* What the chain behind a certificate of a CTA owes to the one hop that   *)
(* Cta::submit looks at.                                                   *)
Trusts(c, i) == pcas[i].issuer \in (IF is_root(i) THEN RootsOf[c] ELSE TrustedBy[c])
FromCta(i) ==
    LET parent == pcas[i].prev IN
    /\ ~is_root(i)
    /\ Trusts(pcas[i].issuer, parent)
    /\ pcas[i].expires <= pcas[parent].expires
    /\ pcas[i].root = RootHash(parent)
    /\ attenuates(pcas[parent].caps, pcas[i].caps)
LinkInv ==
    /\ Ordered
    /\ \A i \in Known : is_root(i) => pcas[i].root = 0
    /\ \A i \in Known : pcas[i].issuer \in Ctas => FromCta(i)
    /\ \A s \in checked : Trusts(s.cta, s.parent)

LEMMA InitLink == Init => LinkInv
  BY DEF Init, LinkInv, Ordered, Known

(* A new certificate leaves every known one as it is.                      *)
LEMMA BuildKeepsLinks ==
    ASSUME AInv, LinkInv, NEW pca \in Certificate, build_and_sign(pca),
           pca.prev \in Known \cup {0},
           pca.issuer \in Ctas =>
               /\ pca.prev # 0 /\ Trusts(pca.issuer, pca.prev)
               /\ pca.expires <= pcas[pca.prev].expires
               /\ pca.root = RootHash(pca.prev)
               /\ attenuates(pcas[pca.prev].caps, pca.caps),
           checked' \subseteq checked
    PROVE  LinkInv'
<1>1. CASE pcas' = pcas
  <2>1. Known' = Known
    BY <1>1 DEF Known
  <2> QED BY <1>1, <2>1 DEF LinkInv, Ordered, FromCta, Trusts, is_root, RootHash
<1>2. CASE pcas' = Append(pcas, pca)
  <2> DEFINE n == Len(pcas) + 1
  <2>0. pcas \in Seq(Certificate) /\ Len(pcas) \in Nat /\ Known = 1 .. Len(pcas)
    BY DEF AInv, PcasTyped, Known
  <2>1. /\ Known' = Known \cup {n} /\ n \notin Known /\ pcas'[n] = pca
        /\ \A i \in Known : pcas'[i] = pcas[i] /\ i \in Nat /\ i < n /\ i # 0
    BY <1>2, <2>0 DEF Known
  <2> HIDE DEF n
  <2>2. /\ \A i \in Known : is_root(i)' = is_root(i) /\ RootHash(i)' = RootHash(i)
        /\ \A c : \A i \in Known : Trusts(c, i)' = Trusts(c, i)
    BY <2>1 DEF is_root, RootHash, Trusts
  <2>3. Ordered'
    <3>1. \A i \in Known : pcas'[i].prev \in Nat /\ pcas'[i].prev < i
      BY <2>1 DEF LinkInv, Ordered
    <3>2. pca.prev \in Nat /\ pca.prev < n
      BY <2>0, <2>1 DEF n
    <3> QED BY <2>1, <3>1, <3>2 DEF Ordered
  <2>4. (pca.prev = 0) = (pca.root = 0)
    BY DEF build_and_sign
  <2>5. \A i \in Known' : is_root(i)' => pcas'[i].root = 0
    BY <2>1, <2>2, <2>4 DEF LinkInv, is_root
  <2>6. ASSUME NEW i \in Known', pcas'[i].issuer \in Ctas PROVE FromCta(i)'
    <3>1. CASE i \in Known
      <4>1. FromCta(i) /\ pcas[i].prev \in Known
        BY <2>0, <2>1, <2>6, <3>1 DEF LinkInv, FromCta, Ordered, is_root
      <4> QED BY <2>1, <2>2, <3>1, <4>1 DEF FromCta
    <3>2. CASE i = n
      <4>1. pca.prev \in Known /\ pcas'[i] = pca
        BY <2>1, <2>6, <3>2
      <4>2. ~is_root(i)'
        BY <2>1, <2>6, <3>2, <4>1 DEF is_root
      <4> QED BY <2>1, <2>2, <2>6, <4>1, <4>2 DEF FromCta
    <3> QED BY <2>1, <3>1, <3>2
  <2>7. \A s \in checked' : Trusts(s.cta, s.parent)'
    BY <2>2 DEF LinkInv, AInv, ProofsTyped
  <2> QED BY <2>3, <2>5, <2>6, <2>7 DEF LinkInv
<1> QED BY <1>1, <1>2 DEF build_and_sign

LEMMA StepLink == AInv /\ LinkInv /\ [Next]_vars => LinkInv'
<1> SUFFICES ASSUME AInv, LinkInv, [Next]_vars PROVE LinkInv'
  OBVIOUS
<1>0. \A i \in Known : i \in Nat /\ i # 0
  BY DEF AInv, PcasTyped, Known
<1>1. ASSUME pcas' = pcas, checked' \subseteq checked PROVE LinkInv'
  <2>1. Known' = Known
    BY <1>1 DEF Known
  <2> QED BY <1>1, <2>1 DEF LinkInv, Ordered, FromCta, Trusts, is_root, RootHash
<1>2. ASSUME NEW g \in Gateways, IssueRoot(g) PROVE LinkInv'
  <2>1. PICK r \in Requests : build_and_sign(Pca(g, r, 0, 0)) /\ checked' = checked
    BY <1>2 DEF IssueRoot
  <2>2. Pca(g, r, 0, 0) \in Certificate
    BY PcaTyped DEF Keys
  <2>3. Pca(g, r, 0, 0).prev = 0 /\ Pca(g, r, 0, 0).issuer \notin Ctas
    BY CtaKeysAreTheirOwn DEF Pca
  <2> QED BY <2>1, <2>2, <2>3, BuildKeepsLinks
<1>3. ASSUME NEW e \in Executors, NEW i \in Known, Continue(e, i) PROVE LinkInv'
  <2>1. PICK r \in Requests : build_and_sign(Pca(e, r, i, RootHash(i))) /\ checked' = checked
    BY <1>3 DEF Continue
  <2>2. Pca(e, r, i, RootHash(i)) \in Certificate
    BY PcaTyped, RootHashNat DEF Keys, AInv
  <2>3. Pca(e, r, i, RootHash(i)).prev = i /\ Pca(e, r, i, RootHash(i)).issuer \notin Ctas
    BY CtaKeysAreTheirOwn DEF Pca
  <2> QED BY <2>1, <2>2, <2>3, BuildKeepsLinks
<1>4. ASSUME NEW c \in Ctas, NEW i \in Known, NEW p \in pocs, NEW q \in pocs,
             Submit(c, i, p, q.signed)
      PROVE  LinkInv'
  <2> DEFINE s == [cta |-> c, parent |-> i, poc |-> p, request |-> q.signed]
  <2>1. pcas' = pcas /\ checked' = checked \cup {s} /\ Trusts(c, i)
    BY <1>4 DEF Submit, Trusts
  <2>2. Trusts(s.cta, s.parent)
    BY <2>1
  <2>3. Known' = Known
    BY <2>1 DEF Known
  <2> HIDE DEF s
  <2> QED BY <2>1, <2>2, <2>3 DEF LinkInv, Ordered, FromCta, Trusts, is_root, RootHash
<1>5. ASSUME NEW s \in checked, Emit(s) PROVE LinkInv'
  <2> DEFINE child == Pca(s.cta, s.request, s.poc.parent_hash, RootHash(s.parent))
  <2>1. Accepts(s) /\ build_and_sign(child) /\ checked' \subseteq checked
    BY <1>5 DEF Emit
  <2>2. s.cta \in Ctas /\ s.parent \in Known /\ s.request \in Requests
    BY DEF AInv, ProofsTyped
  <2>3. s.poc.parent_hash = s.parent
    BY <2>1 DEF Accepts, verify_proof_of_continuity
  <2>4. child \in Certificate
    <3>1. RootHash(s.parent) \in Nat /\ s.poc.parent_hash \in Nat
      BY <2>2, <2>3, RootHashNat DEF AInv
    <3> QED BY <2>2, <3>1, PcaTyped DEF Keys
  <2>5. /\ child.issuer = s.cta /\ child.prev = s.parent /\ child.caps = s.request.caps
        /\ child.expires = s.request.expires /\ child.root = RootHash(s.parent)
    BY <2>3 DEF Pca
  <2>6. /\ s.request.expires <= pcas[s.parent].expires
        /\ attenuates(pcas[s.parent].caps, s.request.caps)
    BY <2>1 DEF Accepts
  <2>7. Trusts(s.cta, s.parent)
    BY DEF LinkInv
  <2> HIDE DEF child
  <2>8. /\ child.prev # 0 /\ Trusts(child.issuer, child.prev)
        /\ child.expires <= pcas[child.prev].expires
        /\ child.root = RootHash(child.prev)
        /\ attenuates(pcas[child.prev].caps, child.caps)
    BY <1>0, <2>2, <2>5, <2>6, <2>7
  <2>9. child.prev \in Known
    BY <2>2, <2>5
  <2> QED BY <2>1, <2>4, <2>8, <2>9, BuildKeepsLinks
<1>6. ASSUME NEW s \in checked, Refuse(s) PROVE LinkInv'
  BY <1>1, <1>6 DEF Refuse
<1>7. CASE Tick \/ (\E c \in Ctas : Restart(c)) \/ (\E e \in Executors, i \in Known : Prove(e, i))
  BY <1>1, <1>7 DEF Tick, Restart, Prove
<1>8. CASE UNCHANGED vars
  BY <1>1, <1>8 DEF vars
<1> QED BY <1>2, <1>3, <1>4, <1>5, <1>6, <1>7, <1>8 DEF Next

(* What validate_cta_chain asks of the chain that ends in i, except that   *)
(* it is not expired.                                                      *)
ValidFor(c, i, chain) ==
    /\ ValidRoot(chain, RootsOf[c])
    /\ RootHash(i) = chain[1]
    /\ \A k \in 1 .. Len(chain) : pcas[i].expires <= pcas[chain[k]].expires
    /\ \A k \in 2 .. Len(chain) : ValidLink(chain, k) /\ pcas[chain[k]].issuer \in TrustedBy[c]

LEMMA ExpiresAreNumbers ==
    ASSUME PcasTyped, NEW i \in Known PROVE pcas[i].expires \in Nat
<1>1. pcas[i] \in Certificate
  BY DEF PcasTyped, Known
<1>2. \A r \in Requests : r.expires \in Nat
  BY RequestsAreTyped
<1> QED BY <1>1, <1>2 DEF Certificate

(* Whom a CTA trusts has looked at the hop before, and trusts no more than *)
(* the CTA itself: so every hop back to the root is one it would accept.   *)
LEMMA TrustedChains ==
    ASSUME AInv, LinkInv, NEW c \in Ctas
    PROVE  \A i \in Known : Trusts(c, i) => ValidFor(c, i, Chain(i))
<1> DEFINE Good == {i \in Known : Trusts(c, i) => ValidFor(c, i, Chain(i))}
<1>0. PcasTyped /\ Ordered /\ \A i \in Known : Shape(i, Chain(i)) /\ pcas[i].expires \in Nat
  BY ChainShape, ExpiresAreNumbers DEF AInv, LinkInv
<1>1. ASSUME NEW i \in Known, is_root(i) PROVE i \in Good
  <2>1. Chain(i) = <<i>>
    BY <1>0, <1>1, ChainStep
  <2>2. Len(<<i>>) = 1 /\ <<i>>[1] = i /\ <<i>> # <<>>
    OBVIOUS
  <2>3. pcas[i].root = 0
    BY <1>1 DEF LinkInv
  <2>4. Trusts(c, i) => ValidFor(c, i, <<i>>)
    BY <1>0, <1>1, <2>2, <2>3 DEF ValidFor, ValidRoot, RootHash, Trusts
  <2> QED BY <2>1, <2>4
<1>2. ASSUME NEW i \in Known, ~is_root(i), pcas[i].prev \in Good PROVE i \in Good
  <2> SUFFICES ASSUME Trusts(c, i) PROVE ValidFor(c, i, Chain(i))
    OBVIOUS
  <2> DEFINE p == pcas[i].prev
             before == Chain(p)
             chain == Chain(i)
  <2>1. chain = Append(before, i)
    BY <1>0, <1>2, ChainStep
  <2>2. pcas[i].issuer \in TrustedBy[c] /\ pcas[i].issuer \in Ctas
    BY <1>2, TrustIsClosed DEF Trusts
  <2>3. FromCta(i)
    BY <2>2 DEF LinkInv
  <2>4. Trusts(c, p)
    BY <2>2, <2>3, TrustIsClosed DEF FromCta, Trusts
  <2>5. p \in Known /\ ValidFor(c, p, before) /\ Shape(p, before) /\ Shape(i, chain)
    BY <1>0, <1>2, <2>4
  <2>6. /\ pcas[i].prev = p /\ pcas[i].expires <= pcas[p].expires /\ pcas[i].root = RootHash(p)
        /\ attenuates(pcas[p].caps, pcas[i].caps)
    BY <2>3 DEF FromCta
  <2> HIDE DEF before, chain, p, Good
  <2>7. /\ Len(before) \in Nat /\ Len(before) >= 1 /\ Len(chain) = Len(before) + 1
        /\ chain[Len(chain)] = i /\ chain[Len(before)] = p /\ chain # <<>>
        /\ \A k \in 1 .. Len(before) : chain[k] = before[k] /\ before[k] \in Known
    BY <1>2, <2>1, <2>5 DEF Shape
  <2>8. chain[1] = before[1]
    BY <2>7
  <2>9. ValidRoot(chain, RootsOf[c]) /\ RootHash(i) = chain[1]
    BY <1>2, <2>5, <2>6, <2>7, <2>8 DEF ValidFor, ValidRoot, RootHash
  <2>10. ASSUME NEW k \in 1 .. Len(chain) PROVE pcas[i].expires <= pcas[chain[k]].expires
    <3>1. CASE k = Len(chain)
      BY <1>0, <2>7, <3>1
    <3>2. CASE k \in 1 .. Len(before)
      <4>1. pcas[p].expires <= pcas[before[k]].expires
        BY <2>5, <3>2 DEF ValidFor
      <4>2. /\ pcas[i].expires \in Nat /\ pcas[p].expires \in Nat
            /\ pcas[before[k]].expires \in Nat /\ chain[k] = before[k]
        BY <1>0, <2>5, <2>7, <3>2
      <4> QED BY <2>6, <4>1, <4>2
    <3> QED BY <2>7, <3>1, <3>2
  <2>11. ASSUME NEW k \in 2 .. Len(chain)
         PROVE  ValidLink(chain, k) /\ pcas[chain[k]].issuer \in TrustedBy[c]
    <3>1. CASE k = Len(chain)
      <4>1. chain[k] = i /\ chain[k - 1] = p
        BY <2>7, <3>1
      <4>2. RootHash(p) = chain[1]
        BY <2>5, <2>8 DEF ValidFor
      <4> QED BY <2>2, <2>6, <4>1, <4>2 DEF ValidLink, ExpiryWithin, Linked, Transition
    <3>2. CASE k \in 2 .. Len(before)
      <4>1. ValidLink(before, k) /\ pcas[before[k]].issuer \in TrustedBy[c]
        BY <2>5, <3>2 DEF ValidFor
      <4>2. chain[k] = before[k] /\ chain[k - 1] = before[k - 1]
        BY <2>7, <3>2
      <4> QED BY <2>8, <4>1, <4>2 DEF ValidLink, ExpiryWithin, Linked, Transition
    <3> QED BY <2>7, <3>1, <3>2
  <2>12. ValidFor(c, i, chain)
    BY <2>9, <2>10, <2>11 DEF ValidFor
  <2> QED BY <2>12 DEF chain
<1> HIDE DEF Good
<1>3. \A i \in Known : i \in Good
  <2>1. Good \in SUBSET Known
    BY DEF Good
  <2> QED BY <1>0, <1>1, <1>2, <2>1, ByParent
<1> QED BY <1>3 DEF Good

LEMMA LinksValidate == AInv /\ LinkInv /\ now \in Nat => EmittedChainsValidate
<1> SUFFICES ASSUME AInv, LinkInv, now \in Nat, NEW i \in Known,
                    pcas[i].issuer \in Ctas, ~is_expired_at(i, now)
             PROVE  LET c == pcas[i].issuer
                    IN  validate_cta_chain(Chain(i), RootsOf[c], TrustedBy[c], now)
  BY DEF EmittedChainsValidate
<1> DEFINE c == pcas[i].issuer
           chain == Chain(i)
<1>1. Trusts(c, i)
  BY TrustIsClosed DEF LinkInv, FromCta, Trusts
<1>2. ValidFor(c, i, chain) /\ Shape(i, chain)
  BY <1>1, TrustedChains, ChainShape DEF AInv, LinkInv
<1> HIDE DEF chain
<1>3. \A k \in DOMAIN chain : ~is_expired_at(chain[k], now)
  <2> SUFFICES ASSUME NEW k \in DOMAIN chain PROVE ~is_expired_at(chain[k], now)
    OBVIOUS
  <2>1. k \in 1 .. Len(chain) /\ chain[k] \in Known
    BY <1>2 DEF Shape
  <2>2. pcas[i].expires <= pcas[chain[k]].expires
    BY <1>2, <2>1 DEF ValidFor
  <2>3. pcas[i].expires \in Nat /\ pcas[chain[k]].expires \in Nat
    BY <2>1, ExpiresAreNumbers DEF AInv
  <2> QED BY <2>2, <2>3 DEF is_expired_at
<1>4. validate_cta_chain(chain, RootsOf[c], TrustedBy[c], now)
  BY <1>2, <1>3 DEF validate_cta_chain, ValidFor
<1> QED BY <1>4 DEF chain

CInv == AInv /\ LinkInv /\ now \in Nat
LEMMA InitCInv == Init => CInv
  BY InitAInv, InitLink DEF Init, CInv
LEMMA StepCInv == CInv /\ [Next]_vars => CInv'
<1>1. now \in Nat /\ [Next]_vars => (now \in Nat)'
  BY DEF Next, vars, IssueRoot, Continue, Prove, Submit, Emit, Refuse, Tick, Restart
<1> QED BY <1>1, StepAInv, StepLink DEF CInv

(* Cta::submit looks at one hop, validate_cta_chain at all of them: what a *)
(* CTA emitted validates for that CTA with the whole chain behind it, for  *)
(* as long as the certificate itself is not expired.                       *)
THEOREM EmittedChainsAreValid == Spec => []EmittedChainsValidate
<1>1. CInv => EmittedChainsValidate
  BY LinksValidate DEF CInv
<1> QED BY <1>1, InitCInv, StepCInv, PTL DEF Spec

-----------------------------------------------------------------------------
(* Along a chain both validators accept, each hop is an attenuation.       *)
LEMMA CapsAreTyped ==
    ASSUME PcasTyped, NEW i \in Known, NEW key \in DOMAIN pcas[i].caps
    PROVE  /\ pcas[i].caps[key].max_calls \in Nat
           /\ pcas[i].caps[key].constraints \subseteq Constraint
<1>1. pcas[i] \in Certificate
  BY DEF PcasTyped, Known
<1>2. PICK r \in Requests : pcas[i].caps = r.caps
  BY <1>1 DEF Certificate
<1> QED BY <1>2, RequestsAreTyped

Narrowed(chain, k) ==
    /\ DOMAIN pcas[chain[k]].caps \subseteq DOMAIN pcas[chain[1]].caps
    /\ pcas[chain[k]].expires <= pcas[chain[1]].expires
    /\ \A key \in DOMAIN pcas[chain[k]].caps :
          LET cap == pcas[chain[k]].caps[key]
              first == pcas[chain[1]].caps[key]
          IN  /\ WithinLimit(cap.max_calls, first.max_calls)
              /\ KeepsThroughout(chain, key) =>
                    \A call \in Calls : Permits(cap, call) => Permits(first, call)

LEMMA LinksNarrow ==
    ASSUME PcasTyped, NEW chain \in Seq(Known), Len(chain) >= 1,
           \A k \in 2 .. Len(chain) : ExpiryWithin(chain, k) /\ Transition(chain, k)
    PROVE  \A k \in 1 .. Len(chain) : Narrowed(chain, k)
<1>0. /\ Len(chain) \in Nat /\ \A k \in 1 .. Len(chain) : chain[k] \in Known
      /\ \A k \in 1 .. Len(chain) : pcas[chain[k]].expires \in Nat
  BY ExpiresAreNumbers
<1>1. Narrowed(chain, 1)
  <2>1. \A key \in DOMAIN pcas[chain[1]].caps : pcas[chain[1]].caps[key].max_calls \in Nat
    BY <1>0, CapsAreTyped
  <2> QED BY <1>0, <2>1 DEF Narrowed, WithinLimit
<1>2. ASSUME NEW k \in 2 .. Len(chain), Narrowed(chain, k - 1) PROVE Narrowed(chain, k)
  <2> DEFINE here == pcas[chain[k]]
             before == pcas[chain[k - 1]]
             root == pcas[chain[1]]
  <2>1. /\ chain[k] \in Known /\ chain[k - 1] \in Known /\ chain[1] \in Known
        /\ here.expires \in Nat /\ before.expires \in Nat /\ root.expires \in Nat
    BY <1>0
  <2>2. here.expires <= before.expires /\ attenuates(before.caps, here.caps)
    BY DEF ExpiryWithin, Transition
  <2>3. before.expires <= root.expires /\ DOMAIN before.caps \subseteq DOMAIN root.caps
    BY <1>2 DEF Narrowed
  <2>4. here.expires <= root.expires /\ DOMAIN here.caps \subseteq DOMAIN root.caps
    <3> HIDE DEF here, before, root
    <3> QED BY <2>1, <2>2, <2>3 DEF attenuates
  <2>5. ASSUME NEW key \in DOMAIN here.caps
        PROVE  /\ WithinLimit(here.caps[key].max_calls, root.caps[key].max_calls)
               /\ KeepsThroughout(chain, key) =>
                     \A call \in Calls : Permits(here.caps[key], call)
                                            => Permits(root.caps[key], call)
    <3>1. key \in DOMAIN before.caps /\ key \in DOMAIN root.caps
      BY <2>2, <2>3 DEF attenuates
    <3>2. is_subset_of(here.caps[key], before.caps[key])
      BY <2>2 DEF attenuates
    <3>3. /\ here.caps[key].max_calls \in Nat /\ before.caps[key].max_calls \in Nat
          /\ root.caps[key].max_calls \in Nat
          /\ here.caps[key].constraints \subseteq Constraint
          /\ before.caps[key].constraints \subseteq Constraint
      BY <2>1, <3>1, CapsAreTyped
    <3>4. WithinLimit(before.caps[key].max_calls, root.caps[key].max_calls)
      BY <1>2, <3>1 DEF Narrowed
    <3>5. WithinLimit(here.caps[key].max_calls, before.caps[key].max_calls)
      BY <3>2 DEF is_subset_of
    <3>6. WithinLimit(here.caps[key].max_calls, root.caps[key].max_calls)
      <4> HIDE DEF here, before, root
      <4> QED BY <3>3, <3>4, <3>5, NoLimitIsNumber DEF WithinLimit
    <3>7. ASSUME KeepsThroughout(chain, key), NEW call \in Calls, Permits(here.caps[key], call)
          PROVE  Permits(root.caps[key], call)
      <4>1. Keeps(before.caps[key], here.caps[key])
        BY <3>7 DEF KeepsThroughout
      <4>2. Permits(before.caps[key], call)
        BY <3>2, <3>3, <3>7, <4>1, AttenuationNarrowsCalls
      <4> QED BY <1>2, <3>1, <3>7, <4>2 DEF Narrowed
    <3> QED BY <3>6, <3>7
  <2> QED BY <2>4, <2>5 DEF Narrowed
<1> DEFINE Bad == {k \in 1 .. Len(chain) : ~Narrowed(chain, k)}
<1> SUFFICES ASSUME Bad # {} PROVE FALSE
  OBVIOUS
<1>3. Bad \in SUBSET Nat
  OBVIOUS
<1>4. PICK k \in Bad : \A m \in Bad : k <= m
  <2> HIDE DEF Bad
  <2> QED BY <1>3, LeastNat
<1>5. k \in 2 .. Len(chain) /\ ~Narrowed(chain, k)
  BY <1>1, <1>4
<1>6. k - 1 \in 1 .. Len(chain) /\ k - 1 \notin Bad
  <2> HIDE DEF Bad
  <2> QED BY <1>0, <1>3, <1>4, <1>5
<1> QED BY <1>2, <1>5, <1>6

LEMMA ChainsNarrow == AInv /\ LinkInv => AcceptedChainsNarrow
<1> SUFFICES ASSUME AInv, LinkInv, NEW i \in Known, Accepted(Chain(i))
             PROVE  LET root == pcas[Chain(i)[1]] IN
                    /\ DOMAIN pcas[i].caps \subseteq DOMAIN root.caps
                    /\ pcas[i].expires <= root.expires
                    /\ \A key \in DOMAIN pcas[i].caps :
                          /\ \A n \in 0 .. NoLimit : AllowsCalls(pcas[i].caps[key].max_calls, n)
                                => AllowsCalls(root.caps[key].max_calls, n)
                          /\ KeepsThroughout(Chain(i), key) =>
                                \A call \in Calls : Permits(pcas[i].caps[key], call)
                                                       => Permits(root.caps[key], call)
  BY DEF AcceptedChainsNarrow
<1> DEFINE chain == Chain(i)
<1>1. PcasTyped /\ Shape(i, chain)
  BY ChainShape DEF AInv, LinkInv
<1>2. \A k \in 2 .. Len(chain) : ExpiryWithin(chain, k) /\ Transition(chain, k)
  BY DEF Accepted, validate_chain, validate_cta_chain, ValidLink
<1> HIDE DEF chain
<1>3. Len(chain) \in Nat /\ chain[Len(chain)] = i /\ chain[1] \in Known
  BY <1>1 DEF Shape
<1>4. Narrowed(chain, Len(chain))
  BY <1>1, <1>2, <1>3, LinksNarrow DEF Shape
<1> DEFINE root == pcas[chain[1]]
<1>5. ASSUME NEW key \in DOMAIN pcas[i].caps, NEW n \in 0 .. NoLimit,
             AllowsCalls(pcas[i].caps[key].max_calls, n)
      PROVE  AllowsCalls(root.caps[key].max_calls, n)
  <2>1. key \in DOMAIN root.caps
    BY <1>3, <1>4 DEF Narrowed
  <2>2. /\ pcas[i].caps[key].max_calls \in Nat /\ root.caps[key].max_calls \in Nat
        /\ WithinLimit(pcas[i].caps[key].max_calls, root.caps[key].max_calls)
    BY <1>1, <1>3, <1>4, <2>1, CapsAreTyped DEF Narrowed
  <2> HIDE DEF root
  <2> QED BY <1>5, <2>2, NoLimitIsNumber DEF WithinLimit, AllowsCalls
<1>6. \A key \in DOMAIN pcas[i].caps : KeepsThroughout(chain, key) =>
         \A call \in Calls : Permits(pcas[i].caps[key], call) => Permits(root.caps[key], call)
  BY <1>3, <1>4 DEF Narrowed
<1>7. DOMAIN pcas[i].caps \subseteq DOMAIN root.caps /\ pcas[i].expires <= root.expires
  BY <1>3, <1>4 DEF Narrowed
<1> QED BY <1>5, <1>6, <1>7 DEF chain

(* validate_chain and validate_cta_chain look at neighbours: yet the last  *)
(* certificate of a chain they accept grants no key, no number of calls    *)
(* and no time that the root did not, and no call either where each hop    *)
(* keeps the constraints it was given.                                     *)
THEOREM ChainsDoNotWiden == Spec => []AcceptedChainsNarrow
<1>1. CInv => AcceptedChainsNarrow
  BY ChainsNarrow DEF CInv
<1> QED BY <1>1, InitCInv, StepCInv, PTL DEF Spec
=============================================================================
