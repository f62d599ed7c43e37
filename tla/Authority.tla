----------------------------- MODULE Authority -----------------------------
(***************************************************************************)
(* Delegation of authority: a gateway issues a root certificate (PCA), and *)
(* each hop is continued either by the designated executor itself or by a  *)
(* Causal Transaction Authority (CTA) on the executor's signed request.    *)
(* Source: amla-protocol/src/cta.rs, chain.rs and pca.rs, with             *)
(* MethodValidator (amla-protocol-capabilities/src/validator.rs) as the    *)
(* transition validator and StatefulFreshnessValidator as the nonce check. *)
(*                                                                         *)
(* A signature is who made it, and a hash is what it is taken of: pcas     *)
(* holds every certificate ever built, all different, and a hash of one is *)
(* its index, 0 standing for None.  Two steps of Cta::submit are apart,    *)
(* because only the nonce set is behind a lock: the checks up to the       *)
(* freshness test, and the rest.                                           *)
(***************************************************************************)
EXTENDS Constraints, Sequences, FiniteSetsExt

CONSTANTS
    Gateways, Ctas, Executors,   \* the keys
    RootsOf,        \* CTA -> the root authorities it trusts
    TrustedBy,      \* CTA -> the CTAs whose certificates it trusts
    Holders,        \* characteristic -> executors the resolver accepts for it
    Admitted,       \* CTA -> executors its resolver accepts for a CtaReference
    Requests,       \* ContinuationRequests: [caps, designee, expires], caps
                    \* a map key -> capability, designee [kind, who]
    Nonces,         \* random freshness challenges
    MAX_CHAIN_DEPTH,
    \* bounds: the clock, certificates, root certificates, and what the
    \* executors sign plus the restarts of the CTAs
    Horizon, MaxPcas, MaxRoots, MaxEvents

Keys == Gateways \cup Ctas \cup Executors

(* A CTA signs with a key of its own: nobody else issues under it.         *)
ASSUME CtaKeysAreTheirOwn == Ctas \cap (Gateways \cup Executors) = {}

(* What the CTAs are configured with: a CTA accepts its own certificates,  *)
(* and whom it trusts trusts no more than it does.                         *)
ASSUME TrustIsClosed ==
    /\ RootsOf \in [Ctas -> SUBSET Gateways] /\ TrustedBy \in [Ctas -> SUBSET Ctas]
    /\ \A c \in Ctas : c \in TrustedBy[c]
    /\ \A c \in Ctas : \A d \in TrustedBy[c] :
          RootsOf[d] \subseteq RootsOf[c] /\ TrustedBy[d] \subseteq TrustedBy[c]
Designees == [kind : {"PublicKey"}, who : Executors]
                 \cup [kind : {"Characteristic"}, who : DOMAIN Holders]
                 \cup [kind : {"CtaReference"}, who : Ctas]
ASSUME RequestsAreTyped ==
    /\ Horizon \in Nat
    /\ \A r \in Requests :
          /\ r = [caps |-> r.caps, designee |-> r.designee, expires |-> r.expires]
          /\ r.designee \in Designees /\ r.expires \in 1 .. Horizon
          /\ \A key \in DOMAIN r.caps :
                r.caps[key].max_calls \in Nat /\ r.caps[key].constraints \subseteq Constraint

VARIABLES
    pcas,       \* every certificate built, in order
    pocs,       \* proofs of continuity the executors have signed
    now,
    seen,       \* CTA -> the nonces in its set
    checked,    \* submissions past the freshness check
    era,        \* CTA -> how often it was restarted (history)
    emitted     \* what each certificate of a CTA was built from (history)

vars == <<pcas, pocs, now, seen, checked, era, emitted>>

Init ==
    /\ pcas = <<>> /\ pocs = {} /\ now = 0 /\ checked = {} /\ emitted = {}
    /\ seen = [c \in Ctas |-> {}] /\ era = [c \in Ctas |-> 0]

Known == DOMAIN pcas
is_root(i) == pcas[i].prev = 0
is_expired_at(i, t) == t >= pcas[i].expires

(* PcaBuilder::build_and_sign: at least one capability; a root hash        *)
(* exactly when there is a previous hash.  Building the same certificate   *)
(* again yields the same hash.                                             *)
Pca(issuer, request, prev, root) ==
    [issuer |-> issuer, caps |-> request.caps, designee |-> request.designee,
     expires |-> request.expires, prev |-> prev, root |-> root]
build_and_sign(pca) ==
    /\ DOMAIN pca.caps # {}
    /\ (pca.prev = 0) = (pca.root = 0)
    /\ IF \E i \in Known : pcas[i] = pca
       THEN UNCHANGED pcas
       ELSE Len(pcas) < MaxPcas /\ pcas' = Append(pcas, pca)
HashOf(pca) == CHOOSE i \in DOMAIN pcas' : pcas'[i] = pca

(* The parent's hash taken for the root's. *)
RootHash_of_parent(i) == i

(* PcaBuilder::parent_pca and the root hash of Cta::submit. *)
RootHash(i) == IF is_root(i) THEN i ELSE pcas[i].root

-----------------------------------------------------------------------------
(* Capabilities by key: the child's keys are among the parent's, and each  *)
(* is an attenuation (verify_capability_attenuation of the CTA,            *)
(* validate_keyed_transitions of the chain validators).                    *)
attenuates(parent, child) ==
    /\ DOMAIN child \subseteq DOMAIN parent
    /\ \A k \in DOMAIN child : is_subset_of(child[k], parent[k])

(* Who may continue a certificate at CTA c. *)
IsDesignated(designee, executor, c) ==
    \/ designee.kind = "PublicKey" /\ executor = designee.who
    \/ designee.kind = "Characteristic" /\ executor \in Holders[designee.who]
    \/ designee.kind = "CtaReference" /\ designee.who = c /\ executor \in Admitted[c]

(* The signature is not taken over the request. *)
verify_proof_of_continuity_unbound(c, i, poc, request) ==
    /\ poc.parent_hash = i
    /\ IsDesignated(pcas[i].designee, poc.executor, c)

(* Cta::verify_proof_of_continuity. *)
verify_proof_of_continuity(c, i, poc, request) ==
    /\ poc.parent_hash = i
    /\ IsDesignated(pcas[i].designee, poc.executor, c)
    /\ poc.signed = request

IssuedBy(keys) == {i \in Known : pcas[i].issuer \in keys}
Events == Cardinality(pocs) + Cardinality(IssuedBy(Executors))
          + MapThenSumSet(LAMBDA c : era[c], Ctas)

(* A gateway issues a root certificate. *)
IssueRoot(g) == \E request \in Requests :
    /\ Cardinality(IssuedBy(Gateways)) < MaxRoots
    /\ build_and_sign(Pca(g, request, 0, 0))
    /\ UNCHANGED <<pocs, now, seen, checked, era, emitted>>

(* An executor continues a chain by itself: the builder takes whatever it  *)
(* is given, and only a chain validator looks at it.                       *)
Continue(e, i) == \E request \in Requests :
    /\ Events < MaxEvents
    /\ build_and_sign(Pca(e, request, i, RootHash(i)))
    /\ UNCHANGED <<pocs, now, seen, checked, era, emitted>>

(* ProofOfContinuity::build: e signs the parent, a challenge and a request.*)
Prove(e, i) == \E request \in Requests, nonce \in Nonces :
    /\ Events < MaxEvents
    /\ pocs' = pocs \cup {[parent_hash |-> i, executor |-> e, challenge |-> nonce, signed |-> request]}
    /\ UNCHANGED <<pcas, now, seen, checked, era, emitted>>

(* The nonce is looked up and not recorded. *)
fresh_unrecorded(c, nonce) == nonce \notin seen[c] /\ UNCHANGED seen

(* StatefulFreshnessValidator::validate: the nonce is looked up and        *)
(* inserted under one lock.                                                *)
fresh(c, nonce) == nonce \notin seen[c] /\ seen' = [seen EXCEPT ![c] = @ \cup {nonce}]

(* Steps 1 to 4 of Cta::submit, for a parent, a proof and a request that   *)
(* need not belong together.  A refusal before the freshness test changes  *)
(* nothing.                                                                *)
Submit(c, i, poc, request) ==
    /\ pcas[i].issuer \in (IF is_root(i) THEN RootsOf[c] ELSE TrustedBy[c])
    /\ ~is_expired_at(i, now)
    /\ fresh(c, poc.challenge)
    /\ checked' = checked \cup {[cta |-> c, parent |-> i, poc |-> poc, request |-> request]}
    /\ UNCHANGED <<pcas, pocs, now, era, emitted>>

Accepts(s) ==
    /\ verify_proof_of_continuity(s.cta, s.parent, s.poc, s.request)
    /\ attenuates(pcas[s.parent].caps, s.request.caps)
    /\ s.request.expires <= pcas[s.parent].expires
    /\ DOMAIN s.request.caps # {}

(* Steps 5 to 8: emit the child, or refuse, the nonce being spent.         *)
Emit(s) ==
    LET child == Pca(s.cta, s.request, s.poc.parent_hash, RootHash(s.parent)) IN
    /\ Accepts(s) /\ build_and_sign(child)
    /\ emitted' = emitted \cup {[cta |-> s.cta, era |-> era[s.cta], poc |-> s.poc,
                                 child |-> HashOf(child)]}
    /\ checked' = checked \ {s}
    /\ UNCHANGED <<pocs, now, seen, era>>
Refuse(s) ==
    /\ ~Accepts(s)
    /\ checked' = checked \ {s}
    /\ UNCHANGED <<pcas, pocs, now, seen, era, emitted>>

Tick ==
    /\ now < Horizon
    /\ now' = now + 1
    /\ UNCHANGED <<pcas, pocs, seen, checked, era, emitted>>

(* A CTA restarts: its nonce set is in memory only. *)
Restart(c) ==
    /\ Events < MaxEvents
    /\ era' = [era EXCEPT ![c] = @ + 1]
    /\ seen' = [seen EXCEPT ![c] = {}]
    /\ checked' = {s \in checked : s.cta # c}
    /\ UNCHANGED <<pcas, pocs, now, emitted>>

Next ==
    \/ \E g \in Gateways : IssueRoot(g)
    \/ \E e \in Executors, i \in Known : Continue(e, i) \/ Prove(e, i)
    \/ \E c \in Ctas, i \in Known, p, q \in pocs : Submit(c, i, p, q.signed)
    \/ \E s \in checked : Emit(s) \/ Refuse(s)
    \/ Tick
    \/ \E c \in Ctas : Restart(c)

Spec == Init /\ [][Next]_vars

-----------------------------------------------------------------------------
(* The chain that ends in certificate i, root first. *)
Chain(i) ==
    LET upto[j \in Known] == IF is_root(j) THEN <<j>> ELSE Append(upto[pcas[j].prev], j)
    IN  upto[i]

Linked(chain, k) == pcas[chain[k]].prev = chain[k - 1]

(* A validator that does not look at the transitions. *)
Transition_any(chain, k) == TRUE

Transition(chain, k) == attenuates(pcas[chain[k - 1]].caps, pcas[chain[k]].caps)

ExpiryWithin(chain, k) == pcas[chain[k]].expires <= pcas[chain[k - 1]].expires

(* What both validators ask: the root's issuer is one of roots, and every  *)
(* link holds.                                                             *)
ValidRoot(chain, roots) ==
    /\ chain # <<>> /\ is_root(chain[1])
    /\ pcas[chain[1]].issuer \in roots
    /\ pcas[chain[1]].root = 0
ValidLink(chain, k) ==
    /\ ExpiryWithin(chain, k)
    /\ Linked(chain, k)
    /\ pcas[chain[k]].root = chain[1]
    /\ Transition(chain, k)

(* validate_chain: every hop is issued by the key its parent designates.   *)
validate_chain(chain, gateway, t) ==
    /\ Len(chain) <= MAX_CHAIN_DEPTH
    /\ ValidRoot(chain, {gateway})
    /\ \A k \in DOMAIN chain : ~is_expired_at(chain[k], t)
    /\ \A k \in 2 .. Len(chain) :
          /\ ValidLink(chain, k)
          /\ pcas[chain[k - 1]].designee = [kind |-> "PublicKey", who |-> pcas[chain[k]].issuer]

(* validate_cta_chain: every hop is issued by a trusted CTA. *)
validate_cta_chain(chain, roots, ctas, t) ==
    /\ ValidRoot(chain, roots)
    /\ \A k \in DOMAIN chain : ~is_expired_at(chain[k], t)
    /\ \A k \in 2 .. Len(chain) :
          ValidLink(chain, k) /\ pcas[chain[k]].issuer \in ctas

-----------------------------------------------------------------------------
TypeOK ==
    /\ Len(pcas) <= MaxPcas
    /\ \A i \in Known : \E r \in Requests, issuer \in Keys, prev, root \in 0 .. (i - 1) :
          pcas[i] = Pca(issuer, r, prev, root)
    /\ pocs \subseteq [parent_hash : Known, executor : Executors, challenge : Nonces,
                       signed : Requests]
    /\ now \in 0 .. Horizon
    /\ seen \in [Ctas -> SUBSET Nonces]
    /\ checked \subseteq [cta : Ctas, parent : Known, poc : pocs, request : Requests]
    /\ era \in [Ctas -> 0 .. MaxEvents]
    /\ emitted \subseteq [cta : Ctas, era : 0 .. MaxEvents, poc : pocs, child : Known]

(* A certificate a CTA emitted validates, with the whole chain behind it,  *)
(* for that CTA and for as long as the certificate itself is not expired:  *)
(* submit looks at one hop only, validate_cta_chain at all of them.        *)
EmittedChainsValidate ==
    \A i \in Known : pcas[i].issuer \in Ctas /\ ~is_expired_at(i, now) =>
        LET c == pcas[i].issuer
        IN  validate_cta_chain(Chain(i), RootsOf[c], TrustedBy[c], now)

(* Along a chain that either validator accepts, the last certificate       *)
(* grants no key, no number of calls and no time that the first did not;   *)
(* and no call either, where each hop keeps the constraints it was given.  *)
Accepted(chain) ==
    \/ \E g \in Gateways : validate_chain(chain, g, now)
    \/ \E c \in Ctas : validate_cta_chain(chain, RootsOf[c], TrustedBy[c], now)
KeepsThroughout(chain, key) == \A k \in 2 .. Len(chain) :
    Keeps(pcas[chain[k - 1]].caps[key], pcas[chain[k]].caps[key])
AcceptedChainsNarrow ==
    \A i \in Known : LET root == pcas[Chain(i)[1]] IN Accepted(Chain(i)) =>
        /\ DOMAIN pcas[i].caps \subseteq DOMAIN root.caps
        /\ pcas[i].expires <= root.expires
        /\ \A key \in DOMAIN pcas[i].caps :
              /\ \A n \in 0 .. NoLimit : AllowsCalls(pcas[i].caps[key].max_calls, n)
                                           => AllowsCalls(root.caps[key].max_calls, n)
              /\ KeepsThroughout(Chain(i), key) =>
                    \A call \in Calls : Permits(pcas[i].caps[key], call)
                                           => Permits(root.caps[key], call)

(* Between two restarts, a CTA emits one certificate at most for a nonce,  *)
(* whatever is sent twice or at once.                                      *)
OneChildPerNonce ==
    \A a, b \in emitted :
        a.cta = b.cta /\ a.era = b.era /\ a.poc.challenge = b.poc.challenge => a = b

(* Every certificate of a CTA says what the executor its parent designates *)
(* signed, for that parent.                                                *)
EmittedAsSigned ==
    \A a \in emitted : LET child == pcas[a.child] IN
        /\ child.issuer = a.cta
        /\ child.prev = a.poc.parent_hash
        /\ a.poc.signed = [caps |-> child.caps, designee |-> child.designee,
                           expires |-> child.expires]
        /\ IsDesignated(pcas[child.prev].designee, a.poc.executor, a.cta)
=============================================================================
