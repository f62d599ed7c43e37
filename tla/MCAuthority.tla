---------------------------- MODULE MCAuthority ----------------------------
(***************************************************************************)
(* A small world for Authority: two CTAs of which the second trusts the    *)
(* first and a gateway more, two executors, one characteristic.            *)
(***************************************************************************)
EXTENDS Authority, TLC

Symmetry == Permutations(Nonces)

MCBelow == {<<"1", "2">>}
MCNone == {}
MCRootsOf == [c \in Ctas |-> IF c = "cta1" THEN {"gw1"} ELSE {"gw1", "gw2"}]
MCTrustedBy == [c \in Ctas |-> IF c = "cta1" THEN {"cta1"} ELSE {"cta1", "cta2"}]
MCHolders == [r \in {"role"} |-> {"ex1"}]
MCAdmitted == [c \in Ctas |-> {"ex2"}]
AtMostOperand(v) == [op |-> "Le", param |-> "amount", values |-> {v}]
Cap(limit, set) == [max_calls |-> limit, constraints |-> set]
MCNoLimit == 5
Narrow == [k \in {"pay"} |-> Cap(1, {AtMostOperand("1")})]
Wide == [k \in {"pay", "read"} |-> Cap(2, {AtMostOperand("2")})]
Free == [k \in {"pay"} |-> Cap(MCNoLimit, {})]
For(kind, who, caps, expires) ==
    [caps |-> caps, designee |-> [kind |-> kind, who |-> who], expires |-> expires]
MCRequests == {For("Characteristic", "role", Wide, 2),
               For("PublicKey", "ex1", Narrow, 2),
               For("PublicKey", "ex1", Free, 2),
               For("CtaReference", "cta1", Narrow, 1)}
=============================================================================
