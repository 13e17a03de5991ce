---------------------------- MODULE MCIdentities ----------------------------
(* IDs of up to three characters after the scheme, among them dot segments, *)
(* empty segments and characters of every class; X.509 files of up to four  *)
(* blocks; tokens with every combination of headers and claims.  Trust      *)
(* domains a and spiffe have bundles, a.a has none.                         *)
EXTENDS SVIDs, SequencesExt

Ends == BoundedSeq({"a", ".", "/", "~"}, 3) \cup BoundedSeq({"a", "/", "A", "%"}, 2)

MCTexts ==
    {schemePrefix \o e : e \in Ends} \cup BoundedSeq({"spiffe", "a", ":", "/"}, 2)
        \cup {schemePrefix \o <<"a", "/", ".", ".">> \o e : e \in BoundedSeq({"/", "a"}, 1)}

MCPaths == BoundedSeq({"a", ".", "/"}, 3) \cup {<<"/", ":">>}

MCSegmentLists == BoundedSeq({<<>>, <<"a">>, <<".">>, <<".", ".">>, <<"a", "/">>, <<".", "A">>}, 2)

MCBundled == {<<"a">>, <<"spiffe">>}
Signers == MCBundled \cup {<<"a", ".", "a">>}

InA == schemePrefix \o <<"a", "/", "a">>
InSpiffe == schemePrefix \o <<"spiffe", "/", "a">>
Unbundled == schemePrefix \o <<"a", ".", "a", "/", "a">>
Root == schemePrefix \o <<"a">>
Malformed == schemePrefix \o <<"a", "/">>

CertBlock(c) == [type |-> certType, good |-> TRUE, cert |-> c, key |-> "none"]
KeyBlock(k) == [type |-> keyType, good |-> TRUE, cert |-> NoCert, key |-> k]
BadBlock(t) == [type |-> t, good |-> FALSE, cert |-> NoCert, key |-> "none"]

Leaves ==
    [uris : {<<>>, <<InA>>, <<Unbundled>>, <<Root>>, <<Malformed>>, <<InA, InA>>},
     isCA : BOOLEAN,
     keyUsage : SUBSET {"digitalSignature", "keyCertSign", "cRLSign"},
     publicKey : {"k1"}]

Signing(ca, usage) == [NoCert EXCEPT !.isCA = ca, !.keyUsage = usage]

Rests ==
    {<<>>, <<CertBlock(Signing(TRUE, {"keyCertSign"}))>>, <<CertBlock(Signing(FALSE, {"keyCertSign"}))>>,
     <<CertBlock(Signing(TRUE, {}))>>, <<BadBlock(certType)>>, <<BadBlock("other")>>}

Keys ==
    {<<>>, <<BadBlock(keyType)>>, <<KeyBlock("k1"), KeyBlock("k2")>>}
        \cup {<<KeyBlock(k)>> : k \in {"k1", "k2", "unsupported"}}

X509File(f, g, roots) == [kind |-> "x509", certFile |-> f, keyFile |-> g, roots |-> roots]

MCX509Files ==
    {X509File(k \o <<CertBlock(c)>> \o r, k \o <<CertBlock(c)>> \o r, roots) :
        k \in Keys, c \in Leaves, r \in Rests, roots \in {Signers, {<<"spiffe">>}}}
    \cup {X509File(f, g, {<<"a">>}) : f \in Keys, g \in Keys}

MCTokens ==
    [kind : {"token"}, compact : {TRUE}, typ : {"absent", "JWT", "JOSE", "wit+jwt", "other"},
     kid : {"", "k"}, sub : {<<>>, InA, InSpiffe, Unbundled, Malformed}, exp : {"absent", "past", "valid"},
     aud : {{}, {"us"}, {"them"}}, audience : {{}, {"us"}}, cnf : {"private", "public"},
     signer : Signers, use : {"jwt-svid", "wit-svid"}]
    \cup
    [kind : {"token"}, compact : {FALSE}, typ : {"JWT", "wit+jwt"}, kid : {"k"}, sub : {InA},
     exp : {"valid"}, aud : {{}}, audience : {{}}, cnf : {"public"}, signer : {<<"a">>},
     use : {"jwt-svid", "wit-svid"}]
=============================================================================
