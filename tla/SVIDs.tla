-------------------------------- MODULE SVIDs --------------------------------
(***************************************************************************)
(* Reading SVIDs: X.509 (svid/x509svid, internal/pemutil), JWT             *)
(* (svid/jwtsvid) and WIT (exp/svid/witsvid).  A document is given to      *)
(* several functions, one after the other, and what each of them made of   *)
(* it is kept, so that the functions can be compared.  The SPIFFE ID in a  *)
(* document is scanned by the steps of FromString in SpiffeID.             *)
(***************************************************************************)
EXTENDS SpiffeID, FiniteSets

CONSTANTS
    X509Files,  \* PEM files of X509-SVIDs
    Tokens,     \* serialized JWT-SVIDs and WIT-SVIDs
    Bundled     \* names of the trust domains the bundle source has a bundle for

VARIABLES
    doc,      \* the document, or NoDoc for a program that only builds IDs
    todo,     \* the calls on the document that are left, the current one first
    outcome   \* by call: the SVID it returned

docVars == <<doc, todo, outcome>>
vars == <<idVars, docVars>>

NoDoc == [kind |-> "none"]

X509Calls == <<"Parse", "Reparse", "Verify">>
TokenCalls == <<"jwt.ParseInsecure", "jwt.ParseAndValidate",
                "wit.ParseInsecure", "wit.ParseAndValidate">>

NoSVID == [ok |-> FALSE, id |-> ZeroID, certs |-> <<>>, key |-> "none"]

Certificates ==
    [uris : Seq(Seq(Chars)), isCA : BOOLEAN, keyUsage : SUBSET STRING, publicKey : STRING]

Blocks == [type : STRING, good : BOOLEAN, cert : Certificates, key : STRING]

ASSUME SVIDsAssumption ==
    /\ Bundled \subseteq Seq(Chars)
    /\ \A d \in X509Files :
          d.kind = "x509" /\ d.certFile \in Seq(Blocks) /\ d.keyFile \in Seq(Blocks)
    /\ \A d \in Tokens : d.kind = "token" /\ d.sub \in Seq(Chars)

(* Bound: documents are read by a default build. *)
Init ==
    /\ IDInit
    /\ doc \in {NoDoc} \cup X509Files \cup Tokens
    /\ doc # NoDoc => ~backcompat
    /\ todo = CASE doc.kind = "x509" -> X509Calls
                [] doc.kind = "token" -> TokenCalls
                [] OTHER -> <<>>
    /\ outcome = [c \in Range(X509Calls) \cup Range(TokenCalls) |-> NoSVID]

-----------------------------------------------------------------------------
(* PEM files: a file is a sequence of blocks, and a block has a type, a    *)
(* certificate or a key, and parses or does not.                           *)

certType == "CERTIFICATE"
keyType == "PRIVATE KEY"

(* The blocks of the type, in order: the n-th is the one that n of them,   *)
(* itself included, come up to.                                            *)
parseBlocks(file, type) ==
    LET at == {k \in DOMAIN file : file[k].type = type} IN
    [n \in 1 .. Cardinality(at) |->
        file[CHOOSE k \in at : Cardinality({j \in at : j <= k}) = n]]

(* A file without any block is refused, and so is one with a block of the  *)
(* type that does not parse; blocks of other types are skipped.            *)
BlocksParse(file, type) ==
    /\ file # <<>>
    /\ \A b \in Range(parseBlocks(file, type)) : b.good

ParseCertificates(file) ==
    LET blocks == parseBlocks(file, certType) IN [k \in DOMAIN blocks |-> blocks[k].cert]

(* The first key counts; without one there is none, which is no error. *)
ParsePrivateKey(file) ==
    LET blocks == parseBlocks(file, keyType) IN IF blocks = <<>> THEN "none" ELSE blocks[1].key

NoCert == [uris |-> <<>>, isCA |-> FALSE, keyUsage |-> {}, publicKey |-> "none"]

EncodeCertificates(certs) ==
    [k \in DOMAIN certs |->
        [type |-> certType, good |-> TRUE, cert |-> certs[k], key |-> "none"]]

EncodePKCS8PrivateKey(key) ==
    <<[type |-> keyType, good |-> TRUE, cert |-> NoCert, key |-> key]>>

-----------------------------------------------------------------------------
(* X509-SVIDs *)

(* Mutant: a leaf may sign revocation lists. *)
validateKeyUsageCRL(leaf) ==
    /\ "digitalSignature" \in leaf.keyUsage
    /\ "keyCertSign" \notin leaf.keyUsage

validateKeyUsage(leaf) ==
    /\ "digitalSignature" \in leaf.keyUsage
    /\ "keyCertSign" \notin leaf.keyUsage
    /\ "cRLSign" \notin leaf.keyUsage

validateLeafCertificate(leaf, leafID) ==
    /\ Path(leafID) # <<>>
    /\ ~leaf.isCA
    /\ validateKeyUsage(leaf)

validateSigningCertificates(certs) ==
    \A c \in Range(certs) : c.isCA /\ "keyCertSign" \in c.keyUsage

(* A key of an unsupported type matches no certificate. *)
keyMatches(key, publicKey) == key # "unsupported" /\ key = publicKey

validatePrivateKey(key, leaf) == key # "none" /\ keyMatches(key, leaf.publicKey)

(* What the current call reads: Reparse gives Parse what Marshal made of   *)
(* the SVID Parse returned.                                                *)
Input ==
    IF Head(todo) = "Reparse"
    THEN [certFile |-> EncodeCertificates(outcome["Parse"].certs),
          keyFile |-> EncodePKCS8PrivateKey(outcome["Parse"].key)]
    ELSE [certFile |-> doc.certFile, keyFile |-> doc.keyFile]

Certs == ParseCertificates(Input.certFile)
Key == ParsePrivateKey(Input.keyFile)

(* The call ends and the next begins. *)
Finish(svid) ==
    /\ outcome' = [outcome EXCEPT ![Head(todo)] = svid]
    /\ todo' = Tail(todo)
    /\ Reset
    /\ id' = ZeroID
    /\ UNCHANGED doc

(* IDFromCert: exactly one URI, which is then parsed. *)
IDFromCertBegins(cert) ==
    IF Len(cert.uris) = 1
    THEN FromStringBegins(TextCall("FromString", cert.uris[1]))
         /\ UNCHANGED docVars
    ELSE Finish(NoSVID)

(* Load and Parse; Marshal refuses what is no SVID. *)
ParseX509Begins ==
    /\ doc.kind = "x509" /\ todo # <<>> /\ Head(todo) \in {"Parse", "Reparse"}
    /\ pc = "idle"
    /\ IF /\ Head(todo) = "Reparse" => outcome["Parse"].ok
          /\ BlocksParse(Input.certFile, certType)
          /\ BlocksParse(Input.keyFile, keyType)
          /\ Certs # <<>>
       THEN IDFromCertBegins(Certs[1])
       ELSE Finish(NoSVID)

(* newSVID, once the leaf's ID is known. *)
ParseX509Ends ==
    /\ doc.kind = "x509" /\ todo # <<>> /\ Head(todo) \in {"Parse", "Reparse"}
    /\ pc = "returned"
    /\ IF /\ ok
          /\ validateLeafCertificate(Certs[1], id)
          /\ validateSigningCertificates(Tail(Certs))
          /\ validatePrivateKey(Key, Certs[1])
       THEN Finish([ok |-> TRUE, id |-> id, certs |-> Certs, key |-> Key])
       ELSE Finish(NoSVID)

(* ParseAndVerify, given the certificates of the file. *)
VerifyBegins ==
    /\ doc.kind = "x509" /\ todo # <<>> /\ Head(todo) = "Verify"
    /\ pc = "idle"
    /\ IF BlocksParse(doc.certFile, certType) /\ Certs # <<>>
       THEN IDFromCertBegins(Certs[1])
       ELSE Finish(NoSVID)

(* x509.Certificate.Verify: the trust domains whose authorities a chain of *)
(* certificates leads to are a property of the document.                   *)
ChainsTo(d, td) == td \in d.roots

(* GetX509BundleForTrustDomain, GetJWTBundleForTrustDomain,                *)
(* GetWITBundleForTrustDomain of the bundle source.                        *)
HasBundle(td) == td \in Bundled

(* Verify, once the leaf's ID is known. *)
VerifyEnds ==
    /\ doc.kind = "x509" /\ todo # <<>> /\ Head(todo) = "Verify"
    /\ pc = "returned"
    /\ IF /\ ok
          /\ ~Certs[1].isCA
          /\ {"keyCertSign", "cRLSign"} \cap Certs[1].keyUsage = {}
          /\ HasBundle(TrustDomain(id))
          /\ ChainsTo(doc, TrustDomain(id))
       THEN Finish([NoSVID EXCEPT !.ok = TRUE, !.id = id])
       ELSE Finish(NoSVID)

-----------------------------------------------------------------------------
(* JWT-SVIDs and WIT-SVIDs.  A token: compact, that it parses with an      *)
(* allowed algorithm; typ, kid, sub, exp, aud and cnf, its headers and     *)
(* claims; signer and use, the trust domain and the kind of authority      *)
(* whose key kid names and whose signature it has.  audience is the        *)
(* argument of the JWT functions.                                          *)

(* Mutant: the type header is not looked at. *)
JWTTypeAllowedAny(tok) == TRUE

(* The header may be absent. *)
JWTTypeAllowed(tok) == tok.typ \in {"absent", "JWT", "JOSE"}

(* Validate of the claims against the time, with leeway, and the audience. *)
ClaimsValid(tok, audience) ==
    /\ tok.exp = "valid"
    /\ audience # {} => audience \cap tok.aud # {}

(* extractCnfJWK: an object with a key of an allowed algorithm, and public. *)
extractCnfJWK(tok) == tok.cnf = "public"

(* Mutant: the authority may be of another trust domain. *)
SignatureVerifiedAny(tok, td, use) ==
    /\ tok.kid # ""
    /\ HasBundle(td)
    /\ \E t \in Bundled : tok.signer = t /\ tok.use = use

(* The authority the key ID names in the bundle of the trust domain made   *)
(* the signature.                                                          *)
SignatureVerified(tok, td, use) ==
    /\ tok.kid # ""
    /\ HasBundle(td)
    /\ tok.signer = td /\ tok.use = use

JWTCalls == {"jwt.ParseInsecure", "jwt.ParseAndValidate"}
WITCalls == {"wit.ParseInsecure", "wit.ParseAndValidate"}

Subject(tok) == FromStringBegins(TextCall("FromString", tok.sub))

(* parse of jwtsvid *)
ParseJWTBegins ==
    /\ doc.kind = "token" /\ todo # <<>> /\ Head(todo) \in JWTCalls
    /\ pc = "idle"
    /\ IF doc.compact /\ JWTTypeAllowed(doc) /\ doc.sub # <<>> /\ doc.exp # "absent"
       THEN Subject(doc) /\ UNCHANGED docVars
       ELSE Finish(NoSVID)

ParseJWTEnds ==
    /\ doc.kind = "token" /\ todo # <<>> /\ Head(todo) \in JWTCalls
    /\ pc = "returned"
    /\ IF /\ ok
          /\ Head(todo) = "jwt.ParseAndValidate" =>
                 SignatureVerified(doc, TrustDomain(id), "jwt-svid")
          /\ ClaimsValid(doc, doc.audience)
       THEN Finish([NoSVID EXCEPT !.ok = TRUE, !.id = id])
       ELSE Finish(NoSVID)

(* parse of witsvid: the type, the key ID and the confirmation key must be *)
(* there, an audience must not.                                            *)
ParseWITBegins ==
    /\ doc.kind = "token" /\ todo # <<>> /\ Head(todo) \in WITCalls
    /\ pc = "idle"
    /\ IF /\ doc.compact
          /\ doc.typ = "wit+jwt"
          /\ doc.kid # ""
          /\ doc.sub # <<>> /\ doc.exp # "absent" /\ doc.aud = {}
       THEN Subject(doc) /\ UNCHANGED docVars
       ELSE Finish(NoSVID)

ParseWITEnds ==
    /\ doc.kind = "token" /\ todo # <<>> /\ Head(todo) \in WITCalls
    /\ pc = "returned"
    /\ IF /\ ok
          /\ extractCnfJWK(doc)
          /\ ClaimsValid(doc, {})
          /\ Head(todo) = "wit.ParseAndValidate" =>
                 SignatureVerified(doc, TrustDomain(id), "wit-svid")
       THEN Finish([NoSVID EXCEPT !.ok = TRUE, !.id = id, !.key = doc.cnf])
       ELSE Finish(NoSVID)

-----------------------------------------------------------------------------
Read ==
    \/ ParseX509Begins \/ ParseX509Ends
    \/ VerifyBegins \/ VerifyEnds
    \/ ParseJWTBegins \/ ParseJWTEnds
    \/ ParseWITBegins \/ ParseWITEnds

Done == doc # NoDoc /\ todo = <<>> /\ UNCHANGED vars

Next ==
    \/ doc = NoDoc /\ (IDCalls \/ Continue) /\ UNCHANGED docVars
    \/ (Scan \/ Build) /\ UNCHANGED docVars
    \/ Read
    \/ Done

Spec == Init /\ [][Next]_vars

-----------------------------------------------------------------------------
(* Properties *)

Tried(c) == doc # NoDoc /\ c \notin Range(todo)

(* An X509-SVID that Parse accepts is one a peer will take: what Marshal   *)
(* makes of it parses to the same SVID, and Verify, which has checks of    *)
(* its own, finds the same ID and refuses it only when it has no bundle    *)
(* for its trust domain or no chain to one of that bundle's authorities.   *)
ParsedIsUsable ==
    LET svid == outcome["Parse"] IN
    svid.ok =>
        /\ Tried("Reparse") => outcome["Reparse"] = svid
        /\ Tried("Verify") =>
               LET td == TrustDomain(svid.id) IN
               /\ outcome["Verify"].ok <=> td \in Bundled /\ td \in doc.roots
               /\ outcome["Verify"].ok => outcome["Verify"].id = svid.id

TokenKinds ==
    {[insecure |-> "jwt.ParseInsecure", secure |-> "jwt.ParseAndValidate", use |-> "jwt-svid"],
     [insecure |-> "wit.ParseInsecure", secure |-> "wit.ParseAndValidate", use |-> "wit-svid"]}

(* Whoever an SVID claims to be, the authority that vouched for it is one  *)
(* of that ID's own trust domain, and of the kind for such SVIDs.  Leaving *)
(* out the signature check changes nothing else.                           *)
ValidatedByOwnTrustDomain ==
    /\ outcome["Verify"].ok => TrustDomain(outcome["Verify"].id) \in doc.roots \cap Bundled
    /\ \A t \in TokenKinds :
        LET insecure == outcome[t.insecure]
            secure == outcome[t.secure]
        IN Tried(t.secure) /\ doc.kind = "token" =>
               /\ secure.ok <=>
                      /\ insecure.ok
                      /\ doc.kid # ""
                      /\ doc.signer = TrustDomain(insecure.id)
                      /\ doc.signer \in Bundled
                      /\ doc.use = t.use
               /\ secure.ok => secure.id = insecure.id

(* No token is both a JWT-SVID and a WIT-SVID, with or without an expected *)
(* audience and even where signatures are not checked: a WIT-SVID, which   *)
(* needs a proof of possession, can never be used as a bearer token.       *)
NoTokenConfusion ==
    ~\E j \in JWTCalls, w \in WITCalls : outcome[j].ok /\ outcome[w].ok
=============================================================================
