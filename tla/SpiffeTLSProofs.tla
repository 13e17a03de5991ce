---------------------------- MODULE SpiffeTLSProofs ----------------------------
(***************************************************************************)
(* Proofs about SpiffeTLS: for any endpoints and modes nothing leaks; when *)
(* uses of one mode or one base configuration do not overlap, the mode     *)
(* controls the handshake, no mode has a say in it but those of calls with *)
(* the same base, and its own sources are open.                            *)
(***************************************************************************)
EXTENDS SpiffeTLS, SequenceTheorems, TLAPS

(* What the ...WithRawConfig constructor left in the fields of mode m. *)
RawBundle(m) == IF TakesBundle(mode[m]) THEN "raw" ELSE "nil"
RawSVID(m) == IF TakesSVID(mode[m]) THEN "raw" ELSE "nil"

(* A raw mode keeps its sources; a call with another mode has set the      *)
(* fields by the time it needs them.  Only a client dials.                 *)
FieldsInv ==
    /\ \A m \in ModeIds : mode[m].from = "raw" =>
          fields[m].bundle = RawBundle(m) /\ fields[m].svid = RawSVID(m)
    /\ \A e \in Endpoints :
          /\ pc[e] \in {"source", "bundle", "svid"} => M(e).from # "raw"
          /\ pc[e] = "svid" => fields[ModeOf[e]].bundle # "nil"
          /\ pc[e] = "hook" /\ M(e).from # "raw" =>
                fields[ModeOf[e]].bundle # "nil" /\ fields[ModeOf[e]].svid # "nil"
          /\ pc[e] = "dial" => M(e).role = Client

(* What is open, by where the endpoint is. *)
OpenInv ==
    \A e \in Endpoints :
        /\ pc[e] \in {"idle", "source"} => src[e] = "none"
        /\ pc[e] \in {"closing", "closed", "failed"} => src[e] # "open"
        /\ pc[e] = "idle" => inner[e] = "none"
        /\ pc[e] \in {"closed", "failed"} => inner[e] # "open"
        /\ pc[e] = "dial" => inner[e] = "none"
        /\ pc[e] \in Preparing /\ M(e).role = Client => inner[e] = "none"

-----------------------------------------------------------------------------
(* The sources an endpoint and a configuration name. *)
LEMMA EndpointTypes ==
    ASSUME TypeOK, NEW e \in Endpoints
    PROVE  /\ ModeOf[e] \in ModeIds /\ M(e) \in ModeKinds
           /\ Own(e) \in SourceIds /\ e \in SourceIds
           /\ ConfigOf(e) \in Endpoints \cup Bases
           /\ SourceIds \cap {"nil", "web"} = {}
<1>1. ModeOf[e] \in ModeIds /\ M(e) \in ModeKinds
  BY SpiffeTLSAssumption DEF TypeOK, M
<1>2. Own(e) \in SourceIds /\ e \in SourceIds
  BY <1>1 DEF Own, SourceIds, ModeKinds
<1>3. ConfigOf(e) \in Endpoints \cup Bases
  BY SpiffeTLSAssumption DEF ConfigOf
<1>4. SourceIds \cap {"nil", "web"} = {}
  BY SpiffeTLSAssumption DEF SourceIds
<1>5. QED
  BY <1>1, <1>2, <1>3, <1>4

(* The configurations a call starts from. *)
LEMMA ConfigTypes ==
    NewTLSConfig \in TLSConfigs /\ \A b \in Bases : AppConfig(b) \in TLSConfigs
<1>1. <<>> \in Seq(Verifiers) /\ <<AppVerifier>> \in Seq(Verifiers)
  BY DEF Verifiers
<1>2. NewTLSConfig \in TLSConfigs
  BY <1>1 DEF NewTLSConfig, TLSConfigs
<1>3. ASSUME NEW b \in Bases PROVE AppConfig(b) \in TLSConfigs
  <2>1. Brings[b] \in SUBSET Callbacks
    BY SpiffeTLSAssumption
  <2>2. QED
    BY <1>1, <2>1 DEF AppConfig, TLSConfigs
<1>4. QED
  BY <1>2, <1>3

(* Resetting a configuration keeps its callbacks and nothing else. *)
LEMMA ResetSets ==
    ASSUME NEW c \in TLSConfigs
    PROVE  /\ ResetAuthFields(c) \in TLSConfigs
           /\ ResetAuthFields(c).verify = c.verify
           /\ ResetAuthFields(c).callbacks = c.callbacks
           /\ ResetAuthFields(c).certificate = "nil"
           /\ ResetAuthFields(c).requireClientCert = FALSE
           /\ ResetAuthFields(c).insecureSkipVerify = FALSE
BY ConfigTypes DEF ResetAuthFields, NewTLSConfig, TLSConfigs

(* Resetting a configuration and wrapping a verifier around it. *)
LEMMA HookTypes ==
    ASSUME TypeOK, NEW c \in TLSConfigs, NEW m \in ModeIds,
           mode[m].role = Client /\ mode[m].kind # "mtlsWeb" => fields[m].bundle # "nil",
           mode[m].role = Server /\ mode[m].kind # "tls" => fields[m].bundle # "nil"
    PROVE  /\ mode[m].role = Client => HookClient(ResetAuthFields(c), m) \in TLSConfigs
           /\ mode[m].role = Server => HookServer(ResetAuthFields(c), m) \in TLSConfigs
<1> DEFINE r == ResetAuthFields(c)
           v == [bundle |-> fields[m].bundle, authorizer |-> m]
<1>1. r \in TLSConfigs
  BY ResetSets
<1>2. fields[m].svid \in SourceIds \cup {"nil"} /\ fields[m].bundle \in SourceIds \cup {"nil"}
  BY DEF TypeOK
<1>3. ASSUME fields[m].bundle # "nil" PROVE Wrap(r, m) \in Seq(Verifiers)
  <2>1. v \in Verifiers
    BY <1>2, <1>3 DEF Verifiers
  <2>2. <<v>> \in Seq(Verifiers) /\ r.verify \in Seq(Verifiers)
    BY <1>1, <2>1 DEF TLSConfigs
  <2>3. QED
    BY <2>2, ConcatProperties DEF Wrap
<1> HIDE DEF r, v
<1>4. ASSUME mode[m].role = Client PROVE HookClient(r, m) \in TLSConfigs
  BY <1>1, <1>2, <1>3, <1>4 DEF HookClient, TLSConfigs
<1>5. ASSUME mode[m].role = Server PROVE HookServer(r, m) \in TLSConfigs
  <2>1. mode[m].role # Client
    BY <1>5 DEF Client, Server
  <2>2. QED
    BY <1>1, <1>2, <1>3, <1>5 DEF HookServer, TLSConfigs
<1>6. QED
  BY <1>4, <1>5 DEF r

(* At the switch over the mode, a verifier has a bundle source. *)
LEMMA BundleAtHook ==
    ASSUME TypeOK, FieldsInv, NEW e \in Endpoints, pc[e] = "hook"
    PROVE  /\ M(e).role = Client /\ M(e).kind # "mtlsWeb" => fields[ModeOf[e]].bundle # "nil"
           /\ M(e).role = Server /\ M(e).kind # "tls" => fields[ModeOf[e]].bundle # "nil"
<1>1. CASE M(e).from = "raw"
  <2>1. ModeOf[e] \in ModeIds
    BY EndpointTypes
  <2>2. fields[ModeOf[e]].bundle = RawBundle(ModeOf[e])
    BY <1>1, <2>1 DEF FieldsInv, M
  <2>3. Client # Server
    BY DEF Client, Server
  <2>4. QED
    BY <2>2, <2>3 DEF RawBundle, TakesBundle, M
<1>2. CASE M(e).from # "raw"
  BY <1>2 DEF FieldsInv
<1>3. QED
  BY <1>1, <1>2

(* Every step keeps the types. *)
LEMMA TypesKept ==
    ASSUME TypeOK, FieldsInv, [Next]_vars
    PROVE  TypeOK'
<1>1. ASSUME NEW e \in Endpoints, Call(e) PROVE TypeOK'
  <2>1. M(e).from \in {"workloadapi", "given", "raw"}
    BY EndpointTypes DEF ModeKinds
  <2>2. pc' \in [Endpoints -> PCs] /\ inner' \in [Endpoints -> States]
    BY <1>1, <2>1 DEF Call, TypeOK, PCs, States
  <2>3. QED
    BY <1>1, <2>2 DEF Call, TypeOK
<1>2. ASSUME NEW e \in Endpoints, ListenFails(e) PROVE TypeOK'
  BY <1>2 DEF ListenFails, TypeOK, PCs
<1>3. ASSUME NEW e \in Endpoints, NewX509Source(e) PROVE TypeOK'
  BY <1>3, EndpointTypes DEF NewX509Source, TypeOK, PCs, States
<1>4. ASSUME NEW e \in Endpoints, NewX509SourceFails(e) PROVE TypeOK'
  BY <1>4 DEF NewX509SourceFails, TypeOK, PCs, States
<1>5. ASSUME NEW e \in Endpoints, SetBundle(e) PROVE TypeOK'
  <2>1. fields' \in [ModeIds -> [bundle : SourceIds \cup {"nil"}, svid : SourceIds \cup {"nil"}]]
    BY <1>5, EndpointTypes DEF SetBundle, TypeOK
  <2>2. QED
    BY <1>5, <2>1 DEF SetBundle, TypeOK, PCs
<1>6. ASSUME NEW e \in Endpoints, SetSVID(e) PROVE TypeOK'
  <2>1. fields' \in [ModeIds -> [bundle : SourceIds \cup {"nil"}, svid : SourceIds \cup {"nil"}]]
    BY <1>6, EndpointTypes DEF SetSVID, TypeOK
  <2>2. QED
    BY <1>6, <2>1 DEF SetSVID, TypeOK, PCs
<1>7. ASSUME NEW e \in Endpoints, Hook(e) PROVE TypeOK'
  <2> DEFINE c == conf[ConfigOf(e)]
             m == ModeOf[e]
  <2>1. c \in TLSConfigs /\ m \in ModeIds /\ ConfigOf(e) \in Endpoints \cup Bases
    BY EndpointTypes DEF TypeOK
  <2>2. mode[m].role \in {Client, Server}
    BY <2>1 DEF TypeOK, ModeKinds
  <2>3. /\ mode[m].role = Client => HookClient(ResetAuthFields(c), m) \in TLSConfigs
        /\ mode[m].role = Server => HookServer(ResetAuthFields(c), m) \in TLSConfigs
    BY <1>7, <2>1, BundleAtHook, HookTypes DEF Hook, M
  <2>4. conf' \in [Endpoints \cup Bases -> TLSConfigs]
    BY <1>7, <2>1, <2>2, <2>3 DEF Hook, TypeOK, M
  <2>5. QED
    BY <1>7, <2>4 DEF Hook, TypeOK, PCs
<1>8. ASSUME NEW e \in Endpoints, Dial(e) PROVE TypeOK'
  BY <1>8 DEF Dial, TypeOK, PCs, States
<1>9. ASSUME NEW e \in Endpoints, DialFails(e) PROVE TypeOK'
  BY <1>9, EndpointTypes DEF DialFails, CloseOwned, TypeOK, PCs, States
<1>10. ASSUME NEW e \in Endpoints, CloseSource(e) PROVE TypeOK'
  BY <1>10, EndpointTypes DEF CloseSource, CloseOwned, TypeOK, PCs, States
<1>11. ASSUME NEW e \in Endpoints, CloseInner(e) PROVE TypeOK'
  BY <1>11 DEF CloseInner, TypeOK, PCs, States
<1>12. ASSUME UNCHANGED vars PROVE TypeOK'
  BY <1>12 DEF vars, TypeOK
<1>13. QED
  BY <1>1, <1>2, <1>3, <1>4, <1>5, <1>6, <1>7, <1>8, <1>9, <1>10, <1>11, <1>12
     DEF Next, Finished

(* Every step keeps the sources of the modes. *)
LEMMA FieldsKept ==
    ASSUME TypeOK, FieldsInv, [Next]_vars
    PROVE  FieldsInv'
<1>1. ASSUME mode' = mode, fields' = fields, NEW e \in Endpoints,
             \A d \in Endpoints \ {e} : pc'[d] = pc[d],
             /\ pc'[e] \in {"source", "bundle", "svid"} => M(e).from # "raw"
             /\ pc'[e] # "svid"
             /\ pc'[e] = "hook" => M(e).from = "raw"
             /\ pc'[e] = "dial" => M(e).role = Client
      PROVE  FieldsInv'
  <2>1. ASSUME NEW d \in Endpoints
        PROVE  /\ pc'[d] \in {"source", "bundle", "svid"} => M(d).from # "raw"
               /\ pc'[d] = "svid" => fields[ModeOf[d]].bundle # "nil"
               /\ pc'[d] = "hook" /\ M(d).from # "raw" =>
                     fields[ModeOf[d]].bundle # "nil" /\ fields[ModeOf[d]].svid # "nil"
               /\ pc'[d] = "dial" => M(d).role = Client
    BY <1>1 DEF FieldsInv
  <2>2. QED
    BY <1>1, <2>1 DEF FieldsInv, M, RawBundle, RawSVID
<1>2. ASSUME NEW e \in Endpoints, Call(e) PROVE FieldsInv'
  <2>1. M(e).from \in {"workloadapi", "given", "raw"}
    BY EndpointTypes DEF ModeKinds
  <2>2. /\ pc'[e] \in {"source", "bundle"} => M(e).from # "raw"
        /\ pc'[e] \in {"source", "bundle", "hook"}
        /\ pc'[e] = "hook" => M(e).from = "raw"
    BY <1>2, <2>1 DEF Call, TypeOK
  <2>3. QED
    BY <1>1, <1>2, <2>2 DEF Call, TypeOK
<1>3. ASSUME NEW e \in Endpoints,
             ListenFails(e) \/ NewX509SourceFails(e) \/ Dial(e) \/ DialFails(e)
               \/ CloseSource(e) \/ CloseInner(e) \/ Hook(e)
      PROVE  FieldsInv'
  <2>1. /\ mode' = mode /\ fields' = fields
        /\ pc'[e] \in {"failed", "dial", "open", "closing", "closed"}
        /\ pc'[e] = "dial" => M(e).role = Client
        /\ \A d \in Endpoints \ {e} : pc'[d] = pc[d]
    BY <1>3 DEF ListenFails, NewX509SourceFails, Dial, DialFails, CloseSource, CloseInner, Hook,
                TypeOK
  <2>2. QED
    BY <1>1, <2>1
<1>4. ASSUME NEW e \in Endpoints, NewX509Source(e) PROVE FieldsInv'
  <2>1. M(e).from # "raw" /\ pc'[e] = "bundle"
    BY <1>4 DEF NewX509Source, FieldsInv, TypeOK
  <2>2. QED
    BY <1>1, <1>4, <2>1 DEF NewX509Source, TypeOK
<1>5. ASSUME NEW e \in Endpoints, NEW b \in SourceIds, NEW v \in SourceIds \cup {"nil"},
             mode' = mode, M(e).from # "raw",
             \A m \in ModeIds :
                 /\ fields'[m].bundle = IF m = ModeOf[e] THEN b ELSE fields[m].bundle
                 /\ fields'[m].svid = IF m = ModeOf[e] THEN v ELSE fields[m].svid,
             fields[ModeOf[e]].svid # "nil" => v # "nil",
             \A d \in Endpoints \ {e} : pc'[d] = pc[d],
             pc'[e] = "svid" \/ (pc'[e] = "hook" /\ v # "nil")
      PROVE  FieldsInv'
  <2>1. b # "nil" /\ ModeOf[e] \in ModeIds
    BY EndpointTypes
  <2>2. \A m \in ModeIds : mode[m].from = "raw" =>
          fields'[m].bundle = RawBundle(m) /\ fields'[m].svid = RawSVID(m)
    BY <1>5 DEF FieldsInv, M
  <2>3. ASSUME NEW d \in Endpoints
        PROVE  /\ pc'[d] \in {"source", "bundle", "svid"} => M(d).from # "raw"
               /\ pc'[d] = "svid" => fields'[ModeOf[d]].bundle # "nil"
               /\ pc'[d] = "hook" /\ M(d).from # "raw" =>
                     fields'[ModeOf[d]].bundle # "nil" /\ fields'[ModeOf[d]].svid # "nil"
               /\ pc'[d] = "dial" => M(d).role = Client
    <3>1. ModeOf[d] \in ModeIds
      BY EndpointTypes
    <3>2. CASE d = e
      BY <1>5, <2>1, <3>1, <3>2
    <3>3. CASE d # e
      BY <1>5, <2>1, <3>1, <3>3 DEF FieldsInv
    <3>4. QED
      BY <3>2, <3>3
  <2>4. QED
    BY <1>5, <2>2, <2>3 DEF FieldsInv, M, RawBundle, RawSVID
<1>6. ASSUME NEW e \in Endpoints, SetBundle(e) PROVE FieldsInv'
  <2>1. M(e).from # "raw"
    BY <1>6 DEF SetBundle, FieldsInv
  <2>2. \A m \in ModeIds :
          /\ fields'[m].bundle = IF m = ModeOf[e] THEN Own(e) ELSE fields[m].bundle
          /\ fields'[m].svid = IF m = ModeOf[e] THEN fields[ModeOf[e]].svid ELSE fields[m].svid
    BY <1>6, EndpointTypes DEF SetBundle, TypeOK
  <2>3. Own(e) \in SourceIds /\ fields[ModeOf[e]].svid \in SourceIds \cup {"nil"}
    BY EndpointTypes DEF TypeOK
  <2>4. mode' = mode /\ pc'[e] = "svid" /\ \A d \in Endpoints \ {e} : pc'[d] = pc[d]
    BY <1>6 DEF SetBundle, TypeOK
  <2>5. QED
    BY <1>5, <2>1, <2>2, <2>3, <2>4
<1>7. ASSUME NEW e \in Endpoints, SetSVID(e) PROVE FieldsInv'
  <2>1. M(e).from # "raw" /\ fields[ModeOf[e]].bundle # "nil"
    BY <1>7 DEF SetSVID, FieldsInv
  <2>2. \A m \in ModeIds :
          /\ fields'[m].bundle = IF m = ModeOf[e] THEN fields[ModeOf[e]].bundle ELSE fields[m].bundle
          /\ fields'[m].svid = IF m = ModeOf[e] THEN Own(e) ELSE fields[m].svid
    BY <1>7, EndpointTypes DEF SetSVID, TypeOK
  <2>3. Own(e) \in SourceIds /\ fields[ModeOf[e]].bundle \in SourceIds /\ Own(e) # "nil"
    BY <2>1, EndpointTypes DEF TypeOK
  <2>4. mode' = mode /\ pc'[e] = "hook" /\ \A d \in Endpoints \ {e} : pc'[d] = pc[d]
    BY <1>7 DEF SetSVID, TypeOK
  <2>5. QED
    BY <1>5, <2>1, <2>2, <2>3, <2>4
<1>8. ASSUME UNCHANGED vars PROVE FieldsInv'
  BY <1>8 DEF vars, FieldsInv, M, RawBundle, RawSVID
<1>9. QED
  BY <1>2, <1>3, <1>4, <1>6, <1>7, <1>8 DEF Next, Finished

(* Every step keeps track of what is open. *)
LEMMA OpenKept ==
    ASSUME TypeOK, OpenInv, [Next]_vars
    PROVE  OpenInv'
<1> USE DEF TypeOK
<1>1. ASSUME mode' = mode, NEW e \in Endpoints,
             \A d \in Endpoints \ {e} : pc'[d] = pc[d] /\ src'[d] = src[d] /\ inner'[d] = inner[d],
             /\ pc'[e] = "source" => src'[e] = "none"
             /\ pc'[e] \in {"closing", "closed", "failed"} => src'[e] # "open"
             /\ pc'[e] # "idle"
             /\ pc'[e] \in {"closed", "failed"} => inner'[e] # "open"
             /\ pc'[e] = "dial" => inner'[e] = "none"
             /\ pc'[e] \in Preparing /\ M(e).role = Client => inner'[e] = "none"
      PROVE  OpenInv'
  <2>1. \A d \in Endpoints : M(d)' = M(d)
    BY <1>1 DEF M
  <2>2. ASSUME NEW d \in Endpoints
        PROVE  /\ pc'[d] \in {"idle", "source"} => src'[d] = "none"
               /\ pc'[d] \in {"closing", "closed", "failed"} => src'[d] # "open"
               /\ pc'[d] = "idle" => inner'[d] = "none"
               /\ pc'[d] \in {"closed", "failed"} => inner'[d] # "open"
               /\ pc'[d] = "dial" => inner'[d] = "none"
               /\ pc'[d] \in Preparing /\ M(d).role = Client => inner'[d] = "none"
    BY <1>1 DEF OpenInv
  <2>3. QED
    BY <2>1, <2>2 DEF OpenInv
<1>2. \A e \in Endpoints : e \in SourceIds
  BY DEF SourceIds
<1>3. ASSUME NEW e \in Endpoints, Call(e) PROVE OpenInv'
  <2>1. M(e).from \in {"workloadapi", "given", "raw"}
    BY EndpointTypes DEF ModeKinds
  <2>2. pc'[e] \in {"source", "bundle", "hook"} /\ src'[e] = "none"
    BY <1>3, <2>1 DEF Call, OpenInv
  <2>3. M(e).role = Client => inner'[e] = "none"
    BY <1>3 DEF Call, Client, Server
  <2>4. QED
    BY <1>1, <1>3, <2>2, <2>3 DEF Call
<1>4. ASSUME NEW e \in Endpoints, ListenFails(e) PROVE OpenInv'
  <2>1. pc'[e] = "failed" /\ src'[e] # "open" /\ inner'[e] # "open"
    BY <1>4 DEF ListenFails, OpenInv
  <2>2. QED
    BY <1>1, <1>4, <2>1 DEF ListenFails, Preparing
<1>5. ASSUME NEW e \in Endpoints, NewX509Source(e) PROVE OpenInv'
  <2>1. pc'[e] = "bundle" /\ (M(e).role = Client => inner'[e] = "none")
    BY <1>5 DEF NewX509Source, OpenInv, Preparing
  <2>2. QED
    BY <1>1, <1>2, <1>5, <2>1 DEF NewX509Source
<1>6. ASSUME NEW e \in Endpoints, NewX509SourceFails(e) PROVE OpenInv'
  <2>1. pc'[e] = "failed" /\ src'[e] # "open" /\ inner'[e] # "open"
    BY <1>6 DEF NewX509SourceFails, OpenInv
  <2>2. QED
    BY <1>1, <1>6, <2>1 DEF NewX509SourceFails, Preparing
<1>7. ASSUME NEW e \in Endpoints, SetBundle(e) \/ SetSVID(e) PROVE OpenInv'
  <2>1. pc'[e] \in {"svid", "hook"} /\ (M(e).role = Client => inner'[e] = "none")
    BY <1>7 DEF SetBundle, SetSVID, OpenInv, Preparing
  <2>2. QED
    BY <1>1, <1>7, <2>1 DEF SetBundle, SetSVID
<1>8. ASSUME NEW e \in Endpoints, Hook(e) PROVE OpenInv'
  <2>1. pc'[e] \in {"dial", "open"} /\ (pc'[e] = "dial" => inner'[e] = "none")
    BY <1>8 DEF Hook, OpenInv, Preparing
  <2>2. QED
    BY <1>1, <1>8, <2>1 DEF Hook, Preparing
<1>9. ASSUME NEW e \in Endpoints, Dial(e) PROVE OpenInv'
  <2>1. pc'[e] = "open"
    BY <1>9 DEF Dial
  <2>2. QED
    BY <1>1, <1>9, <2>1 DEF Dial, Preparing
<1>10. ASSUME NEW e \in Endpoints, DialFails(e) PROVE OpenInv'
  <2>1. pc'[e] = "failed" /\ src'[e] # "open" /\ inner'[e] # "open"
    BY <1>2, <1>10 DEF DialFails, CloseOwned, OpenInv
  <2>2. QED
    BY <1>1, <1>2, <1>10, <2>1 DEF DialFails, CloseOwned, Preparing
<1>11. ASSUME NEW e \in Endpoints, CloseSource(e) PROVE OpenInv'
  <2>1. pc'[e] = "closing" /\ src'[e] # "open"
    BY <1>2, <1>11 DEF CloseSource, CloseOwned
  <2>2. QED
    BY <1>1, <1>2, <1>11, <2>1 DEF CloseSource, CloseOwned, Preparing
<1>12. ASSUME NEW e \in Endpoints, CloseInner(e) PROVE OpenInv'
  <2>1. pc'[e] = "closed" /\ src'[e] # "open" /\ inner'[e] # "open"
    BY <1>12 DEF CloseInner, OpenInv
  <2>2. QED
    BY <1>1, <1>12, <2>1 DEF CloseInner, Preparing
<1>13. ASSUME UNCHANGED vars PROVE OpenInv'
  BY <1>13 DEF vars, OpenInv, M
<1>14. QED
  BY <1>3, <1>4, <1>5, <1>6, <1>7, <1>8, <1>9, <1>10, <1>11, <1>12, <1>13 DEF Next, Finished

(* At first nothing was created. *)
LEMMA TLSInit == Init => TypeOK /\ FieldsInv /\ OpenInv
<1> SUFFICES ASSUME Init PROVE TypeOK /\ FieldsInv /\ OpenInv
  OBVIOUS
<1>1. ASSUME NEW m \in ModeIds, mode[m].from = "raw"
      PROVE  fields[m].bundle = RawBundle(m) /\ fields[m].svid = RawSVID(m)
  BY <1>1 DEF Init, RawBundle, RawSVID
<1>2. FieldsInv
  BY <1>1 DEF Init, FieldsInv
<1>3. OpenInv
  BY DEF Init, OpenInv, Preparing, SourceIds
<1>4. conf \in [Endpoints \cup Bases -> TLSConfigs]
  BY ConfigTypes DEF Init
<1>5. fields \in [ModeIds -> [bundle : SourceIds \cup {"nil"}, svid : SourceIds \cup {"nil"}]]
  BY DEF Init, SourceIds
<1>6. TypeOK
  BY <1>4, <1>5 DEF Init, TypeOK, PCs, States
<1>7. QED
  BY <1>2, <1>3, <1>6

(* The calls keep their types, the fields they need and what they opened. *)
LEMMA TLSInvariant == Spec => [](TypeOK /\ FieldsInv /\ OpenInv)
<1>1. TypeOK /\ FieldsInv /\ OpenInv /\ [Next]_vars => (TypeOK /\ FieldsInv /\ OpenInv)'
  BY TypesKept, FieldsKept, OpenKept
<1>2. QED
  BY <1>1, TLSInit, PTL DEF Spec

(* TypeOK for any endpoints, modes and base configurations: in particular  *)
(* no hook wraps a verifier around a mode without a bundle source, also    *)
(* when calls overlap.                                                     *)
THEOREM TLSTypeCorrect == Spec => []TypeOK
BY TLSInvariant, PTL

(* Dial and Listen leave nothing open behind a failure or a Close, however *)
(* the calls and the closes of any number of endpoints interleave.         *)
THEOREM TLSNothingLeaks == Spec => []NothingLeaks
<1>1. OpenInv => NothingLeaks
  BY DEF OpenInv, NothingLeaks
<1>2. QED
  BY <1>1, TLSInvariant, PTL

-----------------------------------------------------------------------------
(* The call whose mode is being prepared is the only one. *)
AloneInv ==
    \A d, e \in Endpoints :
        d # e /\ ModeOf[d] = ModeOf[e] /\ pc[d] \in Preparing => pc[e] \notin Preparing

(* So that what it wrote into the mode is still there. *)
OwnFieldsInv ==
    \A e \in Endpoints : M(e).from # "raw" =>
        /\ pc[e] \in {"svid", "hook"} => fields[ModeOf[e]].bundle = Own(e)
        /\ pc[e] = "hook" => fields[ModeOf[e]].svid = Own(e)

(* A configuration is in use by one endpoint. *)
ConfigAloneInv ==
    \A d, e \in Endpoints :
        d # e /\ ConfigOf(d) = ConfigOf(e) /\ InUse(d) => ~InUse(e)

(* The callbacks of the application stay, in their place. *)
CallbacksInv == \A k \in Endpoints \cup Bases : KeepsCallbacks(k)

(* What ModeControlsHandshake says of one endpoint and its configuration,  *)
(* but for the callbacks.                                                  *)
Controlled(e, c) ==
    /\ c.certificate = CASE M(e).role = Client /\ M(e).kind = "tls"     -> "nil"
                         [] M(e).role = Server /\ M(e).kind = "mtlsWeb" -> "web"
                         [] OTHER                                       -> Own(e)
    /\ c.requireClientCert = (SVIDPeer(e) /\ M(e).role = Server)
    /\ c.insecureSkipVerify = (SVIDPeer(e) /\ M(e).role = Client)
    /\ SVIDPeer(e) => c.verify # <<>> /\ c.verify[1] = OwnVerifier(e)

ControlledInv == \A e \in Endpoints : Handshakes(e) => Controlled(e, conf[ConfigOf(e)])

ControlInv == AloneInv /\ OwnFieldsInv /\ ConfigAloneInv /\ CallbacksInv /\ ControlledInv

(* Verifier o of configuration k is the application's or that of a call    *)
(* that has set up k, with the endpoints as at says.                       *)
Vouched(k, o, at) ==
    \/ o = AppVerifier
    \/ \E d \in Endpoints : /\ ConfigOf(d) = k /\ at[d] \notin {"idle"} \cup Preparing
                            /\ SVIDPeer(d) /\ o = OwnVerifier(d)

VouchedInv ==
    \A k \in Endpoints \cup Bases :
        \A i \in DOMAIN conf[k].verify : Vouched(k, conf[k].verify[i], pc)

(* A source is open until the endpoint that created it closes it. *)
LiveInv ==
    /\ src["given"] = "open" /\ src["raw"] = "open"
    /\ \A e \in Endpoints :
          M(e).from = "workloadapi" /\ pc[e] \in {"bundle", "svid", "hook", "dial", "open"} =>
              src[e] = "open"

(* The hooks set up what the mode says, around the callbacks that were     *)
(* there.                                                                  *)
LEMMA HookSets ==
    ASSUME TypeOK, FieldsInv, OwnFieldsInv, NEW e \in Endpoints, Hook(e)
    PROVE  LET old == conf[ConfigOf(e)]
               c   == conf'[ConfigOf(e)]
           IN  /\ c.certificate = CASE M(e).role = Client /\ M(e).kind = "tls"     -> "nil"
                                    [] M(e).role = Server /\ M(e).kind = "mtlsWeb" -> "web"
                                    [] OTHER                                       -> Own(e)
               /\ c.requireClientCert = (SVIDPeer(e) /\ M(e).role = Server)
               /\ c.insecureSkipVerify = (SVIDPeer(e) /\ M(e).role = Client)
               /\ c.verify = IF SVIDPeer(e) THEN <<OwnVerifier(e)>> \o old.verify ELSE old.verify
               /\ c.callbacks = old.callbacks
<1> DEFINE m == ModeOf[e]
           old == conf[ConfigOf(e)]
           r == ResetAuthFields(old)
           c == conf'[ConfigOf(e)]
<1>1. /\ m \in ModeIds /\ M(e) = mode[m] /\ M(e).role \in {Client, Server}
      /\ M(e).kind \in {"tls", "mtls", "mtlsWeb"} /\ ConfigOf(e) \in Endpoints \cup Bases
  BY EndpointTypes DEF M, ModeKinds
<1>2. /\ r.certificate = "nil" /\ r.verify = old.verify /\ r.callbacks = old.callbacks
      /\ r.requireClientCert = FALSE /\ r.insecureSkipVerify = FALSE
      /\ r \in TLSConfigs
  <2>1. old \in TLSConfigs
    BY <1>1 DEF TypeOK
  <2>2. QED
    BY <2>1, ResetSets
<1>3. c = IF M(e).role = Client THEN HookClient(r, m) ELSE HookServer(r, m)
  BY <1>1 DEF Hook, TypeOK
<1>4. /\ TakesBundle(M(e)) => fields[m].bundle = Own(e)
      /\ TakesSVID(M(e)) => fields[m].svid = Own(e)
  <2>1. CASE M(e).from = "raw"
    <3>1. fields[m].bundle = RawBundle(m) /\ fields[m].svid = RawSVID(m) /\ Own(e) = "raw"
      BY <1>1, <2>1 DEF FieldsInv, Own
    <3>2. QED
      BY <1>1, <3>1 DEF RawBundle, RawSVID
  <2>2. CASE M(e).from # "raw"
    BY <2>2 DEF OwnFieldsInv, Hook
  <2>3. QED
    BY <2>1, <2>2
<1>5. TakesBundle(M(e)) => Wrap(r, m) = <<OwnVerifier(e)>> \o old.verify
  BY <1>2, <1>4 DEF Wrap, OwnVerifier
<1>6. SVIDPeer(e) <=> TakesBundle(M(e))
  BY DEF SVIDPeer, TakesBundle
<1> HIDE DEF m, old, r, c
<1>7. CASE M(e).role = Client
  <2>1. c = HookClient(r, m)
    BY <1>3, <1>7
  <2>2. /\ c.certificate = IF M(e).kind = "tls" THEN "nil" ELSE fields[m].svid
        /\ c.verify = IF M(e).kind = "mtlsWeb" THEN old.verify ELSE Wrap(r, m)
        /\ c.requireClientCert = FALSE
        /\ c.insecureSkipVerify = (M(e).kind # "mtlsWeb")
        /\ c.callbacks = old.callbacks
    BY <1>1, <1>2, <2>1 DEF HookClient, TLSConfigs
  <2>3. M(e).role # Server /\ (TakesBundle(M(e)) <=> M(e).kind # "mtlsWeb")
    BY <1>7 DEF TakesBundle, Client, Server
  <2>4. TakesSVID(M(e)) <=> M(e).kind # "tls"
    BY <1>7 DEF TakesSVID, Client, Server
  <2>5. QED
    BY <1>4, <1>5, <1>6, <1>7, <2>2, <2>3, <2>4 DEF m, c, old
<1>8. CASE M(e).role = Server
  <2>1. M(e).role # Client
    BY <1>8 DEF Client, Server
  <2>2. c = HookServer(r, m)
    BY <1>3, <2>1
  <2>3. /\ c.certificate = IF M(e).kind = "mtlsWeb" THEN "web" ELSE fields[m].svid
        /\ c.verify = IF M(e).kind = "tls" THEN old.verify ELSE Wrap(r, m)
        /\ c.requireClientCert = (M(e).kind # "tls")
        /\ c.insecureSkipVerify = FALSE
        /\ c.callbacks = old.callbacks
    BY <1>1, <1>2, <2>2 DEF HookServer, TLSConfigs
  <2>4. TakesBundle(M(e)) <=> M(e).kind # "tls"
    BY <1>8, <2>1 DEF TakesBundle
  <2>5. TakesSVID(M(e)) <=> M(e).kind # "mtlsWeb"
    BY <1>8, <2>1 DEF TakesSVID
  <2>6. QED
    BY <1>4, <1>5, <1>6, <1>8, <2>1, <2>3, <2>4, <2>5 DEF m, c, old
<1>9. QED
  BY <1>1, <1>7, <1>8

(* A call begins with a mode that nobody is preparing; nothing else can    *)
(* enter the preparation.                                                  *)
LEMMA AloneKept ==
    ASSUME TypeOK, AloneInv, OneAtATime, [Next]_vars
    PROVE  AloneInv'
<1> USE DEF TypeOK
<1>1. ASSUME NEW e \in Endpoints, Call(e) PROVE AloneInv'
  <2>1. \A d \in Endpoints : ModeOf[d] = ModeOf[e] => pc[d] \notin Preparing
    BY <1>1 DEF Call
  <2>2. \A d \in Endpoints \ {e} : pc'[d] = pc[d]
    BY <1>1 DEF Call
  <2>3. QED
    BY <2>1, <2>2 DEF AloneInv
<1>2. ASSUME NEW e \in Endpoints, \A d \in Endpoints \ {e} : pc'[d] = pc[d],
             pc'[e] \in Preparing => pc[e] \in Preparing
      PROVE  AloneInv'
  BY <1>2 DEF AloneInv
<1>3. ASSUME NEW e \in Endpoints,
             ListenFails(e) \/ NewX509Source(e) \/ NewX509SourceFails(e) \/ SetBundle(e)
               \/ SetSVID(e) \/ Hook(e) \/ Dial(e) \/ DialFails(e) \/ CloseSource(e)
               \/ CloseInner(e)
      PROVE  AloneInv'
  <2>1. \A d \in Endpoints \ {e} : pc'[d] = pc[d]
    BY <1>3 DEF ListenFails, NewX509Source, NewX509SourceFails, SetBundle, SetSVID, Hook, Dial,
                DialFails, CloseSource, CloseInner
  <2>2. pc'[e] \in Preparing => pc[e] \in Preparing
    BY <1>3 DEF ListenFails, NewX509Source, NewX509SourceFails, SetBundle, SetSVID, Hook, Dial,
                DialFails, CloseSource, CloseInner, Preparing
  <2>3. QED
    BY <1>2, <2>1, <2>2
<1>4. ASSUME UNCHANGED vars PROVE AloneInv'
  BY <1>4 DEF vars, AloneInv
<1>5. QED
  BY <1>1, <1>3, <1>4 DEF Next, Finished

(* Only the one call in preparation writes to the fields of its mode. *)
LEMMA OwnFieldsKept ==
    ASSUME TypeOK, FieldsInv, AloneInv, OwnFieldsInv, [Next]_vars
    PROVE  OwnFieldsInv'
<1>1. ASSUME NEW e \in Endpoints, mode' = mode,
             \A d \in Endpoints \ {e} : pc'[d] = pc[d] /\ (pc[d] \in Preparing =>
                 /\ fields'[ModeOf[d]].bundle = fields[ModeOf[d]].bundle
                 /\ fields'[ModeOf[d]].svid = fields[ModeOf[d]].svid),
             M(e).from # "raw" =>
                 /\ pc'[e] \in {"svid", "hook"} => fields'[ModeOf[e]].bundle = Own(e)
                 /\ pc'[e] = "hook" => fields'[ModeOf[e]].svid = Own(e)
      PROVE  OwnFieldsInv'
  <2>1. \A d \in Endpoints : M(d)' = M(d) /\ Own(d)' = Own(d)
    BY <1>1 DEF M, Own
  <2>2. ASSUME NEW d \in Endpoints, M(d).from # "raw"
        PROVE  /\ pc'[d] \in {"svid", "hook"} => fields'[ModeOf[d]].bundle = Own(d)
               /\ pc'[d] = "hook" => fields'[ModeOf[d]].svid = Own(d)
    BY <1>1, <2>2 DEF OwnFieldsInv, Preparing
  <2>3. QED
    BY <2>1, <2>2 DEF OwnFieldsInv
<1>2. ASSUME NEW e \in Endpoints, Call(e) PROVE OwnFieldsInv'
  <2>1. M(e).from \in {"workloadapi", "given", "raw"}
    BY EndpointTypes DEF ModeKinds
  <2>2. M(e).from # "raw" => pc'[e] \in {"source", "bundle"}
    BY <1>2, <2>1 DEF Call, TypeOK
  <2>3. QED
    BY <1>1, <1>2, <2>2 DEF Call, TypeOK
<1>3. ASSUME NEW e \in Endpoints,
             ListenFails(e) \/ NewX509Source(e) \/ NewX509SourceFails(e) \/ Hook(e) \/ Dial(e)
               \/ DialFails(e) \/ CloseSource(e) \/ CloseInner(e)
      PROVE  OwnFieldsInv'
  <2>1. /\ mode' = mode /\ fields' = fields /\ pc'[e] \notin {"svid", "hook"}
        /\ \A d \in Endpoints \ {e} : pc'[d] = pc[d]
    BY <1>3 DEF ListenFails, NewX509Source, NewX509SourceFails, Hook, Dial, DialFails, CloseSource,
                CloseInner, TypeOK
  <2>2. QED
    BY <1>1, <2>1
<1>4. ASSUME NEW e \in Endpoints, pc[e] \in Preparing, NEW d \in Endpoints \ {e},
             pc[d] \in Preparing
      PROVE  ModeOf[d] # ModeOf[e]
  BY <1>4 DEF AloneInv
<1>5. ASSUME NEW e \in Endpoints, SetBundle(e) PROVE OwnFieldsInv'
  <2>1. \A d \in Endpoints : ModeOf[d] \in ModeIds
    BY EndpointTypes
  <2>2. /\ mode' = mode /\ pc[e] \in Preparing /\ pc'[e] = "svid"
        /\ fields'[ModeOf[e]].bundle = Own(e)
        /\ \A m \in ModeIds \ {ModeOf[e]} : fields'[m] = fields[m]
        /\ \A d \in Endpoints \ {e} : pc'[d] = pc[d]
    BY <1>5, <2>1 DEF SetBundle, TypeOK, Preparing
  <2>3. \A d \in Endpoints \ {e} : pc[d] \in Preparing => fields'[ModeOf[d]] = fields[ModeOf[d]]
    BY <1>4, <2>1, <2>2
  <2>4. QED
    BY <1>1, <2>2, <2>3
<1>6. ASSUME NEW e \in Endpoints, SetSVID(e) PROVE OwnFieldsInv'
  <2>1. \A d \in Endpoints : ModeOf[d] \in ModeIds
    BY EndpointTypes
  <2>2. /\ mode' = mode /\ pc[e] \in Preparing /\ pc[e] = "svid" /\ pc'[e] = "hook"
        /\ fields'[ModeOf[e]].svid = Own(e)
        /\ fields'[ModeOf[e]].bundle = fields[ModeOf[e]].bundle
        /\ \A m \in ModeIds \ {ModeOf[e]} : fields'[m] = fields[m]
        /\ \A d \in Endpoints \ {e} : pc'[d] = pc[d]
    BY <1>6, <2>1 DEF SetSVID, TypeOK, Preparing
  <2>3. \A d \in Endpoints \ {e} : pc[d] \in Preparing => fields'[ModeOf[d]] = fields[ModeOf[d]]
    BY <1>4, <2>1, <2>2
  <2>4. M(e).from # "raw" => fields[ModeOf[e]].bundle = Own(e)
    BY <2>2 DEF OwnFieldsInv
  <2>5. QED
    BY <1>1, <2>2, <2>3, <2>4
<1>7. ASSUME UNCHANGED vars PROVE OwnFieldsInv'
  BY <1>7 DEF vars, OwnFieldsInv, M, Own
<1>8. QED
  BY <1>2, <1>3, <1>5, <1>6, <1>7 DEF Next, Finished

(* When the configuration of an endpoint is looked at, and used. *)
LookedAt(e, at) == at = IF M(e).role = Client THEN "dial" ELSE "open"
UsedAt(e, at) ==
    \/ at \in Preparing \cup {"dial"}
    \/ M(e).role = Server /\ at \in {"open", "closing", "closed"}

(* A step of e that leaves the configurations alone and is not the last    *)
(* before a handshake.                                                     *)
Quiet(e) ==
    /\ conf' = conf
    /\ ~LookedAt(e, pc'[e])
    /\ pc'[e] # "idle"
    /\ pc'[e] \in Preparing => pc[e] = "idle" \/ pc[e] \in Preparing

(* What a step is to the configurations. *)
LEMMA StepKinds ==
    ASSUME TypeOK, FieldsInv, [Next]_vars
    PROVE  /\ mode' = mode
           /\ \/ pc' = pc /\ conf' = conf
              \/ \E e \in Endpoints :
                    /\ \A d \in Endpoints \ {e} : pc'[d] = pc[d]
                    /\ Quiet(e) \/ Hook(e)
<1>1. mode' = mode
  BY DEF Next, vars, Call, ListenFails, NewX509Source, NewX509SourceFails, SetBundle, SetSVID,
         Hook, Dial, DialFails, CloseSource, CloseInner, Finished
<1>2. ASSUME NEW e \in Endpoints,
             Call(e) \/ ListenFails(e) \/ NewX509Source(e) \/ NewX509SourceFails(e)
               \/ SetBundle(e) \/ SetSVID(e) \/ DialFails(e) \/ CloseSource(e)
               \/ CloseInner(e)
      PROVE  Quiet(e) /\ \A d \in Endpoints \ {e} : pc'[d] = pc[d]
  <2>1. M(e).from \in {"workloadapi", "given", "raw"}
    BY EndpointTypes DEF ModeKinds
  <2>2. /\ conf' = conf
        /\ \A d \in Endpoints \ {e} : pc'[d] = pc[d]
        /\ pc'[e] \notin {"idle", "dial", "open"}
        /\ pc'[e] \in Preparing => pc[e] = "idle" \/ pc[e] \in Preparing
    BY <1>2, <2>1 DEF Call, ListenFails, NewX509Source, NewX509SourceFails, SetBundle, SetSVID,
                      DialFails, CloseSource, CloseInner, TypeOK, Preparing
  <2>3. ~LookedAt(e, pc'[e])
    BY <2>2 DEF LookedAt
  <2>4. QED
    BY <2>2, <2>3 DEF Quiet
<1>3. ASSUME NEW e \in Endpoints, Dial(e)
      PROVE  Quiet(e) /\ \A d \in Endpoints \ {e} : pc'[d] = pc[d]
  <2>1. /\ conf' = conf /\ pc[e] = "dial" /\ pc'[e] = "open"
        /\ \A d \in Endpoints \ {e} : pc'[d] = pc[d]
    BY <1>3 DEF Dial, TypeOK
  <2>2. M(e).role = Client
    BY <2>1 DEF FieldsInv
  <2>3. ~LookedAt(e, pc'[e])
    BY <2>1, <2>2 DEF LookedAt
  <2>4. QED
    BY <2>1, <2>3 DEF Quiet, Preparing
<1>4. ASSUME NEW e \in Endpoints, Hook(e)
      PROVE  \A d \in Endpoints \ {e} : pc'[d] = pc[d]
  BY <1>4 DEF Hook, TypeOK
<1>5. ASSUME UNCHANGED vars PROVE pc' = pc /\ conf' = conf
  BY <1>5 DEF vars
<1>6. QED
  BY <1>1, <1>2, <1>3, <1>4, <1>5 DEF Next, Finished

(* A call begins with a configuration that is not in use; no other step    *)
(* begins a use.                                                           *)
LEMMA ConfigAloneKept ==
    ASSUME TypeOK, FieldsInv, ConfigAloneInv, OneAtATime, [Next]_vars
    PROVE  ConfigAloneInv'
<1>1. mode' = mode
  BY StepKinds
<1>2. \A e \in Endpoints : /\ InUse(e) <=> UsedAt(e, pc[e])
                           /\ InUse(e)' <=> UsedAt(e, pc'[e])
  BY <1>1 DEF InUse, UsedAt, M
<1>3. \A e \in Endpoints : ConfigOf(e)' = ConfigOf(e)
  BY DEF ConfigOf
<1>4. ASSUME NEW e \in Endpoints, \A d \in Endpoints \ {e} : pc'[d] = pc[d],
             \/ UsedAt(e, pc'[e]) => InUse(e)
             \/ \A d \in Endpoints : ConfigOf(d) = ConfigOf(e) => ~InUse(d)
      PROVE  ConfigAloneInv'
  BY <1>2, <1>3, <1>4 DEF ConfigAloneInv
<1>5. ASSUME NEW e \in Endpoints, Call(e) PROVE ConfigAloneInv'
  <2>1. \A d \in Endpoints : ConfigOf(d) = ConfigOf(e) => ~InUse(d)
    BY <1>5 DEF Call
  <2>2. QED
    BY <1>4, <1>5, <2>1 DEF Call, TypeOK
<1>6. ASSUME NEW e \in Endpoints,
             ListenFails(e) \/ NewX509Source(e) \/ NewX509SourceFails(e) \/ SetBundle(e)
               \/ SetSVID(e) \/ Hook(e) \/ Dial(e) \/ DialFails(e) \/ CloseSource(e)
               \/ CloseInner(e)
      PROVE  ConfigAloneInv'
  <2>1. \A d \in Endpoints \ {e} : pc'[d] = pc[d]
    BY <1>6 DEF ListenFails, NewX509Source, NewX509SourceFails, SetBundle, SetSVID, Hook, Dial,
                DialFails, CloseSource, CloseInner, TypeOK
  <2>2. \/ pc'[e] \in Preparing \cup {"dial"} /\ pc[e] \in Preparing
        \/ pc'[e] = "failed"
        \/ pc'[e] = "open" /\ pc[e] \in {"hook", "dial"}
        \/ pc'[e] = "closing" /\ pc[e] = "open"
        \/ pc'[e] = "closed" /\ pc[e] = "closing"
    BY <1>6 DEF ListenFails, NewX509Source, NewX509SourceFails, SetBundle, SetSVID, Hook, Dial,
                DialFails, CloseSource, CloseInner, TypeOK, Preparing
  <2>3. UsedAt(e, pc'[e]) => InUse(e)
    BY <1>2, <2>2 DEF UsedAt, Preparing
  <2>4. QED
    BY <1>4, <2>1, <2>3
<1>7. ASSUME UNCHANGED vars PROVE ConfigAloneInv'
  BY <1>2, <1>3, <1>7 DEF vars, ConfigAloneInv
<1>8. QED
  BY <1>5, <1>6, <1>7 DEF Next, Finished

(* Putting a verifier of this package in front. *)
LEMMA PutInFront ==
    ASSUME NEW v \in Seq(Verifiers), NEW o \in Verifiers
    PROVE  LET w == <<o>> \o v
           IN  /\ w # <<>> /\ w[1] = o /\ Len(w) = Len(v) + 1
               /\ \A i \in DOMAIN w : i = 1 \/ (i - 1 \in DOMAIN v /\ w[i] = v[i - 1])
               /\ \A i \in DOMAIN w : i \in Nat
<1> DEFINE w == <<o>> \o v
<1>1. <<o>> \in Seq(Verifiers) /\ Len(<<o>>) = 1 /\ <<o>>[1] = o
  OBVIOUS
<1>2. /\ w \in Seq(Verifiers) /\ Len(w) = 1 + Len(v)
      /\ \A i \in 1 .. Len(w) : w[i] = IF i <= 1 THEN <<o>>[i] ELSE v[i - 1]
  BY <1>1, ConcatProperties
<1>3. Len(v) \in Nat /\ DOMAIN v = 1 .. Len(v) /\ DOMAIN w = 1 .. Len(w)
  BY <1>2
<1> HIDE DEF w
<1>4. w[1] = o /\ Len(w) = Len(v) + 1 /\ w # <<>>
  BY <1>1, <1>2, <1>3
<1>5. \A i \in DOMAIN w : i \in Nat /\ (i = 1 \/ (i - 1 \in DOMAIN v /\ w[i] = v[i - 1]))
  BY <1>2, <1>3
<1>6. QED
  BY <1>4, <1>5 DEF w

(* The verifier of an endpoint is one of this package's. *)
LEMMA OwnVerifierType ==
    ASSUME TypeOK, NEW e \in Endpoints
    PROVE  OwnVerifier(e) \in Verifiers /\ OwnVerifier(e) # AppVerifier
<1>1. ModeOf[e] \in ModeIds /\ Own(e) \in SourceIds /\ "app" \notin ModeIds
  BY EndpointTypes, SpiffeTLSAssumption
<1>2. OwnVerifier(e) \in Verifiers
  BY <1>1 DEF OwnVerifier, Verifiers
<1>3. OwnVerifier(e).authorizer # AppVerifier.authorizer
  BY <1>1 DEF OwnVerifier, AppVerifier
<1>4. QED
  BY <1>2, <1>3

(* The callback of the application stays last. *)
LEMMA LastStaysLast ==
    ASSUME NEW v \in Seq(Verifiers), NEW o \in Verifiers, o # AppVerifier, NEW app \in BOOLEAN,
           app => v # <<>>,
           \A i \in DOMAIN v : (v[i] = AppVerifier) <=> (app /\ i = Len(v))
    PROVE  \A i \in DOMAIN (<<o>> \o v) :
               ((<<o>> \o v)[i] = AppVerifier) <=> (app /\ i = Len(<<o>> \o v))
<1> DEFINE w == <<o>> \o v
<1>1. /\ w[1] = o /\ Len(w) = Len(v) + 1
      /\ \A i \in DOMAIN w : i \in Nat /\ (i = 1 \/ (i - 1 \in DOMAIN v /\ w[i] = v[i - 1]))
  BY PutInFront
<1>2. Len(v) \in Nat /\ (app => Len(v) # 0)
  BY EmptySeq
<1> HIDE DEF w
<1>3. ASSUME NEW i \in DOMAIN w
      PROVE  (w[i] = AppVerifier) <=> (app /\ i = Len(w))
  <2>1. CASE i = 1
    BY <1>1, <1>2, <2>1
  <2>2. CASE i # 1
    <3>1. i \in Nat /\ i - 1 \in DOMAIN v /\ w[i] = v[i - 1]
      BY <1>1, <2>2
    <3>2. (i - 1 = Len(v)) <=> (i = Len(w))
      BY <1>1, <1>2, <3>1
    <3>3. (v[i - 1] = AppVerifier) <=> (app /\ i - 1 = Len(v))
      BY <3>1
    <3>4. QED
      BY <3>1, <3>2, <3>3
  <2>3. QED
    BY <2>1, <2>2
<1>4. QED
  BY <1>3 DEF w

(* The hooks keep the callbacks of the application. *)
LEMMA CallbacksKept ==
    ASSUME TypeOK, FieldsInv, OwnFieldsInv, CallbacksInv, [Next]_vars
    PROVE  CallbacksInv'
<1>1. ASSUME NEW k \in Endpoints \cup Bases, conf'[k] = conf[k] PROVE KeepsCallbacks(k)'
  BY <1>1 DEF CallbacksInv, KeepsCallbacks, Brought
<1>2. ASSUME NEW e \in Endpoints, Hook(e) PROVE CallbacksInv'
  <2> DEFINE k == ConfigOf(e)
             v == conf[k].verify
             app == "VerifyPeerCertificate" \in Brought(k)
  <2>1. k \in Endpoints \cup Bases /\ v \in Seq(Verifiers)
    BY EndpointTypes DEF TypeOK, TLSConfigs
  <2>2. /\ conf[k].callbacks = Brought(k) \ {"VerifyPeerCertificate"}
        /\ app => v # <<>>
        /\ \A i \in DOMAIN v : (v[i] = AppVerifier) <=> (app /\ i = Len(v))
    BY <2>1 DEF CallbacksInv, KeepsCallbacks
  <2>3. conf'[k].verify = (IF SVIDPeer(e) THEN <<OwnVerifier(e)>> \o v ELSE v)
        /\ conf'[k].callbacks = conf[k].callbacks
    BY <1>2, HookSets
  <2>4. app \in BOOLEAN /\ k' = k /\ app' = app
    BY DEF Brought, ConfigOf
  <2>5. \A j \in Endpoints \cup Bases : j # k => conf'[j] = conf[j]
    BY <1>2 DEF Hook, TypeOK
  <2> HIDE DEF k, v, app
  <2>6. CASE SVIDPeer(e)
    <3>1. OwnVerifier(e) \in Verifiers /\ OwnVerifier(e) # AppVerifier
      BY OwnVerifierType
    <3>2. <<OwnVerifier(e)>> \o v # <<>>
      BY <2>1, <3>1, PutInFront
    <3>3. \A i \in DOMAIN (<<OwnVerifier(e)>> \o v) :
            ((<<OwnVerifier(e)>> \o v)[i] = AppVerifier)
                <=> (app /\ i = Len(<<OwnVerifier(e)>> \o v))
      BY <2>1, <2>2, <2>4, <3>1, LastStaysLast
    <3>4. KeepsCallbacks(k)'
      BY <2>2, <2>3, <2>4, <2>6, <3>2, <3>3 DEF KeepsCallbacks, Brought, app
    <3>5. QED
      BY <1>1, <2>4, <2>5, <3>4 DEF CallbacksInv
  <2>7. CASE ~SVIDPeer(e)
    <3>1. KeepsCallbacks(k)'
      BY <2>2, <2>3, <2>4, <2>7 DEF KeepsCallbacks, Brought, app
    <3>2. QED
      BY <1>1, <2>4, <2>5, <3>1 DEF CallbacksInv
  <2>8. QED
    BY <2>6, <2>7
<1>3. ASSUME conf' = conf PROVE CallbacksInv'
  BY <1>1, <1>3 DEF CallbacksInv
<1>4. QED
  BY <1>2, <1>3, StepKinds DEF Quiet

(* Only the endpoint that uses a configuration changes it, in its hook. *)
LEMMA ControlledKept ==
    ASSUME TypeOK, FieldsInv, OwnFieldsInv, ConfigAloneInv, ControlledInv, [Next]_vars
    PROVE  ControlledInv'
<1>1. mode' = mode
  BY StepKinds
<1>2. ASSUME \A d \in Endpoints : LookedAt(d, pc'[d]) => Controlled(d, conf'[ConfigOf(d)])
      PROVE  ControlledInv'
  <2>1. \A d \in Endpoints : M(d)' = M(d) /\ Own(d)' = Own(d) /\ ConfigOf(d)' = ConfigOf(d)
    BY <1>1 DEF M, Own, ConfigOf
  <2>2. \A d \in Endpoints : SVIDPeer(d)' = SVIDPeer(d) /\ OwnVerifier(d)' = OwnVerifier(d)
    BY <2>1 DEF SVIDPeer, OwnVerifier
  <2>3. QED
    BY <1>2, <2>1, <2>2 DEF ControlledInv, Handshakes, LookedAt, Controlled
<1>3. \A d \in Endpoints : LookedAt(d, pc[d]) => Controlled(d, conf[ConfigOf(d)])
  BY DEF ControlledInv, Handshakes, LookedAt
<1>4. ASSUME NEW e \in Endpoints, Quiet(e), \A d \in Endpoints \ {e} : pc'[d] = pc[d]
      PROVE  ControlledInv'
  BY <1>2, <1>3, <1>4 DEF Quiet
<1>5. ASSUME NEW e \in Endpoints, Hook(e), \A d \in Endpoints \ {e} : pc'[d] = pc[d]
      PROVE  ControlledInv'
  <2>1. InUse(e)
    BY <1>5 DEF Hook, InUse, Preparing
  <2>2. ASSUME NEW d \in Endpoints \ {e}, LookedAt(d, pc[d])
        PROVE  conf'[ConfigOf(d)] = conf[ConfigOf(d)]
    <3>1. InUse(d)
      BY <2>2, EndpointTypes DEF LookedAt, InUse, ModeKinds
    <3>2. ConfigOf(d) # ConfigOf(e)
      BY <2>1, <3>1 DEF ConfigAloneInv
    <3>3. QED
      BY <1>5, <3>2, EndpointTypes DEF Hook, TypeOK
  <2>3. Controlled(e, conf'[ConfigOf(e)])
    <3>1. conf[ConfigOf(e)].verify \in Seq(Verifiers) /\ OwnVerifier(e) \in Verifiers
      BY EndpointTypes, OwnVerifierType DEF TypeOK, TLSConfigs
    <3>2. /\ <<OwnVerifier(e)>> \o conf[ConfigOf(e)].verify # <<>>
          /\ (<<OwnVerifier(e)>> \o conf[ConfigOf(e)].verify)[1] = OwnVerifier(e)
      BY <3>1, PutInFront
    <3>3. SVIDPeer(e) =>
            conf'[ConfigOf(e)].verify = <<OwnVerifier(e)>> \o conf[ConfigOf(e)].verify
      BY <1>5, HookSets
    <3>4. QED
      BY <1>5, <3>2, <3>3, HookSets DEF Controlled
  <2>4. QED
    BY <1>2, <1>3, <1>5, <2>2, <2>3
<1>6. ASSUME pc' = pc, conf' = conf PROVE ControlledInv'
  BY <1>2, <1>3, <1>6
<1>7. QED
  BY <1>4, <1>5, <1>6, StepKinds

(* A configuration gets verifiers only from the calls it is given to. *)
LEMMA VouchedKept ==
    ASSUME TypeOK, FieldsInv, OwnFieldsInv, VouchedInv, [Next]_vars
    PROVE  VouchedInv'
<1>1. ASSUME \A k \in Endpoints \cup Bases :
               \A i \in DOMAIN conf'[k].verify : Vouched(k, conf'[k].verify[i], pc')
      PROVE  VouchedInv'
  <2>1. mode' = mode
    BY StepKinds
  <2>2. \A d \in Endpoints : M(d)' = M(d) /\ Own(d)' = Own(d) /\ ConfigOf(d)' = ConfigOf(d)
    BY <2>1 DEF M, Own, ConfigOf
  <2>3. \A d \in Endpoints : SVIDPeer(d)' = SVIDPeer(d) /\ OwnVerifier(d)' = OwnVerifier(d)
    BY <2>2 DEF SVIDPeer, OwnVerifier
  <2>4. QED
    BY <1>1, <2>2, <2>3 DEF VouchedInv, Vouched
<1>2. ASSUME NEW e \in Endpoints, Quiet(e) \/ Hook(e),
             \A d \in Endpoints \ {e} : pc'[d] = pc[d]
      PROVE  \A d \in Endpoints : pc[d] \notin {"idle"} \cup Preparing =>
                                   pc'[d] \notin {"idle"} \cup Preparing
  BY <1>2 DEF Quiet, Hook, TypeOK, Preparing
<1>3. \A d \in Endpoints : pc[d] \notin {"idle"} \cup Preparing =>
                            pc'[d] \notin {"idle"} \cup Preparing
  BY <1>2, StepKinds
<1>4. \A k, o : Vouched(k, o, pc) => Vouched(k, o, pc')
  BY <1>3 DEF Vouched
<1>5. \A k \in Endpoints \cup Bases : \A i \in DOMAIN conf[k].verify :
          Vouched(k, conf[k].verify[i], pc')
  BY <1>4 DEF VouchedInv
<1>6. ASSUME conf' = conf PROVE VouchedInv'
  BY <1>1, <1>5, <1>6
<1>7. ASSUME NEW e \in Endpoints, Hook(e) PROVE VouchedInv'
  <2> DEFINE k == ConfigOf(e)
             v == conf[k].verify
             w == <<OwnVerifier(e)>> \o v
  <2>1. /\ k \in Endpoints \cup Bases /\ v \in Seq(Verifiers) /\ OwnVerifier(e) \in Verifiers
        /\ \A j \in Endpoints \cup Bases : j # k => conf'[j] = conf[j]
    BY <1>7, EndpointTypes, OwnVerifierType DEF Hook, TypeOK, TLSConfigs
  <2>2. conf'[k].verify = IF SVIDPeer(e) THEN w ELSE v
    BY <1>7, HookSets
  <2>3. SVIDPeer(e) => Vouched(k, OwnVerifier(e), pc')
    <3>1. pc'[e] \notin {"idle"} \cup Preparing
      BY <1>7 DEF Hook, TypeOK, Preparing
    <3>2. QED
      BY <3>1 DEF Vouched
  <2>4. \A i \in DOMAIN v : Vouched(k, v[i], pc')
    BY <1>5, <2>1
  <2>5. \A i \in DOMAIN w : i = 1 \/ (i - 1 \in DOMAIN v /\ w[i] = v[i - 1])
    BY <2>1, PutInFront
  <2>6. w[1] = OwnVerifier(e)
    BY <2>1, PutInFront
  <2> HIDE DEF k, v, w
  <2>7. \A i \in DOMAIN conf'[k].verify : Vouched(k, conf'[k].verify[i], pc')
    BY <2>2, <2>3, <2>4, <2>5, <2>6
  <2>8. QED
    BY <1>1, <1>5, <2>1, <2>7
<1>8. QED
  BY <1>6, <1>7, StepKinds DEF Quiet

(* A source stays open while an endpoint that created it is prepared or    *)
(* open; what came with a mode is never closed.                            *)
LEMMA LiveKept ==
    ASSUME TypeOK, LiveInv, [Next]_vars
    PROVE  LiveInv'
<1>1. \A e \in Endpoints : e \in SourceIds /\ e # "given" /\ e # "raw"
  BY SpiffeTLSAssumption DEF SourceIds
<1>2. "given" \in SourceIds /\ "raw" \in SourceIds
  BY DEF SourceIds
<1>3. ASSUME NEW e \in Endpoints, mode' = mode, NEW new \in States,
             src' = [src EXCEPT ![e] = new], \A d \in Endpoints \ {e} : pc'[d] = pc[d],
             M(e).from = "workloadapi" /\ pc'[e] \in {"bundle", "svid", "hook", "dial", "open"}
                 => new = "open"
      PROVE  LiveInv'
  <2>1. \A d \in Endpoints : M(d)' = M(d)
    BY <1>3 DEF M
  <2>2. src'["given"] = "open" /\ src'["raw"] = "open"
    BY <1>1, <1>2, <1>3 DEF TypeOK, LiveInv
  <2>3. ASSUME NEW d \in Endpoints, M(d).from = "workloadapi",
               pc'[d] \in {"bundle", "svid", "hook", "dial", "open"}
        PROVE  src'[d] = "open"
    BY <1>1, <1>3, <2>3 DEF TypeOK, LiveInv
  <2>4. QED
    BY <2>1, <2>2, <2>3 DEF LiveInv
<1>4. ASSUME NEW e \in Endpoints, Call(e) PROVE LiveInv'
  <2>1. M(e).from = "workloadapi" => pc'[e] = "source"
    BY <1>4 DEF Call, TypeOK
  <2>2. src' = [src EXCEPT ![e] = src[e]] /\ src[e] \in States
    BY <1>1, <1>4 DEF Call, TypeOK
  <2>3. QED
    BY <1>3, <1>4, <2>1, <2>2 DEF Call, TypeOK
<1>5. ASSUME NEW e \in Endpoints,
             ListenFails(e) \/ NewX509SourceFails(e) \/ CloseInner(e)
      PROVE  LiveInv'
  <2>1. /\ mode' = mode /\ pc'[e] \in {"failed", "closed"}
        /\ \A d \in Endpoints \ {e} : pc'[d] = pc[d]
        /\ src' = src
    BY <1>5 DEF ListenFails, NewX509SourceFails, CloseInner, TypeOK
  <2>2. src' = [src EXCEPT ![e] = src[e]] /\ src[e] \in States
    BY <1>1, <2>1 DEF TypeOK
  <2>3. QED
    BY <1>3, <2>1, <2>2
<1>6. ASSUME NEW e \in Endpoints, NewX509Source(e) PROVE LiveInv'
  BY <1>3, <1>6 DEF NewX509Source, TypeOK, States
<1>7. ASSUME NEW e \in Endpoints, SetBundle(e) \/ SetSVID(e) \/ Hook(e) \/ Dial(e)
      PROVE  LiveInv'
  <2>1. /\ mode' = mode /\ pc[e] \in {"bundle", "svid", "hook", "dial"}
        /\ \A d \in Endpoints \ {e} : pc'[d] = pc[d]
        /\ src' = src
    BY <1>7 DEF SetBundle, SetSVID, Hook, Dial, TypeOK
  <2>2. src' = [src EXCEPT ![e] = src[e]] /\ src[e] \in States
    BY <1>1, <2>1 DEF TypeOK
  <2>3. QED
    BY <1>3, <2>1, <2>2 DEF LiveInv
<1>8. ASSUME NEW e \in Endpoints, DialFails(e) \/ CloseSource(e) PROVE LiveInv'
  <2> DEFINE new == IF src[e] = "open" THEN "closed" ELSE src[e]
  <2>1. /\ mode' = mode /\ pc'[e] \in {"failed", "closing"}
        /\ \A d \in Endpoints \ {e} : pc'[d] = pc[d]
        /\ src' = [src EXCEPT ![e] = new]
    BY <1>8 DEF DialFails, CloseSource, CloseOwned, TypeOK
  <2>2. new \in States
    BY <1>1 DEF TypeOK, States
  <2>3. QED
    BY <1>3, <2>1, <2>2
<1>9. ASSUME UNCHANGED vars PROVE LiveInv'
  BY <1>9 DEF vars, LiveInv, M
<1>10. QED
  BY <1>4, <1>5, <1>6, <1>7, <1>8, <1>9 DEF Next, Finished

(* A handshake consults the source the endpoint is meant to use, and those *)
(* of the endpoints that have set up its configuration.                    *)
LEMMA ConsultsVouched ==
    ASSUME TypeOK, VouchedInv, NEW e \in Endpoints, Controlled(e, conf[ConfigOf(e)]),
           NEW s \in Consults(e)
    PROVE  s = Own(e) \/ \E d \in Endpoints : SetUp(d, e) /\ s = Own(d)
<1> DEFINE c == conf[ConfigOf(e)]
<1>1. ASSUME s = c.certificate PROVE s = Own(e)
  <2>1. c.certificate \in {"nil", "web", Own(e)}
    BY DEF Controlled
  <2>2. s \in SourceIds
    BY DEF Consults
  <2>3. QED
    BY <1>1, <2>1, <2>2, EndpointTypes
<1>2. ASSUME NEW i \in DOMAIN Checks(e), s = Checks(e)[i].bundle
      PROVE  \E d \in Endpoints : SetUp(d, e) /\ s = Own(d)
  <2>1. ConfigOf(e) \in Endpoints \cup Bases /\ "nil" \notin SourceIds
    BY EndpointTypes
  <2>2. Vouched(ConfigOf(e), Checks(e)[i], pc)
    BY <1>2, <2>1 DEF Checks, VouchedInv
  <2>3. Checks(e)[i] # AppVerifier
    BY <1>2, <2>1 DEF Consults, AppVerifier
  <2>4. QED
    BY <1>2, <2>2, <2>3 DEF Vouched, SetUp, OwnVerifier
<1>3. QED
  BY <1>1, <1>2 DEF Consults

(* At first every configuration has what the application set. *)
LEMMA ControlInit == Init => ControlInv /\ VouchedInv /\ LiveInv
<1> SUFFICES ASSUME Init PROVE ControlInv /\ VouchedInv /\ LiveInv
  OBVIOUS
<1>1. ASSUME NEW k \in Endpoints \cup Bases
      PROVE  /\ conf[k].callbacks = Brought(k) \ {"VerifyPeerCertificate"}
             /\ conf[k].verify = IF "VerifyPeerCertificate" \in Brought(k) THEN <<AppVerifier>>
                                                                        ELSE <<>>
  <2>1. CASE k \in Bases
    BY <2>1 DEF Init, AppConfig, Brought
  <2>2. CASE k \notin Bases
    BY <2>2 DEF Init, NewTLSConfig, Brought
  <2>3. QED
    BY <2>1, <2>2
<1>2. /\ DOMAIN <<AppVerifier>> = {1} /\ Len(<<AppVerifier>>) = 1
      /\ <<AppVerifier>>[1] = AppVerifier /\ <<AppVerifier>> # <<>>
      /\ \A i \in DOMAIN <<>> : FALSE
  OBVIOUS
<1>3. CallbacksInv
  <2> SUFFICES ASSUME NEW k \in Endpoints \cup Bases PROVE KeepsCallbacks(k)
    BY DEF CallbacksInv
  <2>1. CASE "VerifyPeerCertificate" \in Brought(k)
    <3>1. conf[k].verify = <<AppVerifier>>
      BY <1>1, <2>1
    <3>2. /\ conf[k].verify # <<>> /\ DOMAIN conf[k].verify = {1} /\ Len(conf[k].verify) = 1
          /\ conf[k].verify[1] = AppVerifier
      BY <1>2, <3>1
    <3>3. QED
      BY <1>1, <2>1, <3>2 DEF KeepsCallbacks
  <2>2. CASE "VerifyPeerCertificate" \notin Brought(k)
    BY <1>1, <1>2, <2>2 DEF KeepsCallbacks
  <2>3. QED
    BY <2>1, <2>2
<1>4. VouchedInv
  BY <1>1, <1>2 DEF VouchedInv, Vouched
<1>5. \A e \in Endpoints : pc[e] = "idle"
  BY DEF Init
<1>6. AloneInv /\ OwnFieldsInv /\ ConfigAloneInv /\ ControlledInv
  BY <1>5 DEF AloneInv, OwnFieldsInv, ConfigAloneInv, InUse, ControlledInv, Handshakes,
              Preparing
<1>7. LiveInv
  BY SpiffeTLSAssumption DEF Init, LiveInv, SourceIds
<1>8. QED
  BY <1>3, <1>4, <1>6, <1>7 DEF ControlInv

(* The calls with one mode and the uses of one configuration take turns,   *)
(* so each finds in the mode, and in its configuration, what it put there. *)
LEMMA ControlInvariant ==
    ASSUME OneAtATime
    PROVE  Spec => [](TypeOK /\ FieldsInv /\ ControlInv)
<1>1. TypeOK /\ FieldsInv /\ ControlInv /\ [Next]_vars => (TypeOK /\ FieldsInv /\ ControlInv)'
  BY TypesKept, FieldsKept, AloneKept, OwnFieldsKept, ConfigAloneKept, CallbacksKept,
     ControlledKept DEF ControlInv
<1>2. QED
  BY <1>1, TLSInit, ControlInit, PTL DEF Spec

(* A configuration holds no verifier of a call it was not given to. *)
LEMMA VouchedInvariant ==
    ASSUME OneAtATime
    PROVE  Spec => [](TypeOK /\ FieldsInv /\ ControlInv /\ VouchedInv /\ LiveInv)
<1>1. Spec => [](TypeOK /\ FieldsInv /\ ControlInv)
  BY ControlInvariant
<1>2. TypeOK /\ FieldsInv /\ ControlInv /\ VouchedInv /\ LiveInv /\ [Next]_vars
      => VouchedInv' /\ LiveInv'
  BY VouchedKept, LiveKept DEF ControlInv
<1>3. Init => VouchedInv /\ LiveInv
  BY ControlInit
<1>4. QED
  BY <1>1, <1>2, <1>3, PTL DEF Spec

(* DialWithMode and ListenWithMode, with modes and base configurations     *)
(* that may be used again, but not two at a time, and with any callbacks   *)
(* of the application in the bases: "the given mode controls the           *)
(* authentication and authorization exercised during the TLS handshake",   *)
(* whatever the other endpoints do; the callbacks come after it, and no    *)
(* mode has a say beside it but those of earlier calls with the same base. *)
THEOREM ModeAlwaysControls ==
    ASSUME OneAtATime
    PROVE  Spec => []ModeControlsHandshake
<1>1. TypeOK /\ ControlInv /\ VouchedInv => ModeControlsHandshake
  <2> SUFFICES ASSUME TypeOK, ControlInv, VouchedInv PROVE ModeControlsHandshake
    OBVIOUS
  <2>1. \A e \in Endpoints : KeepsCallbacks(ConfigOf(e))
    BY EndpointTypes DEF ControlInv, CallbacksInv
  <2>2. ASSUME NEW e \in Endpoints PROVE NoForeignMode(e)
    <3>1. \A i \in DOMAIN Checks(e) : Vouched(ConfigOf(e), Checks(e)[i], pc)
      BY EndpointTypes DEF Checks, VouchedInv
    <3>2. QED
      BY <3>1 DEF Vouched, SetUp, NoForeignMode
  <2>3. QED
    BY <2>1, <2>2 DEF ControlInv, ControlledInv, Controlled, ModeControlsHandshake
<1>2. QED
  BY <1>1, VouchedInvariant, PTL

(* No handshake of a connection or a listener needs a source that was      *)
(* closed (clientConn.Close, listener.Close) with another, unless the two  *)
(* were given the same base.                                               *)
THEOREM SourcesStayLive ==
    ASSUME OneAtATime
    PROVE  Spec => []SourcesAreLive
<1>1. TypeOK /\ ControlInv /\ VouchedInv /\ LiveInv => SourcesAreLive
  <2> SUFFICES ASSUME TypeOK, ControlInv, VouchedInv, LiveInv, NEW e \in Endpoints,
                      Handshakes(e), NEW s \in Consults(e)
               PROVE  src[s] = "open" \/ \E d \in Endpoints \ {e} : SetUp(d, e) /\ s = Own(d)
    BY DEF SourcesAreLive
  <2>1. s = Own(e) \/ \E d \in Endpoints : SetUp(d, e) /\ s = Own(d)
    BY ConsultsVouched DEF ControlInv, ControlledInv
  <2>2. ASSUME s = Own(e) PROVE src[s] = "open"
    <3>1. pc[e] \in {"dial", "open"} /\ M(e).from \in {"workloadapi", "given", "raw"}
      BY EndpointTypes DEF Handshakes, ModeKinds
    <3>2. QED
      BY <2>2, <3>1 DEF LiveInv, Own
  <2>3. QED
    BY <2>1, <2>2
<1>2. QED
  BY <1>1, VouchedInvariant, PTL
=============================================================================
