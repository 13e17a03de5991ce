------------------------------- MODULE SpiffeTLS -------------------------------
(***************************************************************************)
(* Dialing and listening with SPIFFE TLS: DialWithMode and ListenWithMode  *)
(* (spiffetls/dial.go, listen.go), the modes they are given (mode.go), and *)
(* the TLS configurations they set up (tlsconfig/config.go).               *)
(*                                                                         *)
(* An endpoint is one call and the connection or listener it returns.  A   *)
(* mode is an object: the call writes the source into it and reads it      *)
(* back, so endpoints that share a mode share these fields.  A base TLS    *)
(* configuration is an object too: the call changes it in place, keeping   *)
(* the callbacks of the application, and a listener's handshakes look at   *)
(* it for as long as the listener is open.                                 *)
(*                                                                         *)
(* A source is named after the endpoint that created it; "given" and "raw" *)
(* are sources that came with the mode.                                    *)
(***************************************************************************)
EXTENDS Sequences, FiniteSets

CONSTANTS
    Endpoints,
    ModeIds,       \* mode objects
    ModeOf,        \* ModeOf[e]: the mode object e is called with
    Bases,         \* base TLS configurations, WithDial/ListenTLSConfigBase
    BaseOf,        \* BaseOf[e]: the base configuration of e, or NoBase
    NoBase,
    Brings,        \* Brings[b]: the callbacks the application has set in b
    OneAtATime     \* uses of the same mode or base do not overlap

Client == "client"
Server == "server"

(* The constructors of mode.go: what they authenticate and where the X.509 *)
(* source comes from (created by the call, whatever its options; passed to *)
(* ...WithSource; bundle and SVID source passed to ...WithRawConfig).      *)
ModeKinds == [role : {Client, Server},
              kind : {"tls", "mtls", "mtlsWeb"},
              from : {"workloadapi", "given", "raw"}]

SourceIds == Endpoints \cup {"given", "raw"}

(* Callbacks of a tls.Config that resetAuthFields leaves alone. *)
Callbacks == {"VerifyPeerCertificate", "VerifyConnection", "GetConfigForClient"}

ASSUME SpiffeTLSAssumption ==
    /\ ModeOf \in [Endpoints -> ModeIds]
    /\ BaseOf \in [Endpoints -> Bases \cup {NoBase}]
    /\ NoBase \notin Bases /\ Bases \cap Endpoints = {}
    /\ Endpoints \cap {"given", "raw", "nil", "web"} = {} /\ "app" \notin ModeIds
    /\ Brings \in [Bases -> SUBSET Callbacks]
    /\ OneAtATime \in BOOLEAN

VARIABLES
    mode,    \* mode[m]: which constructor made the mode object m
    fields,  \* fields[m]: m.bundle and m.svid
    pc,      \* pc[e]: where the call, or the endpoint, is
    src,     \* src[s]: the state of source s
    inner,   \* inner[e]: the state of the connection or inner listener
    conf     \* conf[k]: TLS configuration k

vars == <<mode, fields, pc, src, inner, conf>>

M(e) == mode[ModeOf[e]]

(* The source an endpoint is meant to use. *)
Own(e) == IF M(e).from = "workloadapi" THEN e ELSE M(e).from

(* &tls.Config{} unless there is a base. *)
ConfigOf(e) == IF BaseOf[e] = NoBase THEN e ELSE BaseOf[e]

PCs == {"idle", "source", "bundle", "svid", "hook", "dial", "open", "closing",
        "closed", "failed"}
States == {"none", "open", "closed"}
Preparing == {"source", "bundle", "svid", "hook"}

(* A VerifyPeerCertificate callback: this package's, with a bundle source  *)
(* and the authorizer of a mode, or the application's.                     *)
AppVerifier == [bundle |-> "nil", authorizer |-> "app"]
Verifiers == [bundle : SourceIds, authorizer : ModeIds] \cup {AppVerifier}

TLSConfigs == [certificate : SourceIds \cup {"nil", "web", "base"},
               requireClientCert : BOOLEAN,
               insecureSkipVerify : BOOLEAN,
               verify : Seq(Verifiers), \* VerifyPeerCertificate, outermost first
               callbacks : SUBSET (Callbacks \ {"VerifyPeerCertificate"})]

TypeOK ==
    /\ mode \in [ModeIds -> ModeKinds]
    /\ fields \in [ModeIds -> [bundle : SourceIds \cup {"nil"}, svid : SourceIds \cup {"nil"}]]
    /\ pc \in [Endpoints -> PCs]
    /\ src \in [SourceIds -> States]
    /\ inner \in [Endpoints -> States]
    /\ conf \in [Endpoints \cup Bases -> TLSConfigs]

(* What the ...WithRawConfig constructor of a mode takes. *)
TakesBundle(k) == <<k.role, k.kind>> \notin {<<Client, "mtlsWeb">>, <<Server, "tls">>}
TakesSVID(k) == <<k.role, k.kind>> \notin {<<Client, "tls">>, <<Server, "mtlsWeb">>}

NewTLSConfig == [certificate |-> "nil", requireClientCert |-> FALSE,
                 insecureSkipVerify |-> FALSE, verify |-> <<>>, callbacks |-> {}]

Brought(k) == IF k \in Bases THEN Brings[k] ELSE {}

(* A base configuration comes with settings and callbacks of the            *)
(* application.                                                             *)
AppConfig(b) ==
    [certificate |-> "base", requireClientCert |-> TRUE, insecureSkipVerify |-> TRUE,
     verify |-> IF "VerifyPeerCertificate" \in Brings[b] THEN <<AppVerifier>> ELSE <<>>,
     callbacks |-> Brings[b] \ {"VerifyPeerCertificate"}]

Init ==
    /\ mode \in [ModeIds -> ModeKinds]
    /\ fields = [m \in ModeIds |->
                    LET raw == mode[m].from = "raw"
                    IN  [bundle |-> IF raw /\ TakesBundle(mode[m]) THEN "raw" ELSE "nil",
                         svid   |-> IF raw /\ TakesSVID(mode[m]) THEN "raw" ELSE "nil"]]
    /\ pc = [e \in Endpoints |-> "idle"]
    /\ src = [s \in SourceIds |-> IF s \in Endpoints THEN "none" ELSE "open"]
    /\ inner = [e \in Endpoints |-> "none"]
    /\ conf = [k \in Endpoints \cup Bases |-> IF k \in Bases THEN AppConfig(k) ELSE NewTLSConfig]

-----------------------------------------------------------------------------
(* tlsconfig *)

(* Mutant: the settings of the base configuration stay. *)
ResetAuthFieldsForgotten(c) == c

(* resetAuthFields; the callbacks are not among them. *)
ResetAuthFields(c) == [NewTLSConfig EXCEPT !.verify = c.verify, !.callbacks = c.callbacks]

(* Mutant: the callback that was there goes first. *)
WrapInside(c, m) ==
    c.verify \o <<[bundle |-> fields[m].bundle, authorizer |-> m]>>

(* WrapVerifyPeerCertificate: SPIFFE authentication, then the callback that *)
(* was there.                                                              *)
Wrap(c, m) ==
    <<[bundle |-> fields[m].bundle, authorizer |-> m]>> \o c.verify

(* HookTLSClientConfig, HookMTLSClientConfig, HookMTLSWebClientConfig *)
HookClient(c, m) ==
    [c EXCEPT
        !.certificate = IF mode[m].kind = "tls" THEN @ ELSE fields[m].svid,
        !.insecureSkipVerify = mode[m].kind # "mtlsWeb" \/ @,
        !.verify = IF mode[m].kind = "mtlsWeb" THEN @ ELSE Wrap(c, m)]

(* HookTLSServerConfig, HookMTLSServerConfig, HookMTLSWebServerConfig *)
HookServer(c, m) ==
    [c EXCEPT
        !.certificate = IF mode[m].kind = "mtlsWeb" THEN "web" ELSE fields[m].svid,
        !.requireClientCert = mode[m].kind # "tls" \/ @,
        !.verify = IF mode[m].kind = "tls" THEN @ ELSE Wrap(c, m)]

-----------------------------------------------------------------------------
(* DialWithMode, ListenWithMode and NewListenerWithMode *)

(* The configuration of e is in use: by a call, or by the connections a    *)
(* listener has accepted, whose handshakes may come late.                  *)
InUse(e) ==
    \/ pc[e] \in Preparing \cup {"dial"}
    \/ M(e).role = Server /\ pc[e] \in {"open", "closing", "closed"}

(* The call begins; ListenWithMode first opens the inner listener. *)
Call(e) ==
    /\ pc[e] = "idle"
    /\ OneAtATime => \A d \in Endpoints :
        /\ ModeOf[d] = ModeOf[e] => pc[d] \notin Preparing
        /\ ConfigOf(d) = ConfigOf(e) => ~InUse(d)
    /\ inner' = [inner EXCEPT ![e] = IF M(e).role = Server THEN "open" ELSE "none"]
    /\ pc' = [pc EXCEPT ![e] = CASE M(e).from = "workloadapi" -> "source"
                                 [] M(e).from = "given"       -> "bundle"
                                 [] M(e).from = "raw"         -> "hook"]
    /\ UNCHANGED <<mode, fields, src, conf>>

(* net.Listen fails. *)
ListenFails(e) ==
    /\ pc[e] = "idle"
    /\ M(e).role = Server
    /\ pc' = [pc EXCEPT ![e] = "failed"]
    /\ UNCHANGED <<mode, fields, src, inner, conf>>

NewX509Source(e) ==
    /\ pc[e] = "source"
    /\ src' = [src EXCEPT ![e] = "open"]
    /\ pc' = [pc EXCEPT ![e] = "bundle"]
    /\ UNCHANGED <<mode, fields, inner, conf>>

(* Mutant: the inner listener is left open. *)
NewX509SourceFailsLeaks(e) ==
    /\ pc[e] = "source"
    /\ pc' = [pc EXCEPT ![e] = "failed"]
    /\ UNCHANGED <<mode, fields, src, inner, conf>>

(* ListenWithMode closes the inner listener it opened. *)
NewX509SourceFails(e) ==
    /\ pc[e] = "source"
    /\ pc' = [pc EXCEPT ![e] = "failed"]
    /\ inner' = [inner EXCEPT ![e] = IF @ = "open" THEN "closed" ELSE @]
    /\ UNCHANGED <<mode, fields, src, conf>>

(* Mutant: a mode that has a bundle source keeps it. *)
SetBundleOnce(e) ==
    /\ pc[e] = "bundle"
    /\ fields' = [fields EXCEPT ![ModeOf[e]].bundle = IF @ = "nil" THEN Own(e) ELSE @]
    /\ pc' = [pc EXCEPT ![e] = "svid"]
    /\ UNCHANGED <<mode, src, inner, conf>>

(* Mutant: the bundle source of the mode is not set. *)
SetBundleForgotten(e) ==
    /\ pc[e] = "bundle"
    /\ pc' = [pc EXCEPT ![e] = "svid"]
    /\ UNCHANGED <<mode, fields, src, inner, conf>>

(* m.bundle = source *)
SetBundle(e) ==
    /\ pc[e] = "bundle"
    /\ fields' = [fields EXCEPT ![ModeOf[e]].bundle = Own(e)]
    /\ pc' = [pc EXCEPT ![e] = "svid"]
    /\ UNCHANGED <<mode, src, inner, conf>>

(* Mutant: a mode that has an SVID source keeps it. *)
SetSVIDOnce(e) ==
    /\ pc[e] = "svid"
    /\ fields' = [fields EXCEPT ![ModeOf[e]].svid = IF @ = "nil" THEN Own(e) ELSE @]
    /\ pc' = [pc EXCEPT ![e] = "hook"]
    /\ UNCHANGED <<mode, src, inner, conf>>

(* m.svid = source *)
SetSVID(e) ==
    /\ pc[e] = "svid"
    /\ fields' = [fields EXCEPT ![ModeOf[e]].svid = Own(e)]
    /\ pc' = [pc EXCEPT ![e] = "hook"]
    /\ UNCHANGED <<mode, src, inner, conf>>

(* The switch over the mode; a listener is returned. *)
Hook(e) ==
    /\ pc[e] = "hook"
    /\ conf' = [conf EXCEPT ![ConfigOf(e)] =
                   IF M(e).role = Client THEN HookClient(ResetAuthFields(@), ModeOf[e])
                                         ELSE HookServer(ResetAuthFields(@), ModeOf[e])]
    /\ pc' = [pc EXCEPT ![e] = IF M(e).role = Client THEN "dial" ELSE "open"]
    /\ UNCHANGED <<mode, fields, src, inner>>

(* The VerifyPeerCertificate callbacks a handshake of e runs: a server     *)
(* that asks for no certificate runs none.                                 *)
Checks(e) ==
    LET c == conf[ConfigOf(e)]
    IN  IF M(e).role = Server /\ ~c.requireClientCert THEN <<>> ELSE c.verify

(* The sources such a handshake reads. *)
Consults(e) ==
    ({Checks(e)[i].bundle : i \in DOMAIN Checks(e)} \cup {conf[ConfigOf(e)].certificate})
        \cap SourceIds

(* tls.Dial with its handshake succeeds, which takes sources that answer. *)
Dial(e) ==
    /\ pc[e] = "dial"
    /\ \A s \in Consults(e) : src[s] = "open"
    /\ inner' = [inner EXCEPT ![e] = "open"]
    /\ pc' = [pc EXCEPT ![e] = "open"]
    /\ UNCHANGED <<mode, fields, src, conf>>

(* The deferred source.Close: only for a source that was created here. *)
CloseOwned(e) == src' = [src EXCEPT ![e] = IF @ = "open" THEN "closed" ELSE @]

DialFails(e) ==
    /\ pc[e] = "dial"
    /\ CloseOwned(e)
    /\ pc' = [pc EXCEPT ![e] = "failed"]
    /\ UNCHANGED <<mode, fields, inner, conf>>

-----------------------------------------------------------------------------
(* clientConn.Close and listener.Close *)

(* sourceCloser.Close() *)
CloseSource(e) ==
    /\ pc[e] = "open"
    /\ CloseOwned(e)
    /\ pc' = [pc EXCEPT ![e] = "closing"]
    /\ UNCHANGED <<mode, fields, inner, conf>>

(* Conn.Close() or inner.Close() *)
CloseInner(e) ==
    /\ pc[e] = "closing"
    /\ inner' = [inner EXCEPT ![e] = "closed"]
    /\ pc' = [pc EXCEPT ![e] = "closed"]
    /\ UNCHANGED <<mode, fields, src, conf>>

(* Every endpoint is closed or was never opened.  The application need not *)
(* make a call, and must not with a base that a listener goes on using.    *)
Finished ==
    /\ \A e \in Endpoints : pc[e] \in {"idle", "closed", "failed"}
    /\ UNCHANGED vars

Next ==
    \/ \E e \in Endpoints :
        \/ Call(e) \/ ListenFails(e) \/ NewX509Source(e) \/ NewX509SourceFails(e)
        \/ SetBundle(e) \/ SetSVID(e) \/ Hook(e) \/ Dial(e) \/ DialFails(e)
        \/ CloseSource(e) \/ CloseInner(e)
    \/ Finished

Spec == Init /\ [][Next]_vars

-----------------------------------------------------------------------------
(* Properties *)

(* A call that failed, or an endpoint that was closed, leaves open neither *)
(* the source it created nor the connection or listener under it.          *)
NothingLeaks ==
    \A e \in Endpoints :
        pc[e] \in {"failed", "closed"} => src[e] # "open" /\ inner[e] # "open"

(* The configuration of e is looked at by handshakes: those of a client    *)
(* during the call, those of a server while the listener is open.          *)
Handshakes(e) == pc[e] = IF M(e).role = Client THEN "dial" ELSE "open"

(* Endpoint d has set up the configuration of e, for itself if d is e or   *)
(* for an earlier use of the same base, or its call has failed before.     *)
SetUp(d, e) == ConfigOf(d) = ConfigOf(e) /\ pc[d] \notin {"idle"} \cup Preparing

(* No handshake needs a source that is closed: closing one endpoint does   *)
(* not break another, even one that was called with the same mode, and     *)
(* sources that were passed in stay open.  The one exception is the source *)
(* of an earlier call with the same base, which the verifier it left       *)
(* there asks.                                                             *)
SourcesAreLive ==
    \A e \in Endpoints : Handshakes(e) =>
        \A s \in Consults(e) :
            src[s] = "open" \/ \E d \in Endpoints \ {e} : SetUp(d, e) /\ s = Own(d)

(* The peers of e show X509-SVIDs. *)
SVIDPeer(e) == <<M(e).role, M(e).kind>> \notin {<<Client, "mtlsWeb">>, <<Server, "tls">>}

OwnVerifier(e) == [bundle |-> Own(e), authorizer |-> ModeOf[e]]

(* A callback of the application, not the configuration, decides. *)
HandsOver(e) == M(e).role = Server /\ "GetConfigForClient" \in Brought(ConfigOf(e))

(* Configuration k has the callbacks the application set, no fewer and no  *)
(* more; its VerifyPeerCertificate comes after every other.                *)
KeepsCallbacks(k) ==
    LET v   == conf[k].verify
        app == "VerifyPeerCertificate" \in Brought(k)
    IN  /\ conf[k].callbacks = Brought(k) \ {"VerifyPeerCertificate"}
        /\ app => v # <<>>
        /\ \A i \in DOMAIN v : (v[i] = AppVerifier) <=> (app /\ i = Len(v))

(* A handshake of e checks the peer against nothing but the source and     *)
(* authorizer of e and what the application's callback adds.  Calls that   *)
(* were given the same base share their verifiers, as the callback of the  *)
(* earlier call is wrapped like one of the application; calls that share a *)
(* mode object do not.                                                     *)
NoForeignMode(e) ==
    \A i \in DOMAIN Checks(e) :
        \/ Checks(e)[i] = AppVerifier
        \/ \E d \in Endpoints : SetUp(d, e) /\ SVIDPeer(d) /\ Checks(e)[i] = OwnVerifier(d)

(* "The given mode controls the authentication and authorization exercised *)
(* during the TLS handshake" (ListenWithMode), also with a base that       *)
(* another call has used before: the certificate is the one the mode       *)
(* names, what the base said about certificates is gone, and a peer that   *)
(* shows an X509-SVID is first checked against the endpoint's own source   *)
(* and authorizer; "an existing callback set for VerifyPeerCertificate ... *)
(* will be wrapped by this package and invoked after SPIFFE                *)
(* authentication" (HookMTLSServerConfig).  No mode has a say but its own  *)
(* and those of earlier calls with the same base.                          *)
ModeControlsHandshake ==
    \A e \in Endpoints : Handshakes(e) /\ ~HandsOver(e) =>
        LET c == conf[ConfigOf(e)]
            m == M(e)
        IN  /\ c.certificate = CASE m.role = Client /\ m.kind = "tls"     -> "nil"
                                 [] m.role = Server /\ m.kind = "mtlsWeb" -> "web"
                                 [] OTHER                                 -> Own(e)
            /\ c.requireClientCert = (SVIDPeer(e) /\ m.role = Server)
            /\ c.insecureSkipVerify = (SVIDPeer(e) /\ m.role = Client)
            /\ SVIDPeer(e) => c.verify # <<>> /\ c.verify[1] = OwnVerifier(e)
            /\ KeepsCallbacks(ConfigOf(e))
            /\ NoForeignMode(e)
=============================================================================
