------------------------------- MODULE SpiffeID -------------------------------
(***************************************************************************)
(* SPIFFE IDs (spiffeid/id.go, path.go, trustdomain.go): the scanners      *)
(* behind FromString, TrustDomainFromString, ValidatePath and              *)
(* ValidatePathSegment, and a program that builds an ID from others with   *)
(* the functions and methods of the package.                               *)
(*                                                                         *)
(* A text is a sequence of characters, and a character is known by its     *)
(* class.  Positions count the characters before them, as in Go.  The      *)
(* loops take one step per character.                                      *)
(***************************************************************************)
EXTENDS Naturals, Sequences, Functions

CONSTANTS
    Texts,         \* arguments of FromString, UnmarshalText, TrustDomainFromString
    Paths,         \* arguments of FromPath, AppendPath, ReplacePath
    SegmentLists,  \* arguments of FromSegments, AppendSegments, ReplaceSegments
    MaxLen         \* bound: length of an ID that is appended to

(* "spiffe": the scheme's letters; "a": other lower-case letters, digits,  *)
(* dash and underscore; "A": upper-case letters; "~": a tilde or a         *)
(* sub-delimiter; ":": a colon, bracket or at sign; "%": anything else.    *)
Chars == {"spiffe", "a", "A", ".", "/", ":", "~", "%"}

schemePrefix == <<"spiffe", ":", "/", "/">>
schemePrefixLen == 4

ASSUME SpiffeIDAssumption ==
    /\ Texts \subseteq Seq(Chars)
    /\ Paths \subseteq Seq(Chars)
    /\ SegmentLists \subseteq Seq(Seq(Chars))
    /\ MaxLen \in Nat

VARIABLES
    backcompat,  \* built with the tag spiffeid_charset_backcompat
    id,          \* the ID the program holds
    call,        \* the call in progress: function and arguments
    pc,
    path,        \* the path being scanned or joined
    pathidx,     \* where the path starts in the text
    i,           \* loop index; segmentEnd in ValidatePath
    start,       \* segmentStart in ValidatePath, the segment in JoinPathSegments
    ok           \* the call returned no error

scanVars == <<path, pathidx, i, start>>
idVars == <<backcompat, id, call, pc, scanVars, ok>>

IDs == [str : Seq(Chars), pathidx : Nat]
ZeroID == [str |-> <<>>, pathidx |-> 0]
(* A call with a text, and no call. *)
TextCall(fn, text) == [fn |-> fn, text |-> text, segments |-> <<>>]
NoCall == TextCall("none", <<>>)

IDInit ==
    /\ backcompat \in BOOLEAN
    /\ id = ZeroID
    /\ call = NoCall
    /\ pc = "idle"
    /\ path = <<>> /\ pathidx = 0 /\ i = 0 /\ start = 0
    /\ ok = FALSE

-----------------------------------------------------------------------------
(* Characters and values *)

isValidTrustDomainChar(c) == c \in {"spiffe", "a", "."} \/ (backcompat /\ c = "~")

isValidPathSegmentChar(c) ==
    c \in {"spiffe", "a", "A", "."} \/ (backcompat /\ c \in {"~", ":"})

(* s[from:to] *)
Slice(s, from, to) == SubSeq(s, from + 1, to)

HasScheme(s) == Len(s) >= schemePrefixLen /\ Slice(s, 0, schemePrefixLen) = schemePrefix

(* The text contains ":/". *)
LooksLikeID(s) == \E k \in 1 .. Len(s) - 1 : s[k] = ":" /\ s[k + 1] = "/"

IsZero(x) == x.str = <<>>

(* ID.TrustDomain, the zero trust domain being the empty name; ID.Path. *)
TrustDomain(x) == IF IsZero(x) THEN <<>> ELSE Slice(x.str, schemePrefixLen, x.pathidx)
Path(x) == Slice(x.str, x.pathidx, Len(x.str))

(* Mutant: the index counts from the end of the scheme. *)
makeIDWithoutScheme(td, p) == [str |-> schemePrefix \o td \o p, pathidx |-> Len(td)]

makeID(td, p) == [str |-> schemePrefix \o td \o p, pathidx |-> schemePrefixLen + Len(td)]

-----------------------------------------------------------------------------
(* The scanners *)

Return(success) ==
    /\ pc' = "returned"
    /\ ok' = success

(* The checks of FromString before its loop, as the start of call c. *)
FromStringBegins(c) ==
    /\ call' = c
    /\ IF HasScheme(c.text)
       THEN pc' = "trust domain" /\ i' = schemePrefixLen /\ UNCHANGED ok
       ELSE Return(FALSE) /\ UNCHANGED i
    /\ UNCHANGED <<backcompat, id, path, pathidx, start>>

ScanTrustDomainChar ==
    /\ pc = "trust domain"
    /\ i < Len(call.text) /\ call.text[i + 1] # "/"
    /\ IF isValidTrustDomainChar(call.text[i + 1])
       THEN i' = i + 1 /\ UNCHANGED <<pc, ok>>
       ELSE Return(FALSE) /\ UNCHANGED i
    /\ UNCHANGED <<backcompat, id, call, path, pathidx, start>>

(* The loop ends; a trust domain is required. *)
ScanTrustDomainEnd ==
    /\ pc = "trust domain"
    /\ i < Len(call.text) => call.text[i + 1] = "/"
    /\ IF i = schemePrefixLen
       THEN Return(FALSE) /\ UNCHANGED <<pathidx, path, i>>
       ELSE /\ pathidx' = i
            /\ path' = Slice(call.text, i, Len(call.text))
            /\ pc' = "path" /\ i' = 0
            /\ UNCHANGED ok
    /\ UNCHANGED <<backcompat, id, call, start>>

DotSegments == {<<"/", ".">>, <<"/", ".", ".">>}

(* ValidatePath refuses a path without a leading slash before its loop. *)
PathHasNoSlash ==
    /\ pc = "path" /\ i = 0
    /\ path # <<>> /\ path[1] # "/"
    /\ Return(FALSE)
    /\ UNCHANGED <<backcompat, id, call, scanVars>>

InPath == pc = "path" /\ i < Len(path) /\ path[1] = "/"

(* Mutant: the start of the segment is not moved. *)
ScanPathSlashStays ==
    /\ InPath /\ path[i + 1] = "/"
    /\ IF Slice(path, start, i) \in {<<"/">>} \cup DotSegments
       THEN Return(FALSE) /\ UNCHANGED i
       ELSE i' = i + 1 /\ UNCHANGED <<pc, ok>>
    /\ UNCHANGED <<backcompat, id, call, path, pathidx, start>>

(* A slash ends a segment and begins the next. *)
ScanPathSlash ==
    /\ InPath /\ path[i + 1] = "/"
    /\ IF Slice(path, start, i) \in {<<"/">>} \cup DotSegments
       THEN Return(FALSE) /\ UNCHANGED <<start, i>>
       ELSE start' = i /\ i' = i + 1 /\ UNCHANGED <<pc, ok>>
    /\ UNCHANGED <<backcompat, id, call, path, pathidx>>

ScanPathChar ==
    /\ InPath /\ path[i + 1] # "/"
    /\ IF isValidPathSegmentChar(path[i + 1])
       THEN i' = i + 1 /\ UNCHANGED <<pc, ok>>
       ELSE Return(FALSE) /\ UNCHANGED i
    /\ UNCHANGED <<backcompat, id, call, path, pathidx, start>>

(* The last segment may be neither empty nor dots. *)
ScanPathEnd ==
    /\ pc = "path" /\ i = Len(path)
    /\ IF Slice(path, start, i) \in {<<"/">>} \cup DotSegments
       THEN Return(FALSE)
       ELSE pc' = "build" /\ UNCHANGED ok
    /\ UNCHANGED <<backcompat, id, call, scanVars>>

(* JoinPathSegments; ValidatePathSegment checks a segment as a whole, then *)
(* its characters.                                                         *)
InSegment == pc = "segments" /\ start < Len(call.segments)
Segment == call.segments[start + 1]

SegmentRefused ==
    /\ InSegment /\ i = 0
    /\ Segment \in {<<>>, <<".">>, <<".", ".">>}
    /\ Return(FALSE)
    /\ UNCHANGED <<backcompat, id, call, scanVars>>

ScanSegmentChar ==
    /\ InSegment /\ i < Len(Segment)
    /\ Segment \notin {<<".">>, <<".", ".">>}
    /\ IF isValidPathSegmentChar(Segment[i + 1])
       THEN i' = i + 1 /\ UNCHANGED <<pc, ok>>
       ELSE Return(FALSE) /\ UNCHANGED i
    /\ UNCHANGED <<backcompat, id, call, path, pathidx, start>>

ScanSegmentEnd ==
    /\ InSegment /\ i = Len(Segment) /\ i > 0
    /\ path' = path \o <<"/">> \o Segment
    /\ start' = start + 1 /\ i' = 0
    /\ UNCHANGED <<backcompat, id, call, pc, pathidx, ok>>

SegmentsEnd ==
    /\ pc = "segments" /\ start = Len(call.segments)
    /\ pc' = "build"
    /\ UNCHANGED <<backcompat, id, call, scanVars, ok>>

(* The loop of TrustDomainFromString over a name. *)
ScanNameChar ==
    /\ pc = "name" /\ i < Len(call.text)
    /\ IF isValidTrustDomainChar(call.text[i + 1])
       THEN i' = i + 1 /\ UNCHANGED <<pc, ok>>
       ELSE Return(FALSE) /\ UNCHANGED i
    /\ UNCHANGED <<backcompat, id, call, path, pathidx, start>>

Scan ==
    \/ ScanTrustDomainChar \/ ScanTrustDomainEnd
    \/ PathHasNoSlash \/ ScanPathSlash \/ ScanPathChar \/ ScanPathEnd
    \/ SegmentRefused \/ ScanSegmentChar \/ ScanSegmentEnd \/ SegmentsEnd
    \/ ScanNameChar

-----------------------------------------------------------------------------
(* The calls *)

(* FromString.  Bound: the program parses a text when it has no ID yet, as *)
(* the outcome does not depend on the ID it has.                           *)
CallFromString(t) ==
    /\ pc = "idle" /\ IsZero(id)
    /\ FromStringBegins(TextCall("FromString", t))

(* ID.UnmarshalText: the empty text is the zero ID. *)
CallUnmarshalText(t) ==
    /\ pc = "idle" /\ (IsZero(id) \/ t = <<>>)
    /\ LET c == TextCall("UnmarshalText", t) IN
       IF t = <<>>
       THEN /\ call' = c /\ id' = ZeroID
            /\ Return(TRUE)
            /\ UNCHANGED <<backcompat, scanVars>>
       ELSE FromStringBegins(c)

(* TrustDomainFromString takes a name or an ID. *)
CallTrustDomainFromString(t) ==
    /\ pc = "idle" /\ IsZero(id)
    /\ LET c == TextCall("TrustDomainFromString", t) IN
       IF LooksLikeID(t)
       THEN FromStringBegins(c)
       ELSE /\ call' = c
            /\ IF t = <<>> THEN Return(FALSE) ELSE pc' = "name" /\ UNCHANGED ok
            /\ UNCHANGED <<backcompat, id, scanVars>>

PathCalls == {"FromPath", "AppendPath", "ReplacePath"}
SegmentCalls == {"FromSegments", "AppendSegments", "ReplaceSegments"}
AppendCalls == {"AppendPath", "AppendSegments"}
MethodCalls == AppendCalls \cup {"ReplacePath", "ReplaceSegments"}

(* FromPath and FromSegments with the trust domain of the program's ID, and *)
(* the methods of that ID, which refuse a zero ID before they look at their *)
(* argument.                                                                *)
CallPath(fn, p) ==
    /\ pc = "idle"
    /\ fn \in AppendCalls => Len(id.str) + Len(p) <= MaxLen
    /\ call' = TextCall(fn, p)
    /\ path' = p
    /\ IF fn \in MethodCalls /\ IsZero(id) THEN Return(FALSE) ELSE pc' = "path" /\ UNCHANGED ok
    /\ UNCHANGED <<backcompat, id, pathidx, i, start>>

CallSegments(fn, ss) ==
    /\ pc = "idle"
    /\ fn \in AppendCalls => Len(id.str) < MaxLen
    /\ call' = [fn |-> fn, text |-> <<>>, segments |-> ss]
    /\ IF fn \in MethodCalls /\ IsZero(id) THEN Return(FALSE) ELSE pc' = "segments" /\ UNCHANGED ok
    /\ UNCHANGED <<backcompat, id, scanVars>>

(* The result: of FromString and UnmarshalText, the text itself. *)
BuildParsed ==
    /\ pc = "build" /\ call.fn \in {"FromString", "UnmarshalText"}
    /\ id' = [str |-> call.text, pathidx |-> pathidx]
    /\ Return(TRUE)
    /\ UNCHANGED <<backcompat, call, scanVars>>

(* Of TrustDomainFromString, the trust domain; the program keeps its ID(). *)
BuildTrustDomain ==
    /\ call.fn = "TrustDomainFromString"
    /\ \/ pc = "build" /\ id' = makeID(Slice(call.text, schemePrefixLen, pathidx), <<>>)
       \/ pc = "name" /\ i = Len(call.text) /\ id' = makeID(call.text, <<>>)
    /\ Return(TRUE)
    /\ UNCHANGED <<backcompat, call, scanVars>>

(* Of FromPath, FromSegments, ReplacePath and ReplaceSegments: makeID, which *)
(* refuses the zero trust domain.                                            *)
BuildMade ==
    /\ pc = "build" /\ call.fn \in (PathCalls \cup SegmentCalls) \ AppendCalls
    /\ id' = IF IsZero(id) THEN id ELSE makeID(TrustDomain(id), path)
    /\ Return(~IsZero(id))
    /\ UNCHANGED <<backcompat, call, scanVars>>

(* Of AppendPath and AppendSegments: only the text grows. *)
BuildAppended ==
    /\ pc = "build" /\ call.fn \in AppendCalls
    /\ id' = [id EXCEPT !.str = @ \o path]
    /\ Return(TRUE)
    /\ UNCHANGED <<backcompat, call, scanVars>>

Build == BuildParsed \/ BuildTrustDomain \/ BuildMade \/ BuildAppended

(* The call is over: its arguments and locals are gone. *)
Reset ==
    /\ pc' = "idle"
    /\ call' = NoCall
    /\ path' = <<>> /\ pathidx' = 0 /\ i' = 0 /\ start' = 0
    /\ ok' = FALSE
    /\ UNCHANGED backcompat

(* The program goes on with the ID it has. *)
Continue ==
    /\ pc = "returned"
    /\ Reset
    /\ UNCHANGED id

IDCalls ==
    \/ \E t \in Texts : CallFromString(t) \/ CallUnmarshalText(t) \/ CallTrustDomainFromString(t)
    \/ \E fn \in PathCalls, p \in Paths : CallPath(fn, p)
    \/ \E fn \in SegmentCalls, ss \in SegmentLists : CallSegments(fn, ss)

IDNext == IDCalls \/ Scan \/ Build \/ Continue

IDSpec == IDInit /\ [][IDNext]_idVars

-----------------------------------------------------------------------------
(* Properties *)

(* The grammar of SPIFFE-ID 2.1 and 2.2. *)
IsTrustDomainName(s) == s # <<>> /\ \A c \in Range(s) : isValidTrustDomainChar(c)

IsSegment(s) ==
    /\ s \notin {<<>>, <<".">>, <<".", ".">>}
    /\ \A c \in Range(s) : isValidPathSegmentChar(c)

IsPath(p) ==
    /\ p # <<>> => p[1] = "/"
    /\ \A a \in 1 .. Len(p) :
        p[a] = "/" => \E b \in a + 1 .. Len(p) :
                          IsSegment(SubSeq(p, a + 1, b)) /\ (b = Len(p) \/ p[b + 1] = "/")

(* s is an ID whose path starts after k characters. *)
IsIDWithPathAt(s, k) ==
    /\ HasScheme(s)
    /\ IsTrustDomainName(Slice(s, schemePrefixLen, k))
    /\ IsPath(Slice(s, k, Len(s)))

IsID(s) == \E k \in schemePrefixLen .. Len(s) : IsIDWithPathAt(s, k)

(* A function of the package accepts its argument exactly when it is in    *)
(* the grammar: no scanner stops early, looks past the end or forgets the  *)
(* last segment, and FromPath, FromString and JoinPathSegments agree on    *)
(* what a path is.                                                         *)
AcceptsTheGrammar ==
    pc = "returned" =>
        (ok <=> CASE call.fn = "FromString" -> IsID(call.text)
                  [] call.fn = "UnmarshalText" -> call.text = <<>> \/ IsID(call.text)
                  [] call.fn = "TrustDomainFromString" ->
                         IsTrustDomainName(call.text) \/ IsID(call.text)
                  [] call.fn \in PathCalls -> ~IsZero(id) /\ IsPath(call.text)
                  [] OTHER -> ~IsZero(id) /\ \A s \in Range(call.segments) : IsSegment(s))

(* Every ID a program can get from the package is the zero ID or spells a  *)
(* valid ID, with its path where pathidx says, however it was put          *)
(* together: TrustDomain and Path split it correctly, FromString accepts   *)
(* its text and gives the same ID back, so that MatchID, which compares    *)
(* text and index, does what comparing the texts would do.                 *)
IDsAreWellFormed ==
    id = ZeroID \/ (id.pathidx <= Len(id.str) /\ IsIDWithPathAt(id.str, id.pathidx))
=============================================================================
