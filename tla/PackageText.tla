---------------------------- MODULE PackageText ----------------------------
(***************************************************************************)
(* The lexical rules of the package compiler                               *)
(* (src/src/connector/compiler/package_schema_helpers.cpp).  A text is a   *)
(* name of a small vocabulary; Shape[t] says what its characters are: how  *)
(* many there are, the class of the first and of the last one, and the set *)
(* of classes that occur, its ASCII lower case, whether it starts with two *)
(* underscores, whether it names a secret and whether it reads as a number *)
(* of an address.  Hosts and paths are sequences of such texts (labels,    *)
(* segments), extractors sequences of field names.                         *)
(*                                                                         *)
(* A number is a natural, and 0 stands for every text that is not a        *)
(* canonical positive number.  A scalar with a declared type is            *)
(* [quoted, num, value]: whether it is double-quoted, the number it spells *)
(* and, for every type it can be read as, the value it has.                *)
(***************************************************************************)
EXTENDS Naturals, Sequences, FiniteSets, SequencesExt

CONSTANT Shape

Letter == {"lower", "upper"}
Alphanumeric == Letter \cup {"digit"}
Unreserved == Alphanumeric \cup {"dot", "underscore", "tilde", "dash"}

\* Where the characters of text t are all of the given classes.
Made(t, classes) == Shape[t].has \subseteq classes

Size(t) == Shape[t].len

\* The characters of a sequence of texts joined by one separator.
JoinedSize(texts) == FoldSeq(LAMBDA t, n : n + Size(t) + 1, 0, texts)

IsIdentifier(t) ==
    /\ Size(t) \in 1..63
    /\ Shape[t].first = "lower"
    /\ Made(t, {"lower", "digit", "underscore"})

IsGraphqlName(t) ==
    /\ Size(t) \in 1..255
    /\ ~Shape[t].dunder
    /\ Shape[t].first \in Letter \cup {"underscore"}
    /\ Made(t, Alphanumeric \cup {"underscore"})

IsCanonicalUnsigned(n) == n > 0

IsPlainBoolean(t) == t \in {"true", "false"}

\* A field path of a record ($.a.b), or of a collection of records ($.a.b[*]).
IsExtractor(e, collection) ==
    /\ e.collection = collection
    /\ e.fields # <<>>
    /\ JoinedSize(e.fields) < 1024
    /\ \A i \in DOMAIN e.fields :
          /\ Size(e.fields[i]) > 0
          /\ Shape[e.fields[i]].first \in Letter \cup {"underscore"}
          /\ Made(e.fields[i], Alphanumeric \cup {"underscore"})

\* A trailing slash ends the loop over the segments before the empty one.
IsFixedPath(p) ==
    /\ p.rooted
    /\ JoinedSize(p.segments) < 2048
    /\ \A i \in DOMAIN p.segments :
          /\ Size(p.segments[i]) > 0
          /\ p.segments[i] \notin {".", ".."}
          /\ Made(p.segments[i], Unreserved)

IsHeaderName(t) ==
    /\ Size(t) \in 1..63
    /\ Shape[t].first \in Letter
    /\ Made(t, Alphanumeric \cup {"dash"})

IsRateLimitHeaderName(t) ==
    /\ Size(t) \in 1..64
    /\ t # "date"
    /\ Made(t, {"lower", "digit", "dot", "underscore", "tilde", "dash", "token"})

IsRateLimitOperationFamily(t) ==
    /\ Size(t) \in 1..64
    /\ Shape[t].first = "lower"
    /\ Made(t, {"lower", "digit", "underscore"})

IsHeaderValue(t) ==
    /\ Size(t) <= 1024
    /\ {Shape[t].first, Shape[t].last} \cap {"space", "tab"} = {}
    /\ Shape[t].has \cap {"control", "delete", "c1", "high"} = {}

IsQueryName(t) == Size(t) \in 1..63 /\ Made(t, Unreserved)

\* An absolute name without a root label; nothing rules out all-digit labels.
IsCanonicalHost(h) ==
    /\ h # <<>>
    /\ JoinedSize(h) <= 254
    /\ \A i \in DOMAIN h :
          /\ Size(h[i]) \in 1..63
          /\ {Shape[h[i]].first, Shape[h[i]].last} \subseteq {"lower", "digit"}
          /\ Made(h[i], {"lower", "digit", "dash"})

IsLiteralPathSegment(t) ==
    Size(t) \in 1..255 /\ t \notin {".", ".."} /\ Made(t, Unreserved)

\* The classes of text a rate-limit policy or a header may carry as a secret.
ContainsCredentialHint(t) == Shape[t].hint

ReservedHeaders ==
    {"authorization", "proxy-authorization", "host", "connection",
     "content-length", "transfer-encoding", "trailer", "te", "upgrade",
     "keep-alive", "proxy-connection", "expect", "range", "cookie",
     "set-cookie", "accept-encoding"}

ReservedHeader(t, graphql) ==
    \/ Shape[t].folded \in ReservedHeaders
    \/ ContainsCredentialHint(t)
    \/ graphql /\ Shape[t].folded = "content-type"
=============================================================================
