----------------------------- MODULE ConfigLoad -----------------------------
(***************************************************************************)
(* Loading the proxy configuration at startup.                             *)
(*                                                                         *)
(*  - Config::find / find_config_file (src/config.rs): pick the path given *)
(*    on the command line, else $QUILKIN_CONFIG, else ./quilkin.yaml;      *)
(*    canonicalize it (`?`: fails when the file does not exist); read it,  *)
(*    and on a read error fall back, on unix, to /etc/quilkin/quilkin.yaml; *)
(*    then deserialize the YAML.                                           *)
(*  - Config::validate / Source::validate (src/config/mod.rs): for a       *)
(*    static source, EmptyList, then NotUnique on the addresses, then      *)
(*    ValueInvalid on the first endpoint whose metadata does not parse;    *)
(*    for a dynamic source the same three checks on management_servers,    *)
(*    the last one being that the address converts to a tonic Endpoint.   *)
(*                                                                         *)
(* The file system and the environment are the initial state; the bytes   *)
(* of the file read are chosen when it is parsed.  Addresses, metadata and *)
(* URLs are model values; whether metadata parses and whether a URL        *)
(* converts is a property of the value (the sets BadMetadata, BadUrls).    *)
(***************************************************************************)
EXTENDS Naturals, Sequences, FiniteSets

CONSTANTS
    Addrs,        \* endpoint socket addresses
    Metadata,     \* endpoint metadata values, "none" for an absent one
    BadMetadata,  \* the ones parse_endpoint_metadata_from_yaml rejects
    Urls,         \* management server addresses
    BadUrls,      \* the ones that do not convert to a tonic Endpoint
    MaxList,      \* bound on the length of endpoint and server lists
    Unix          \* cfg!(unix)

ASSUME ConfigLoadAssumption ==
    /\ BadMetadata \subseteq Metadata
    /\ BadUrls \subseteq Urls
    /\ MaxList \in Nat
    /\ Unix \in BOOLEAN

\* The places find_config_file may read: the argument, $QUILKIN_CONFIG,
\* ./quilkin.yaml and /etc/quilkin/quilkin.yaml.
Locations == {"arg", "env", "cwd", "etc"}

\* The sequences over S of length at most MaxList.
Lists(S) == UNION {[1 .. n -> S] : n \in 0 .. MaxList}

Endpoint == [address : Addrs, metadata : Metadata]
ManagementServer == [address : Urls]

\* The two variants of Source; a document that is not valid YAML for
\* Config is BadYaml.
Sources ==
    [kind : {"static"}, endpoints : Lists(Endpoint)] \cup
    [kind : {"dynamic"}, management_servers : Lists(ManagementServer)]
BadYaml == [kind |-> "bad_yaml"]
Documents == Sources \cup {BadYaml}

NoDoc == [kind |-> "none"]

\* Err(ValidationError) values, with the field name they carry.
Err(kind, field) == [err |-> kind, field |-> field]
Ok == [err |-> "ok", field |-> ""]
NoResult == [err |-> "none", field |-> ""]
IoError == [err |-> "io", field |-> ""]
YamlError == [err |-> "yaml", field |-> ""]

Unique(seq) == Cardinality({seq[i].address : i \in DOMAIN seq}) = Len(seq)

VARIABLES
    pathGiven,  \* Some(path) was passed
    envSet,     \* $QUILKIN_CONFIG is set
    exists,     \* exists[l]: the file at l exists (canonicalize succeeds)
    readable,   \* readable[l]: read_to_string(l) succeeds
    pc,         \* "find", "parse", "validate" or "done"
    loaded,     \* the location whose contents were read
    doc,        \* the deserialized Source
    result      \* the outcome of loading

vars == <<pathGiven, envSet, exists, readable, pc, loaded, doc, result>>

Init ==
    /\ pathGiven \in BOOLEAN
    /\ envSet \in BOOLEAN
    /\ exists \in [Locations -> BOOLEAN]
    /\ readable \in [Locations -> BOOLEAN]
    /\ \A l \in Locations : readable[l] => exists[l]
    /\ pc = "find"
    /\ loaded = "none"
    /\ doc = NoDoc
    /\ result = NoResult

\* The path find_config_file canonicalizes.
Chosen == IF pathGiven THEN "arg" ELSE IF envSet THEN "env" ELSE "cwd"

\* find_config_file.
FindConfigFile ==
    /\ pc = "find"
    /\ \/ /\ ~exists[Chosen]
          /\ pc' = "done" /\ result' = IoError
          /\ UNCHANGED loaded
       \/ /\ exists[Chosen] /\ readable[Chosen]
          /\ pc' = "parse" /\ loaded' = Chosen
          /\ UNCHANGED result
       \/ /\ exists[Chosen] /\ ~readable[Chosen]
          /\ IF Unix /\ readable["etc"]
             THEN pc' = "parse" /\ loaded' = "etc" /\ UNCHANGED result
             ELSE pc' = "done" /\ result' = IoError /\ UNCHANGED loaded
    /\ UNCHANGED <<pathGiven, envSet, exists, readable, doc>>

\* serde_yaml::from_str of the file's contents.
ParseConfig ==
    /\ pc = "parse"
    /\ \E d \in Documents :
          IF d = BadYaml
          THEN pc' = "done" /\ result' = YamlError /\ UNCHANGED doc
          ELSE pc' = "validate" /\ doc' = d /\ UNCHANGED result
    /\ UNCHANGED <<pathGiven, envSet, exists, readable, loaded>>

\* The checks of Source::validate on a source, in the order the code makes
\* them: each returns its error, or Ok when the code falls through to the
\* next one.  The static and dynamic arms differ only in the list checked,
\* the field names and what makes one entry invalid (metadata that does
\* not parse, an address that is not a URI).
EmptyCheck(src) ==
    IF src.kind = "static"
    THEN IF src.endpoints = <<>> THEN Err("EmptyList", "static.endpoints") ELSE Ok
    ELSE IF src.management_servers = <<>>
         THEN Err("EmptyList", "dynamic.management_servers") ELSE Ok

UniqueCheck(src) ==
    IF src.kind = "static"
    THEN IF ~Unique(src.endpoints)
         THEN Err("NotUnique", "static.endpoints.address") ELSE Ok
    ELSE IF ~Unique(src.management_servers)
         THEN Err("NotUnique", "dynamic.management_servers.address") ELSE Ok

EntryCheck(src) ==
    IF src.kind = "static"
    THEN IF \E i \in DOMAIN src.endpoints : src.endpoints[i].metadata \in BadMetadata
         THEN Err("ValueInvalid", "static.endpoints.metadata") ELSE Ok
    ELSE IF \E i \in DOMAIN src.management_servers :
               src.management_servers[i].address \in BadUrls
         THEN Err("ValueInvalid", "dynamic.management_servers.address") ELSE Ok

\* The result of the first check that returns an error, Ok when none does.
FirstError(checks) ==
    LET failing == {k \in DOMAIN checks : checks[k] # Ok}
    IN  IF failing = {} THEN Ok
        ELSE checks[CHOOSE k \in failing : \A j \in failing : k <= j]

\* Source::validate without its uniqueness check.
SourceValidateNoDedup(src) == FirstError(<<EmptyCheck(src), EntryCheck(src)>>)

\* Source::validate with the per-entry check made before the uniqueness one.
SourceValidateEntriesFirst(src) ==
    FirstError(<<EmptyCheck(src), EntryCheck(src), UniqueCheck(src)>>)

\* Source::validate.
SourceValidate(src) ==
    FirstError(<<EmptyCheck(src), UniqueCheck(src), EntryCheck(src)>>)

\* Config::validate.
Validate ==
    /\ pc = "validate"
    /\ pc' = "done"
    /\ result' = SourceValidate(doc)
    /\ UNCHANGED <<pathGiven, envSet, exists, readable, loaded, doc>>

Done == pc = "done" /\ UNCHANGED vars

Next == FindConfigFile \/ ParseConfig \/ Validate \/ Done

Spec == Init /\ [][Next]_vars

-----------------------------------------------------------------------------
\* The list a source is validated on: endpoints or management_servers.
Entries(src) ==
    IF src.kind = "static" THEN src.endpoints ELSE src.management_servers

\* A configuration that Config::validate accepts is one the rest of the
\* proxy can run on: its endpoint or management-server list is not empty
\* (AdsClient::run takes the next server modulo its length), its addresses
\* are pairwise distinct, and every metadata value parses and every
\* management address converts to a URI.
AcceptedSourceWellFormed ==
    result = Ok =>
        LET es == Entries(doc) IN
        /\ es # <<>>
        /\ \A i, j \in DOMAIN es : i # j => es[i].address # es[j].address
        /\ \A i \in DOMAIN es :
              IF doc.kind = "static" THEN es[i].metadata \notin BadMetadata
              ELSE es[i].address \notin BadUrls

\* Property 9 of the spec on Source::validate: an empty list is reported
\* as EmptyList naming the list of its own variant, and a non-empty list
\* with a repeated address as NotUnique naming that list's address field,
\* whatever else is wrong with the document.
ValidationErrorsAsSpecified ==
    (pc = "done" /\ doc # NoDoc) =>
        LET static == doc.kind = "static"
            list == IF static THEN "static.endpoints" ELSE "dynamic.management_servers"
            address == IF static THEN "static.endpoints.address"
                       ELSE "dynamic.management_servers.address"
        IN  /\ Entries(doc) = <<>> => result = Err("EmptyList", list)
            /\ (Entries(doc) # <<>> /\ ~Unique(Entries(doc)))
                  => result = Err("NotUnique", address)

\* The contract in the doc comment of Config::find: an error is returned
\* only if no configuration could be found at any location, i.e. neither
\* the selected path nor (on unix) /etc/quilkin/quilkin.yaml can be read.
IoErrorOnlyWhenNoneFound ==
    result = IoError => ~readable[Chosen] /\ ~(Unix /\ readable["etc"])
=============================================================================
