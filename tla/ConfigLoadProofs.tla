--------------------------- MODULE ConfigLoadProofs ---------------------------
(***************************************************************************)
(* Proofs about ConfigLoad: Source::validate reports an empty list and a   *)
(* repeated address with the errors the spec gives them, for every value  *)
(* of the constants.                                                       *)
(***************************************************************************)
EXTENDS ConfigLoad, FiniteSetTheorems, TLAPS

-----------------------------------------------------------------------------
(* FirstError on three checks: the first one that holds decides.          *)

\* When the first check returns an error, that error is the result.
LEMMA FirstErrorFirst ==
    ASSUME NEW a, NEW b, NEW c, a # Ok
    PROVE  FirstError(<<a, b, c>>) = a
<1> DEFINE chk == <<a, b, c>>
           failing == {k \in DOMAIN chk : chk[k] # Ok}
           first == CHOOSE k \in failing : \A j \in failing : k <= j
<1>1. 1 \in failing /\ failing \subseteq 1 .. 3
  OBVIOUS
<1>2. first \in failing /\ \A j \in failing : first <= j
  BY <1>1
<1>3. first = 1
  BY <1>1, <1>2
<1> QED
  BY <1>1, <1>3 DEF FirstError

\* When the first check falls through and the second returns an error, the
\* second's error is the result.
LEMMA FirstErrorSecond ==
    ASSUME NEW a, NEW b, NEW c, a = Ok, b # Ok
    PROVE  FirstError(<<a, b, c>>) = b
<1> DEFINE chk == <<a, b, c>>
           failing == {k \in DOMAIN chk : chk[k] # Ok}
           first == CHOOSE k \in failing : \A j \in failing : k <= j
<1>1. 2 \in failing /\ 1 \notin failing /\ failing \subseteq 2 .. 3
  OBVIOUS
<1>2. first \in failing /\ \A j \in failing : first <= j
  BY <1>1
<1>3. first = 2
  BY <1>1, <1>2
<1> QED
  BY <1>1, <1>3 DEF FirstError

-----------------------------------------------------------------------------
(* What Source::validate reports for an empty and for a repeated list.    *)

\* Source::validate returns EmptyList for an empty list and NotUnique for a
\* non-empty list with a repeated address, naming the list of the source's
\* own variant.
LEMMA ValidateErrors ==
    ASSUME NEW src \in Sources
    PROVE  LET static == src.kind = "static"
               list == IF static THEN "static.endpoints" ELSE "dynamic.management_servers"
               address == IF static THEN "static.endpoints.address"
                          ELSE "dynamic.management_servers.address"
           IN  /\ Entries(src) = <<>> => SourceValidate(src) = Err("EmptyList", list)
               /\ (Entries(src) # <<>> /\ ~Unique(Entries(src)))
                     => SourceValidate(src) = Err("NotUnique", address)
<1>1. CASE src.kind = "static"
  <2>1. Entries(src) = src.endpoints
    BY <1>1 DEF Entries
  <2>2. src.endpoints = <<>> => SourceValidate(src) = Err("EmptyList", "static.endpoints")
    <3>1. HAVE src.endpoints = <<>>
    <3>2. EmptyCheck(src) = Err("EmptyList", "static.endpoints")
      BY <1>1, <3>1 DEF EmptyCheck
    <3>3. Err("EmptyList", "static.endpoints") # Ok
      BY DEF Err, Ok
    <3> QED
      BY <3>2, <3>3, FirstErrorFirst DEF SourceValidate
  <2>3. (src.endpoints # <<>> /\ ~Unique(src.endpoints))
           => SourceValidate(src) = Err("NotUnique", "static.endpoints.address")
    <3>1. HAVE src.endpoints # <<>> /\ ~Unique(src.endpoints)
    <3>2. EmptyCheck(src) = Ok
      BY <1>1, <3>1 DEF EmptyCheck
    <3>3. UniqueCheck(src) = Err("NotUnique", "static.endpoints.address")
      BY <1>1, <3>1 DEF UniqueCheck
    <3>4. Err("NotUnique", "static.endpoints.address") # Ok
      BY DEF Err, Ok
    <3> QED
      BY <3>2, <3>3, <3>4, FirstErrorSecond DEF SourceValidate
  <2> QED
    BY <1>1, <2>1, <2>2, <2>3
<1>2. CASE src.kind = "dynamic"
  <2>1. Entries(src) = src.management_servers
    BY <1>2 DEF Entries
  <2>2. src.management_servers = <<>> => SourceValidate(src) = Err("EmptyList", "dynamic.management_servers")
    <3>1. HAVE src.management_servers = <<>>
    <3>2. EmptyCheck(src) = Err("EmptyList", "dynamic.management_servers")
      BY <1>2, <3>1 DEF EmptyCheck
    <3>3. Err("EmptyList", "dynamic.management_servers") # Ok
      BY DEF Err, Ok
    <3> QED
      BY <3>2, <3>3, FirstErrorFirst DEF SourceValidate
  <2>3. (src.management_servers # <<>> /\ ~Unique(src.management_servers))
           => SourceValidate(src) = Err("NotUnique", "dynamic.management_servers.address")
    <3>1. HAVE src.management_servers # <<>> /\ ~Unique(src.management_servers)
    <3>2. EmptyCheck(src) = Ok
      BY <1>2, <3>1 DEF EmptyCheck
    <3>3. UniqueCheck(src) = Err("NotUnique", "dynamic.management_servers.address")
      BY <1>2, <3>1 DEF UniqueCheck
    <3>4. Err("NotUnique", "dynamic.management_servers.address") # Ok
      BY DEF Err, Ok
    <3> QED
      BY <3>2, <3>3, <3>4, FirstErrorSecond DEF SourceValidate
  <2> QED
    BY <1>2, <2>1, <2>2, <2>3
<1> QED
  BY <1>1, <1>2 DEF Sources
-----------------------------------------------------------------------------
(* The invariant: a finished load that read a document holds what          *)
(* Source::validate returned for it.                                       *)

IInv ==
    /\ pc \in {"find", "parse", "validate", "done"}
    /\ doc \in Sources \cup {NoDoc}
    /\ pc \in {"find", "parse"} => doc = NoDoc
    /\ pc = "validate" => doc \in Sources
    /\ (pc = "done" /\ doc # NoDoc) => result = SourceValidate(doc)
    /\ doc = NoDoc => result \in {NoResult, IoError, YamlError}
    /\ pc # "done" => result = NoResult

\* A source document is never the NoDoc placeholder.
LEMMA SourceNotNoDoc ==
    ASSUME NEW src \in Sources
    PROVE  src # NoDoc
BY DEF Sources, NoDoc

LEMMA IInvInit == Init => IInv
BY DEF Init, IInv

LEMMA IInvStep == IInv /\ [Next]_vars => IInv'
<1> SUFFICES ASSUME IInv, [Next]_vars PROVE IInv'
  OBVIOUS
<1>1. CASE FindConfigFile
  BY <1>1 DEF FindConfigFile, IInv
<1>2. CASE ParseConfig
  BY <1>2, SourceNotNoDoc DEF ParseConfig, IInv, Documents
<1>3. CASE Validate
  <2>1. doc \in Sources
    BY <1>3 DEF Validate, IInv
  <2>2. doc # NoDoc
    BY <2>1, SourceNotNoDoc
  <2> QED
    BY <1>3, <2>1, <2>2 DEF Validate, IInv
<1>4. CASE Done \/ UNCHANGED vars
  BY <1>4 DEF Done, vars, IInv
<1> QED
  BY <1>1, <1>2, <1>3, <1>4 DEF Next

\* Spec property 9, ValidationErrorsAsSpecified, for every value of the
\* constants: Config::find followed by Config::validate reports an empty
\* list as EmptyList and a repeated address as NotUnique, naming the list
\* of the source's variant.
THEOREM ValidationErrors == Spec => []ValidationErrorsAsSpecified
<1>1. IInv => ValidationErrorsAsSpecified
  <2> SUFFICES ASSUME IInv, pc = "done", doc # NoDoc
               PROVE  ValidationErrorsAsSpecified
    BY DEF ValidationErrorsAsSpecified
  <2>1. doc \in Sources /\ result = SourceValidate(doc)
    BY DEF IInv
  <2> QED
    BY <2>1, ValidateErrors DEF ValidationErrorsAsSpecified
<1> QED
  BY <1>1, IInvInit, IInvStep, PTL DEF Spec

-----------------------------------------------------------------------------
(* What an accepted source satisfies.                                     *)

\* FirstError returns Ok only when every check falls through.
LEMMA FirstErrorOk ==
    ASSUME NEW a, NEW b, NEW c, FirstError(<<a, b, c>>) = Ok
    PROVE  a = Ok /\ b = Ok /\ c = Ok
<1> DEFINE chk == <<a, b, c>>
           failing == {k \in DOMAIN chk : chk[k] # Ok}
           first == CHOOSE k \in failing : \A j \in failing : k <= j
<1>1. SUFFICES ASSUME failing # {} PROVE FALSE
  OBVIOUS
<1>2. \E k \in failing : \A j \in failing : k <= j
  BY <1>1
<1>3. first \in failing
  BY <1>2
<1> QED
  BY <1>1, <1>3 DEF FirstError

\* A list whose set of addresses is as large as the list itself has no
\* repeated address: the map from positions to addresses is onto that set,
\* and onto a set of the same size means one to one.
LEMMA UniqueDistinct ==
    ASSUME NEW S, NEW es \in Lists(S), Unique(es)
    PROVE  \A i, j \in DOMAIN es : i # j => es[i].address # es[j].address
<1>1. PICK n \in 0 .. MaxList : es \in [1 .. n -> S]
  BY DEF Lists
<1> DEFINE T == {es[i].address : i \in DOMAIN es}
           f == [i \in 1 .. n |-> es[i].address]
<1>2. n \in Nat /\ DOMAIN es = 1 .. n /\ Len(es) = n
  BY <1>1, ConfigLoadAssumption
<1>3. IsFiniteSet(1 .. n) /\ Cardinality(1 .. n) = n
  BY <1>2, FS_Interval
<1>4. Cardinality(T) = n
  BY <1>2 DEF Unique
<1>5. f \in Surjection(1 .. n, T)
  BY <1>2 DEF Surjection
<1>6. f \in Injection(1 .. n, T)
  BY <1>3, <1>4, <1>5, FS_Surjection
<1> QED
  BY <1>2, <1>6 DEF Injection, IsInjective

\* Source::validate accepts a source only when its list is not empty, has
\* no repeated address, and every entry passes its own check.
LEMMA AcceptedSource ==
    ASSUME NEW src \in Sources, SourceValidate(src) = Ok
    PROVE  LET es == Entries(src) IN
           /\ es # <<>>
           /\ \A i, j \in DOMAIN es : i # j => es[i].address # es[j].address
           /\ \A i \in DOMAIN es :
                 IF src.kind = "static" THEN es[i].metadata \notin BadMetadata
                 ELSE es[i].address \notin BadUrls
<1>1. EmptyCheck(src) = Ok /\ UniqueCheck(src) = Ok /\ EntryCheck(src) = Ok
  BY FirstErrorOk DEF SourceValidate
<1>2. Err("EmptyList", "static.endpoints") # Ok
      /\ Err("EmptyList", "dynamic.management_servers") # Ok
      /\ Err("NotUnique", "static.endpoints.address") # Ok
      /\ Err("NotUnique", "dynamic.management_servers.address") # Ok
      /\ Err("ValueInvalid", "static.endpoints.metadata") # Ok
      /\ Err("ValueInvalid", "dynamic.management_servers.address") # Ok
  BY DEF Err, Ok
<1>3. CASE src.kind = "static"
  <2>1. src.endpoints \in Lists(Endpoint)
    BY <1>3 DEF Sources
  <2>2. src.endpoints # <<>> /\ Unique(src.endpoints)
        /\ \A i \in DOMAIN src.endpoints : src.endpoints[i].metadata \notin BadMetadata
    BY <1>1, <1>2, <1>3 DEF EmptyCheck, UniqueCheck, EntryCheck
  <2> QED
    BY <1>3, <2>1, <2>2, UniqueDistinct DEF Entries
<1>4. CASE src.kind # "static"
  <2>1. src.kind = "dynamic" /\ src.management_servers \in Lists(ManagementServer)
    BY <1>4 DEF Sources
  <2>2. src.management_servers # <<>> /\ Unique(src.management_servers)
        /\ \A i \in DOMAIN src.management_servers :
              src.management_servers[i].address \notin BadUrls
    BY <1>1, <1>2, <1>4 DEF EmptyCheck, UniqueCheck, EntryCheck
  <2> QED
    BY <1>4, <2>1, <2>2, UniqueDistinct DEF Entries
<1> QED
  BY <1>3, <1>4

\* AcceptedSourceWellFormed for every value of the constants: a
\* configuration that Config::find loads and Config::validate accepts has a
\* non-empty endpoint or management-server list with pairwise distinct
\* addresses, and every metadata value and management address in it is
\* valid, so AdsClient::run and the proxy can use it.
THEOREM AcceptedWellFormed == Spec => []AcceptedSourceWellFormed
<1>1. IInv => AcceptedSourceWellFormed
  <2> SUFFICES ASSUME IInv, result = Ok PROVE AcceptedSourceWellFormed
    BY DEF AcceptedSourceWellFormed
  <2>1. doc # NoDoc
    BY DEF IInv, NoResult, IoError, YamlError, Ok
  <2>2. pc = "done"
    BY DEF IInv, NoResult, Ok
  <2>3. doc \in Sources /\ SourceValidate(doc) = Ok
    BY <2>1, <2>2 DEF IInv
  <2> QED
    BY <2>3, AcceptedSource DEF AcceptedSourceWellFormed
<1> QED
  BY <1>1, IInvInit, IInvStep, PTL DEF Spec

=============================================================================
