--------------------------- MODULE TestsuiteProofs ---------------------------
(* Proofs about the testsuite loader model Testsuite.                      *)
EXTENDS Testsuite, TLAPS

\* The documents from_yaml can be given: one to MaxDocs of them.
DocLists == UNION {[1 .. n -> DocKinds] : n \in 1 .. MaxDocs}

\* The inductive invariant: the target file never changes, and once a file
\* has been decoded its documents are a list from_yaml was given and the
\* result is what from_yaml returned on them.
TSInv ==
    /\ pathFile \in FileStates
    /\ docs # << >> => /\ pc = "done"
                       /\ docs \in DocLists
                       /\ result = TestsuiteFromYaml(docs)

\* What from_yaml returns on a list of documents: Ok exactly on the two
\* shapes its doc comment calls valid.
LEMMA FromYamlOk ==
    ASSUME NEW ds \in DocLists, pathFile \in FileStates
    PROVE  TestsuiteFromYaml(ds) = Ok <=>
             \/ Len(ds) >= 2 /\ ds[1] = "config" /\ ds[2] \in TestConfigDocs
             \/ ds = <<"testConfig">> /\ pathFile = "config"
<1>1. PICK n \in 1 .. MaxDocs : ds \in [1 .. n -> DocKinds]
  BY DEF DocLists
<1>2. Len(ds) = n /\ ds[1] \in DocKinds
  BY <1>1, TestsuiteAssumption
<1>3. ds = <<"testConfig">> <=> (n = 1 /\ ds[1] = "testConfig")
  BY <1>1, TestsuiteAssumption
<1>4. CASE Len(ds) = 1 /\ ds[1] \in TestConfigDocs
  BY <1>2, <1>3, <1>4
  DEF TestsuiteFromYaml, TestConfigDocs, FileStates, DecodeError, Ok,
      IoError, YamlError
<1>5. CASE ~(Len(ds) = 1 /\ ds[1] \in TestConfigDocs) /\ n = 1
  <2>1. ds[1] \in {"config", "other"} /\ Len(ds) = 1
    BY <1>2, <1>5 DEF DocKinds, TestConfigDocs
  <2>2. TestsuiteFromYaml(ds) \in {YamlError, DecodeError("MissingTestOptions")}
    BY <2>1 DEF TestsuiteFromYaml, TestConfigDocs
  <2>3. YamlError # Ok /\ DecodeError("MissingTestOptions") # Ok
    BY DEF DecodeError, Ok, YamlError
  <2>4. TestsuiteFromYaml(ds) # Ok
    BY <2>2, <2>3
  <2> QED
    BY <1>3, <1>5, <2>1, <2>4
<1>6. CASE n >= 2
  <2>1. ds[2] \in DocKinds /\ Len(ds) >= 2 /\ ds # <<"testConfig">>
    BY <1>1, <1>2, <1>3, <1>6
  <2>2. CASE ds[1] = "config" /\ ds[2] \in TestConfigDocs
    <3>1. TestsuiteFromYaml(ds) = Ok
      BY <2>1, <2>2 DEF TestsuiteFromYaml, TestConfigDocs
    <3> QED
      BY <2>1, <2>2, <3>1
  <2>3. CASE ~(ds[1] = "config" /\ ds[2] \in TestConfigDocs)
    <3>1. TestsuiteFromYaml(ds) = YamlError
      BY <2>1, <2>3 DEF TestsuiteFromYaml
    <3>2. YamlError # Ok
      BY DEF YamlError, Ok
    <3> QED
      BY <2>1, <2>3, <3>1, <3>2
  <2> QED
    BY <2>2, <2>3
<1> QED
  BY <1>1, <1>4, <1>5, <1>6

LEMMA TSInvInit == TSInit => TSInv
  BY DEF TSInit, TSInv

LEMMA TSInvStep == TSInv /\ [TSNext]_tsVars => TSInv'
<1> SUFFICES ASSUME TSInv, [TSNext]_tsVars PROVE TSInv'
  OBVIOUS
<1>1. CASE TestsuiteFind
  <2>1. docs = << >> /\ docs' = << >> /\ pathFile' = pathFile
    BY <1>1 DEF TestsuiteFind, FindConfigFile, TSInv
  <2> QED
    BY <2>1 DEF TSInv
<1>2. CASE FromYaml
  BY <1>2 DEF FromYaml, TSInv, DocLists, TestsuiteFromYaml
<1>3. CASE Done /\ UNCHANGED <<docs, pathFile>>
  BY <1>3 DEF Done, vars, TSInv, TestsuiteFromYaml
<1>4. CASE UNCHANGED tsVars
  BY <1>4 DEF tsVars, vars, TSInv, TestsuiteFromYaml
<1> QED
  BY <1>1, <1>2, <1>3, <1>4 DEF TSNext

\* The doc comment of Testsuite::from_yaml, for every bound on the number of
\* documents: once Testsuite::find has decoded a file, the testsuite is
\* loaded exactly when the file is a Config document followed by a
\* TestConfig one, or a lone TestConfig whose `config` key names a file
\* holding a Config.
THEOREM TestsuiteDocumented == TSSpec => []TestsuiteAsDocumented
<1>1. TSInv => TestsuiteAsDocumented
  BY FromYamlOk DEF TSInv, TestsuiteAsDocumented, Documented
<1> QED
  BY <1>1, TSInvInit, TSInvStep, PTL DEF TSSpec
=============================================================================
