------------------------------ MODULE Testsuite ------------------------------
(***************************************************************************)
(* Loading a testsuite: Testsuite::find and Testsuite::from_yaml of        *)
(* src/config.rs.  find locates and reads the file exactly as Config::find *)
(* does (find_config_file, modelled in ConfigLoad) and decodes it with     *)
(* from_yaml, which first tries the whole text as one TestConfig document  *)
(* (serde_yaml::from_str refuses a text of several documents) and, if that *)
(* fails, reads it as a Config document followed by a TestConfig one.      *)
(*                                                                         *)
(* A YAML document is abstracted to what it deserializes as.  A Config     *)
(* document is never a TestConfig one (it has no `tests` key) and a        *)
(* TestConfig document is never a Config one (Config denies unknown        *)
(* fields).  An empty file is left out.                                    *)
(***************************************************************************)
EXTENDS ConfigLoad

CONSTANT MaxDocs   \* bound on the number of documents in the file

ASSUME TestsuiteAssumption == MaxDocs \in Nat \ {0}

\* TestConfig with and without its `config` path, Config, and anything else.
TestConfigDocs == {"testConfig", "testConfigNoPath"}
DocKinds == TestConfigDocs \cup {"config", "other"}

\* What the file named by a TestConfig's `config` key holds.
FileStates == {"missing", "config", "other"}

\* The TestsuiteDecodeError variants other than io and YAML errors.
DecodeError(kind) == [err |-> kind, field |-> ""]

VARIABLES
    docs,      \* the documents of the file read
    pathFile   \* the file the `config` key points to

tsVars == <<vars, docs, pathFile>>

TSInit ==
    /\ Init
    /\ docs = << >>
    /\ pathFile \in FileStates

\* from_yaml falling back to default test options when no second document
\* follows the Config one.
TestsuiteFromYamlDefaultOptions(ds) ==
    IF Len(ds) = 1 /\ ds[1] \in TestConfigDocs
    THEN IF ds[1] = "testConfigNoPath" THEN DecodeError("MissingConfigInTestOptions")
         ELSE IF pathFile = "missing" THEN IoError
         ELSE IF pathFile = "other" THEN YamlError
         ELSE Ok
    ELSE IF ds[1] # "config" THEN YamlError
    ELSE IF Len(ds) < 2 THEN Ok
    ELSE IF ds[2] \notin TestConfigDocs THEN YamlError
    ELSE Ok

\* Testsuite::from_yaml on the documents ds.
TestsuiteFromYaml(ds) ==
    IF Len(ds) = 1 /\ ds[1] \in TestConfigDocs
    THEN IF ds[1] = "testConfigNoPath" THEN DecodeError("MissingConfigInTestOptions")
         ELSE IF pathFile = "missing" THEN IoError
         ELSE IF pathFile = "other" THEN YamlError
         ELSE Ok
    ELSE IF ds[1] # "config" THEN YamlError
    ELSE IF Len(ds) < 2 THEN DecodeError("MissingTestOptions")
    ELSE IF ds[2] \notin TestConfigDocs THEN YamlError
    ELSE Ok

\* Testsuite::find, first half: find_config_file.
TestsuiteFind ==
    /\ FindConfigFile
    /\ UNCHANGED <<docs, pathFile>>

\* Testsuite::find, second half: from_yaml on the text read.
FromYaml ==
    /\ pc = "parse"
    /\ \E ds \in UNION {[1 .. n -> DocKinds] : n \in 1 .. MaxDocs} :
          /\ docs' = ds
          /\ result' = TestsuiteFromYaml(ds)
    /\ pc' = "done"
    /\ UNCHANGED <<pathGiven, envSet, exists, readable, loaded, doc, pathFile>>

TSNext == TestsuiteFind \/ FromYaml \/ (Done /\ UNCHANGED <<docs, pathFile>>)

TSSpec == TSInit /\ [][TSNext]_tsVars

-----------------------------------------------------------------------------
\* The inputs the doc comment of from_yaml calls valid: a Config document
\* followed by a TestConfig document, or one TestConfig document whose
\* `config` key names a file holding a Config.
Documented ==
    \/ Len(docs) >= 2 /\ docs[1] = "config" /\ docs[2] \in TestConfigDocs
    \/ docs = <<"testConfig">> /\ pathFile = "config"

\* The doc comment of Testsuite::from_yaml: once a file is decoded, the
\* testsuite is loaded exactly when the file has one of the two documented
\* shapes; a lone Config document, a TestConfig without a path, or a
\* TestConfig followed by anything else is an error.
TestsuiteAsDocumented ==
    (pc = "done" /\ docs # << >>) => (result = Ok <=> Documented)
=============================================================================
