----------------------- MODULE ProjectDocument_proofs -----------------------
(***************************************************************************)
(* What the checks of a project promise, for any set of documents: the     *)
(* publish that begins after all of them is not refused, and a publish     *)
(* that nothing disturbs reaches the remote part only with a project that  *)
(* the preflight would have accepted, but for what it alone judges.        *)
(***************************************************************************)
EXTENDS ProjectDocument, TLAPS

USE DEF HostingConfigured, CredentialsChange, Noop

\* A check that is in `passed` holds of the present state.
PassedHold ==
    /\ "validate" \in passed => Validates(document)
    /\ "preflight" \in passed => Ready(document)
    /\ "dry run" \in passed => Plans(document)

\* Nothing passes while the document is being written.
NoneWhileWriting ==
    writing # Unreadable => document = Unreadable

\* A publish that is trusted has read the present document each time.
TrustedReads ==
    trusted =>
        /\ Validates(document) /\ Ready(document) /\ Plans(document)
        /\ pc \in {"read", "configure", "resolve", "build", "plan",
                   "integrate", "done", "failed"}
        /\ pc = "configure" => first = document
        /\ pc \in {"resolve", "build", "plan"} => configuration = document
        /\ pc \in {"build", "plan"} => version = 2

\* The configuration comes from load_project_v2.
Configured ==
    /\ configuration # Unreadable => LoadsV2(configuration)
    /\ pc = "integrate" => configuration # Unreadable /\ version = 2
    /\ pc = "plan" => version = 2

DocumentInv ==
    TypeOK /\ PassedHold /\ NoneWhileWriting /\ TrustedReads /\ Configured

\* What a publish has found holds as long as nothing disturbs it.
SteadyReads ==
    steady =>
        /\ pc = "configure" => first = document
        /\ pc \in {"resolve", "build", "plan", "integrate"}
              /\ configuration # Unreadable =>
                 /\ configuration = document
                 /\ Supported(document) /\ ProvidersBuild(document)
                 /\ credentials
        /\ pc \in {"build", "plan", "integrate"} => Validates(document)
        /\ pc = "integrate" => TemplateLoads(configuration)

-----------------------------------------------------------------------------
(* What the checks say of a document.                                      *)

LEMMA KindsOf ==
  ASSUME NEW d \in Document
  PROVE  /\ d.version \in {1, 2}
         /\ d.repositoryProvider \in {"other", "good"}
         /\ d.hostingProvider \in {"other", "good"}
         /\ d.previewProvider \in {"other", "good"}
         /\ d.highProvider \in {"other", "good"}
         /\ d.bucket \in {"absent", "empty", "blank", "good"}
         /\ d.repository \in {"bad", "half", "good"}
         /\ d.accountId \in {"absent", "blank", "good"}
         /\ d.domain \in {"absent", "bad", "good"}
<1>1. \A f \in DOMAIN Kinds : d[f] \in Kinds[f]
  BY DocumentAssumption
<1>2. /\ "version" \in DOMAIN Kinds /\ Kinds["version"] = {1, 2}
      /\ \A f \in {"repositoryProvider", "hostingProvider",
                   "previewProvider", "highProvider"} :
            f \in DOMAIN Kinds /\ Kinds[f] = {"other", "good"}
      /\ "bucket" \in DOMAIN Kinds
      /\ Kinds["bucket"] = {"absent", "empty", "blank", "good"}
      /\ "repository" \in DOMAIN Kinds
      /\ Kinds["repository"] = {"bad", "half", "good"}
      /\ "accountId" \in DOMAIN Kinds
      /\ Kinds["accountId"] = {"absent", "blank", "good"}
      /\ "domain" \in DOMAIN Kinds
      /\ Kinds["domain"] = {"absent", "bad", "good"}
  BY DEF Kinds
<1>3. /\ d["version"] \in {1, 2}
      /\ d["repositoryProvider"] \in {"other", "good"}
      /\ d["hostingProvider"] \in {"other", "good"}
      /\ d["previewProvider"] \in {"other", "good"}
      /\ d["highProvider"] \in {"other", "good"}
      /\ d["bucket"] \in {"absent", "empty", "blank", "good"}
      /\ d["repository"] \in {"bad", "half", "good"}
      /\ d["accountId"] \in {"absent", "blank", "good"}
      /\ d["domain"] \in {"absent", "bad", "good"}
  BY <1>1, <1>2
<1>4. QED BY <1>3

\* A document of version 2 that the preflight has no issue with has providers
\* that are supported, and values that their constructors take.
LEMMA ReadyBuilds ==
  ASSUME NEW d \in Document, Ready(d), d.version = 2
  PROVE  Supported(d) /\ ProvidersBuild(d) /\ credentials
<1>1. /\ "credentials" \notin PreflightIssues(d)
      /\ \A f \in {"repositoryProvider", "repository", "hostingProvider",
                   "previewProvider", "highProvider", "bucket"} :
            f \notin ConfigurationIssues(d)
  BY DEF Ready, PreflightIssues
<1>2. credentials
  BY <1>1 DEF PreflightIssues
<1>3. d.repositoryProvider # "other" /\ d.repository = "good"
  BY <1>1 DEF ConfigurationIssues, RepositoryIssues
<1>4. d.hostingProvider # "other"
  BY <1>1 DEF ConfigurationIssues, HostingIssues
<1>5. d.previewProvider # "other"
  BY <1>1 DEF ConfigurationIssues, PreviewIssues
<1>6. d.highProvider # "other" /\ d.bucket \notin Blank
  BY <1>1 DEF ConfigurationIssues, HighResolutionIssues
<1>7. QED
  BY <1>2, <1>3, <1>4, <1>5, <1>6, KindsOf
  DEF Supported, ProvidersBuild, Blank

\* Of what a publication has taken, the preflight objects only to what the
\* publication overlooks.
LEMMA TakenIsReady ==
  ASSUME NEW d \in Document, LoadsV2(d), Validates(d), TemplateLoads(d),
         Supported(d), ProvidersBuild(d), credentials
  PROVE  PreflightIssues(d) \subseteq Overlooked(d)
<1>1. SourceIssues(d) \subseteq Overlooked(d)
  BY DEF SourceIssues, Validates, SourceResolves, SourceIsDir, Overlooked
<1>2. DomainIssues(d) \subseteq Overlooked(d)
  BY DEF DomainIssues, Overlooked
<1>3. RepositoryIssues(d) \subseteq Overlooked(d)
  BY DEF RepositoryIssues, Supported, ProvidersBuild, Overlooked
<1>4. HostingIssues(d) = {}
  BY DEF HostingIssues, LoadsV2, Supported, Blank
<1>5. PreviewIssues(d) = {}
  BY DEF PreviewIssues, LoadsV2, Supported, UrlIsPublic
<1>6. HighResolutionIssues(d) \subseteq Overlooked(d)
  <2>1. d.accountId # "absent"
    BY DEF LoadsV2, Loads, SchemaValid, RequiredByV2
  <2>2. d.accountId \in Blank => d.accountId = "blank"
    BY <2>1, KindsOf DEF Blank
  <2>3. d.bucket \in Blank => d.bucket = "blank"
    BY DEF ProvidersBuild, Blank
  <2>4. d.highProvider = "good" /\ UrlIsPublic(d.highUrl)
    BY DEF Supported, LoadsV2
  <2>5. HighResolutionIssues(d) =
          {f \in {"accountId", "bucket"} : d[f] \in Blank}
    BY <2>4 DEF HighResolutionIssues
  <2>6. QED BY <2>2, <2>3, <2>5 DEF Overlooked
<1>7. ConfigurationIssues(d) \subseteq Overlooked(d)
  BY <1>1, <1>2, <1>3, <1>4, <1>5, <1>6 DEF ConfigurationIssues
<1>8. {f \in {"source"} : d.source = "path" /\ ~sourceThere} = {}
  BY DEF Validates, SourceIsDir
<1>9. /\ d.version = 2
      /\ {f \in {"bundlePath"} : /\ d[f] \notin {"absent", "blank"}
                                 /\ ~TemplateLoads(d)} = {}
      /\ {f \in {"credentials"} : ~credentials} = {}
  BY DEF LoadsV2
<1>10. QED BY <1>7, <1>8, <1>9 DEF PreflightIssues

-----------------------------------------------------------------------------
(* The steps.                                                              *)

LEMMA InitDocument == Init => DocumentInv
<1> SUFFICES ASSUME Init PROVE DocumentInv
  OBVIOUS
<1>1. TypeOK
  BY DEF Init, TypeOK, PublishOK
<1>2. PassedHold /\ NoneWhileWriting /\ TrustedReads /\ Configured
  BY DEF Init, PassedHold, NoneWhileWriting, TrustedReads, Configured
<1>3. QED BY <1>1, <1>2 DEF DocumentInv

\* A check.
LEMMA CheckStep ==
  ASSUME DocumentInv, Validate \/ Preflight \/ DryRun
  PROVE  DocumentInv'
<1> USE DEF DocumentInv
<1>1. /\ document' = document /\ writing' = writing /\ local' = local
      /\ sourceThere' = sourceThere /\ templateThere' = templateThere
      /\ credentials' = credentials
      /\ pc' = pc /\ shell' = shell /\ first' = first
      /\ configuration' = configuration /\ version' = version
      /\ steady' = steady /\ trusted' = trusted
      /\ \E name \in {"validate", "preflight", "dry run"} :
            passed' = passed \cup {name}
  BY DEF Validate, Preflight, DryRun, Check, environment, publish
<1>2. /\ Validates(document)' = Validates(document)
      /\ Ready(document)' = Ready(document)
      /\ Plans(document)' = Plans(document)
  BY <1>1
  DEF environment, Validates, SourceIsDir, Ready, PreflightIssues, Plans,
      TemplateLoads
<1>3. TypeOK'
  <2>1. passed' \subseteq {"validate", "preflight", "dry run"}
    BY <1>1 DEF TypeOK
  <2>2. PublishOK'
    BY <1>1 DEF TypeOK, PublishOK
  <2>3. QED BY <1>1, <2>1, <2>2 DEF TypeOK
<1>4. PassedHold'
  <2>1. CASE Validate
    BY <1>2, <2>1 DEF Validate, Check, PassedHold
  <2>2. CASE Preflight
    BY <1>2, <2>2 DEF Preflight, Check, PassedHold
  <2>3. CASE DryRun
    BY <1>2, <2>3 DEF DryRun, Check, PassedHold
  <2>4. QED BY <2>1, <2>2, <2>3
<1>5. NoneWhileWriting'
  BY <1>1 DEF NoneWhileWriting
<1>6. TrustedReads'
  BY <1>1, <1>2 DEF TrustedReads, publish
<1>7. Configured'
  BY <1>1 DEF Configured, publish
<1>8. QED BY <1>3, <1>4, <1>5, <1>6, <1>7

\* While the document and the folders stay, what was found stays.
LEMMA FactsKept ==
  ASSUME document' = document, sourceThere' = sourceThere,
         templateThere' = templateThere, credentials' = credentials,
         local' = local \/ local' = TRUE
  PROVE  /\ Validates(document)' = Validates(document)
         /\ Ready(document)' = Ready(document)
         /\ Plans(document) => Plans(document)'
BY DEF Validates, SourceIsDir, Ready, PreflightIssues, Plans, TemplateLoads

LEMMA PrepareStep ==
  ASSUME DocumentInv, PrepareLocal
  PROVE  DocumentInv'
<1> USE DEF DocumentInv
<1>1. /\ document' = document /\ writing' = writing /\ local' = TRUE
      /\ sourceThere' = sourceThere /\ templateThere' = templateThere
      /\ credentials' = credentials /\ passed' = passed
      /\ pc' = pc /\ shell' = shell /\ first' = first
      /\ configuration' = configuration /\ version' = version
      /\ steady' = steady /\ trusted' = trusted
  BY DEF PrepareLocal, environment, publish
<1>2. TypeOK'
  <2>1. PublishOK'
    BY <1>1 DEF TypeOK, PublishOK
  <2>2. QED BY <1>1, <2>1 DEF TypeOK
<1>3. QED
  BY <1>1, <1>2, FactsKept
  DEF PassedHold, NoneWhileWriting, TrustedReads, Configured

\* What disturbs takes every promise back.
LEMMA DisturbStep ==
  ASSUME DocumentInv, BeginSetup \/ EditDocument \/ EnvironmentChanges
  PROVE  DocumentInv'
<1> USE DEF DocumentInv
<1>1. /\ passed' = {} /\ steady' = FALSE /\ trusted' = FALSE
      /\ pc' = pc /\ shell' = shell /\ first' = first
      /\ configuration' = configuration /\ version' = version
      /\ local' = local
  BY DEF BeginSetup, EditDocument, EnvironmentChanges, Disturbs
<1>2. PublishOK'
  BY <1>1 DEF TypeOK, PublishOK
<1>3. CASE BeginSetup
  <2>1. /\ document' = Unreadable /\ writing' \in Document
        /\ sourceThere' = sourceThere /\ templateThere' = templateThere
        /\ credentials' = credentials
    BY <1>3 DEF BeginSetup, environment
  <2>2. TypeOK' /\ NoneWhileWriting'
    BY <1>1, <1>2, <2>1 DEF TypeOK, NoneWhileWriting
  <2>3. QED BY <1>1, <2>2 DEF PassedHold, TrustedReads, Configured
<1>4. CASE EditDocument
  <2>1. /\ document' \in Document /\ writing' = Unreadable
        /\ sourceThere' = sourceThere /\ templateThere' = templateThere
        /\ credentials' = credentials
    BY <1>4 DEF EditDocument, environment
  <2>2. TypeOK' /\ NoneWhileWriting'
    BY <1>1, <1>2, <2>1 DEF TypeOK, NoneWhileWriting
  <2>3. QED BY <1>1, <2>2 DEF PassedHold, TrustedReads, Configured
<1>5. CASE EnvironmentChanges
  <2>1. /\ document' = document /\ writing' = writing
        /\ sourceThere' \in BOOLEAN /\ templateThere' \in BOOLEAN
        /\ credentials' \in BOOLEAN
    BY <1>5 DEF EnvironmentChanges, TypeOK
  <2>2. TypeOK' /\ NoneWhileWriting'
    BY <1>1, <1>2, <2>1 DEF TypeOK, NoneWhileWriting
  <2>3. QED BY <1>1, <2>2 DEF PassedHold, TrustedReads, Configured
<1>6. QED BY <1>3, <1>4, <1>5

\* While the setup service writes, nothing has passed that its end could
\* make untrue.
LEMMA SetupEnds ==
  ASSUME DocumentInv, EndSetup \/ StopApplication
  PROVE  DocumentInv'
<1> USE DEF DocumentInv
<1>1. document = Unreadable
  BY DEF EndSetup, StopApplication, NoneWhileWriting
<1>2. /\ ~Validates(document) /\ ~Ready(document) /\ ~Plans(document)
  BY <1>1 DEF Validates, Ready, Plans, LoadsV2, Loads
<1>3. /\ passed = {} /\ ~trusted
  BY <1>2 DEF PassedHold, TrustedReads, TypeOK
<1>4. CASE EndSetup
  <2>1. /\ document' \in Document /\ writing' = Unreadable /\ local' = local
        /\ sourceThere' = sourceThere /\ templateThere' = templateThere
        /\ credentials' = credentials /\ passed' = passed
        /\ pc' = pc /\ shell' = shell /\ first' = first
        /\ configuration' = configuration /\ version' = version
        /\ steady' = FALSE /\ trusted' = trusted
    BY <1>4 DEF EndSetup, environment, publish, TypeOK
  <2>2. PublishOK'
    BY <2>1 DEF TypeOK, PublishOK
  <2>3. TypeOK'
    BY <2>1, <2>2 DEF TypeOK
  <2>4. QED
    BY <1>3, <2>1, <2>3
    DEF PassedHold, NoneWhileWriting, TrustedReads, Configured
<1>5. CASE StopApplication
  <2>1. /\ document' = document /\ writing' = Unreadable /\ local' = local
        /\ sourceThere' = sourceThere /\ templateThere' = templateThere
        /\ credentials' = credentials /\ passed' = passed
        /\ pc' = "idle" /\ shell' = shell /\ first' = Unreadable
        /\ configuration' = Unreadable /\ version' = 0
        /\ steady' = FALSE /\ trusted' = FALSE
    BY <1>5 DEF StopApplication, Over, environment
  <2>2. PublishOK'
    BY <2>1 DEF TypeOK, PublishOK
  <2>3. TypeOK'
    BY <2>1, <2>2 DEF TypeOK
  <2>4. QED
    BY <1>3, <2>1, <2>3
    DEF PassedHold, NoneWhileWriting, TrustedReads, Configured
<1>6. QED BY <1>4, <1>5

-----------------------------------------------------------------------------
(* The steps of a publish, which change nothing that the checks look at.   *)

\* It is enough to look at the publish itself.
LEMMA PublishKeeps ==
  ASSUME DocumentInv, Publish,
         PublishOK', TrustedReads', Configured'
  PROVE  DocumentInv'
<1> USE DEF DocumentInv
<1>1. /\ document' = document /\ writing' = writing
      /\ sourceThere' = sourceThere /\ templateThere' = templateThere
      /\ credentials' = credentials /\ passed' = passed
  BY DEF Publish, Begin, ReadDocument, Configure, Resolve, BuildLocal,
         BuildLocalOnly, Plan, End, Over, environment
<1>2. local' = local \/ local' = TRUE
  BY DEF Publish, Begin, ReadDocument, Configure, Resolve, BuildLocal,
         BuildLocalOnly, Plan, End
<1>3. steady' \in BOOLEAN /\ trusted' \in BOOLEAN
  BY DEF Publish, Begin, ReadDocument, Configure, Resolve, BuildLocal,
         BuildLocalOnly, Plan, End, Over, TypeOK
<1>4. TypeOK'
  BY <1>1, <1>2, <1>3 DEF TypeOK
<1>5. PassedHold'
  BY <1>1, <1>2, FactsKept DEF PassedHold
<1>6. QED BY <1>1, <1>4, <1>5 DEF NoneWhileWriting

LEMMA BeginStep ==
  ASSUME DocumentInv, Begin
  PROVE  DocumentInv'
<1> USE DEF DocumentInv
<1>1. /\ pc = "idle" /\ pc' = "read" /\ shell' \in {"desktop", "cli"}
      /\ trusted' = (passed = {"validate", "preflight", "dry run"})
      /\ document' = document /\ local' = local
      /\ sourceThere' = sourceThere /\ templateThere' = templateThere
      /\ credentials' = credentials
      /\ first' = first /\ configuration' = configuration
      /\ version' = version
  BY DEF Begin, environment
<1>2. PublishOK'
  BY <1>1 DEF TypeOK, PublishOK
<1>3. configuration = Unreadable
  BY <1>1 DEF TypeOK, PublishOK
<1>4. TrustedReads'
  BY <1>1, FactsKept DEF TrustedReads, PassedHold
<1>5. Configured'
  BY <1>1, <1>3 DEF Configured
<1>6. QED BY <1>2, <1>4, <1>5, PublishKeeps DEF Publish

LEMMA ReadStep ==
  ASSUME DocumentInv, ReadDocument
  PROVE  DocumentInv'
<1> USE DEF DocumentInv
<1>1. /\ pc = "read" /\ shell' = shell /\ steady' = steady /\ trusted' = trusted
      /\ document' = document /\ local' = local
      /\ sourceThere' = sourceThere /\ templateThere' = templateThere
      /\ credentials' = credentials
      /\ configuration' = configuration /\ version' = version
  BY DEF ReadDocument, Refused, environment
<1>2. /\ pc' \in {"configure", "local only", "resolve", "refused"}
      /\ pc' = "configure" => first' = document /\ Loads(document)
      /\ pc' # "configure" => first' = first
  BY DEF ReadDocument, Refused
<1>3. first = Unreadable /\ configuration = Unreadable /\ version = 0
  BY <1>1 DEF TypeOK, PublishOK
<1>4. PublishOK'
  BY <1>1, <1>2, <1>3 DEF TypeOK, PublishOK, Loads
<1>5. ASSUME trusted PROVE pc' = "configure"
  <2>1. Validates(document) /\ Plans(document)
    BY <1>5 DEF TrustedReads
  <2>2. /\ Loads(document) /\ document.version = 2
        /\ SourceResolves(document) /\ SourceIsDir(document)
    BY <2>1 DEF Validates, Plans, LoadsV2
  <2>3. QED BY <2>2 DEF ReadDocument
<1>6. TrustedReads'
  BY <1>1, <1>2, <1>5, FactsKept DEF TrustedReads
<1>7. Configured'
  BY <1>1, <1>2, <1>3 DEF Configured
<1>8. QED BY <1>4, <1>6, <1>7, PublishKeeps DEF Publish

LEMMA ConfigureStep ==
  ASSUME DocumentInv, Configure
  PROVE  DocumentInv'
<1> USE DEF DocumentInv
<1>1. /\ pc = "configure" /\ shell' = shell /\ steady' = steady /\ trusted' = trusted
      /\ document' = document /\ local' = local
      /\ sourceThere' = sourceThere /\ templateThere' = templateThere
      /\ credentials' = credentials /\ version' = version
  BY DEF Configure, Refused, environment
<1>2. \/ /\ pc' = "resolve" /\ first' = Unreadable
         /\ LoadsV2(document) /\ configuration' = document
      \/ pc' = "refused" /\ first' = first /\ configuration' = configuration
  BY DEF Configure, Refused
<1>3. configuration = Unreadable /\ version = 0
  BY <1>1 DEF TypeOK, PublishOK
<1>4. LoadsV2(document) => document \in Document
  BY DEF LoadsV2, Loads, TypeOK
<1>5. PublishOK'
  BY <1>1, <1>2, <1>3, <1>4 DEF TypeOK, PublishOK
<1>6. ASSUME trusted PROVE pc' = "resolve"
  <2>1. Ready(document) /\ LoadsV2(document) /\ first = document
    BY <1>1, <1>6 DEF TrustedReads, Plans
  <2>2. document.version = 2
    BY <2>1 DEF LoadsV2
  <2>3. Supported(document) /\ ProvidersBuild(document) /\ credentials
    BY <1>4, <2>1, <2>2, ReadyBuilds
  <2>4. QED BY <2>1, <2>3 DEF Configure
<1>7. TrustedReads'
  BY <1>1, <1>2, <1>6, FactsKept DEF TrustedReads
<1>8. Configured'
  BY <1>1, <1>2, <1>3, <1>4, UnreadableAssumption
  DEF Configured, LoadsV2, UrlIsPublic
<1>9. QED BY <1>5, <1>7, <1>8, PublishKeeps DEF Publish

LEMMA ResolveStep ==
  ASSUME DocumentInv, Resolve
  PROVE  DocumentInv'
<1> USE DEF DocumentInv
<1>1. /\ pc = "resolve" /\ shell' = shell /\ steady' = steady /\ trusted' = trusted
      /\ document' = document /\ local' = local
      /\ sourceThere' = sourceThere /\ templateThere' = templateThere
      /\ credentials' = credentials
      /\ first' = first /\ configuration' = configuration
  BY DEF Resolve, Refused, environment
<1>2. \/ /\ pc' = "build" /\ Validates(document)
         /\ version' = document.version
      \/ pc' = "refused" /\ version' = version
  BY DEF Resolve, Refused
<1>3. first = Unreadable
  BY <1>1 DEF TypeOK, PublishOK
<1>4. Validates(document) => document \in Document
  BY DEF Validates, Loads, TypeOK
<1>5. Validates(document) => document.version \in {1, 2}
  BY <1>4, KindsOf
<1>6. PublishOK'
  BY <1>1, <1>2, <1>3, <1>5 DEF TypeOK, PublishOK
<1>7. ASSUME trusted PROVE pc' = "build" /\ document.version = 2
  <2>1. Validates(document) /\ Plans(document)
    BY <1>7 DEF TrustedReads
  <2>2. QED BY <2>1 DEF Plans, LoadsV2, Resolve
<1>8. TrustedReads'
  BY <1>1, <1>2, <1>7, FactsKept DEF TrustedReads
<1>9. Configured'
  BY <1>1, <1>2 DEF Configured
<1>10. QED BY <1>6, <1>8, <1>9, PublishKeeps DEF Publish

LEMMA BuildStep ==
  ASSUME DocumentInv, BuildLocal \/ BuildLocalOnly
  PROVE  DocumentInv'
<1> USE DEF DocumentInv
<1>1. /\ pc \in {"build", "local only"}
      /\ shell' = shell /\ steady' = steady /\ trusted' = trusted
      /\ document' = document /\ (local' = local \/ local' = TRUE)
      /\ sourceThere' = sourceThere /\ templateThere' = templateThere
      /\ credentials' = credentials
      /\ first' = first /\ configuration' = configuration
      /\ version' = version
  BY DEF BuildLocal, BuildLocalOnly, environment
<1>2. /\ pc' \in {"refused", "failed", "plan", "done"}
      /\ pc' = "plan" => pc = "build" /\ version = 2
      /\ pc' = "refused" => ~Loads(document)
  BY DEF BuildLocal, BuildLocalOnly
<1>3. first = Unreadable
  BY <1>1 DEF TypeOK, PublishOK
<1>4. PublishOK'
  BY <1>1, <1>2, <1>3 DEF TypeOK, PublishOK
<1>5. trusted => Loads(document)
  BY DEF TrustedReads, Validates
<1>6. TrustedReads'
  BY <1>1, <1>2, <1>5, FactsKept DEF TrustedReads
<1>7. Configured'
  BY <1>1, <1>2 DEF Configured
<1>8. QED BY <1>4, <1>6, <1>7, PublishKeeps DEF Publish

LEMMA PlanStep ==
  ASSUME DocumentInv, Plan
  PROVE  DocumentInv'
<1> USE DEF DocumentInv
<1>1. /\ pc = "plan" /\ shell' = shell /\ steady' = steady /\ trusted' = trusted
      /\ document' = document /\ local' = local
      /\ sourceThere' = sourceThere /\ templateThere' = templateThere
      /\ credentials' = credentials
      /\ first' = first /\ configuration' = configuration
      /\ version' = version
  BY DEF Plan, environment
<1>2. /\ pc' \in {"integrate", "failed", "refused"}
      /\ pc' = "integrate" => configuration # Unreadable
      /\ pc' = "refused" =>
            configuration = Unreadable \/ ~TemplateLoads(configuration)
  BY DEF Plan
<1>3. first = Unreadable /\ version = 2
  BY <1>1 DEF TypeOK, PublishOK, Configured
<1>4. PublishOK'
  BY <1>1, <1>2, <1>3 DEF TypeOK, PublishOK
<1>5. ASSUME trusted PROVE pc' # "refused"
  <2>1. Plans(document) /\ configuration = document
    BY <1>1, <1>5 DEF TrustedReads
  <2>2. QED BY <1>2, <2>1 DEF Plans, LoadsV2, Loads
<1>6. TrustedReads'
  BY <1>1, <1>2, <1>5, FactsKept DEF TrustedReads
<1>7. Configured'
  BY <1>1, <1>2, <1>3 DEF Configured
<1>8. QED BY <1>4, <1>6, <1>7, PublishKeeps DEF Publish

LEMMA EndStep ==
  ASSUME DocumentInv, End
  PROVE  DocumentInv'
<1> USE DEF DocumentInv
<1>1. /\ pc' = "idle" /\ shell' = shell /\ first' = Unreadable
      /\ configuration' = Unreadable /\ version' = 0
      /\ steady' = FALSE /\ trusted' = FALSE
  BY DEF End, Over
<1>2. PublishOK'
  BY <1>1 DEF TypeOK, PublishOK
<1>3. TrustedReads' /\ Configured'
  BY <1>1 DEF TrustedReads, Configured
<1>4. QED BY <1>2, <1>3, PublishKeeps DEF Publish

LEMMA StutterStep ==
  ASSUME DocumentInv, UNCHANGED vars
  PROVE  DocumentInv'
<1> USE DEF DocumentInv
<1>1. /\ document' = document /\ writing' = writing /\ local' = local
      /\ sourceThere' = sourceThere /\ templateThere' = templateThere
      /\ credentials' = credentials /\ passed' = passed
      /\ pc' = pc /\ shell' = shell /\ first' = first
      /\ configuration' = configuration /\ version' = version
      /\ steady' = steady /\ trusted' = trusted
  BY DEF vars, environment, publish
<1>2. PublishOK'
  BY <1>1 DEF TypeOK, PublishOK
<1>3. TypeOK'
  BY <1>1, <1>2 DEF TypeOK
<1>4. QED
  BY <1>1, <1>3, FactsKept
  DEF PassedHold, NoneWhileWriting, TrustedReads, Configured

-----------------------------------------------------------------------------
(* What a publish that nothing disturbs has found.                         *)

LEMMA SteadyKept ==
  ASSUME SteadyReads,
         document' = document, sourceThere' = sourceThere,
         templateThere' = templateThere, credentials' = credentials,
         pc' = pc, first' = first, configuration' = configuration,
         steady' = steady
  PROVE  SteadyReads'
BY DEF SteadyReads, Validates, SourceIsDir, TemplateLoads

LEMMA SteadyStep ==
  ASSUME DocumentInv, SteadyReads, [Next]_vars
  PROVE  SteadyReads'
<1>1. CASE Validate \/ Preflight \/ DryRun \/ PrepareLocal \/ UNCHANGED vars
  <2>1. /\ document' = document /\ sourceThere' = sourceThere
        /\ templateThere' = templateThere /\ credentials' = credentials
        /\ pc' = pc /\ first' = first /\ configuration' = configuration
        /\ steady' = steady
    BY <1>1 DEF Validate, Preflight, DryRun, Check, PrepareLocal, vars,
                environment, publish
  <2>2. QED BY <2>1, SteadyKept
<1>2. CASE \/ BeginSetup \/ EndSetup \/ StopApplication \/ EditDocument
           \/ EnvironmentChanges \/ End
  <2>1. steady' = FALSE
    BY <1>2 DEF BeginSetup, EndSetup, StopApplication, EditDocument,
                EnvironmentChanges, End, Disturbs, Over
  <2>2. QED BY <2>1 DEF SteadyReads
<1>3. CASE Publish /\ ~End
  <2>1. /\ document' = document /\ sourceThere' = sourceThere
        /\ templateThere' = templateThere /\ credentials' = credentials
    BY <1>3 DEF Publish, Begin, ReadDocument, Configure, Resolve, BuildLocal,
                BuildLocalOnly, Plan, environment
  <2>2. /\ Validates(document)' = Validates(document)
        /\ TemplateLoads(configuration)' = TemplateLoads(configuration')
        /\ (configuration' = configuration
              => TemplateLoads(configuration)' = TemplateLoads(configuration))
    BY <2>1 DEF Validates, SourceIsDir, TemplateLoads
  <2>3. CASE Begin
    BY <2>3 DEF Begin, SteadyReads
  <2>4. CASE ReadDocument
    <3>1. configuration = Unreadable /\ configuration' = configuration
      BY <2>4 DEF ReadDocument, Refused, DocumentInv, TypeOK, PublishOK
    <3>2. /\ pc' \in {"configure", "local only", "resolve", "refused"}
          /\ pc' = "configure" => first' = document
      BY <2>4 DEF ReadDocument, Refused
    <3>3. QED BY <2>1, <3>1, <3>2 DEF SteadyReads
  <2>5. CASE Configure
    <3>1. pc = "configure" /\ steady' = steady
      BY <2>5 DEF Configure
    <3>2. \/ pc' = "refused"
          \/ /\ pc' = "resolve" /\ configuration' = document
             /\ Supported(first) /\ ProvidersBuild(document) /\ credentials
      BY <2>5 DEF Configure, Refused
    <3>3. QED BY <2>1, <3>1, <3>2 DEF SteadyReads
  <2>6. CASE Resolve
    <3>1. pc = "resolve" /\ steady' = steady /\ configuration' = configuration
      BY <2>6 DEF Resolve, Refused
    <3>2. \/ pc' = "refused"
          \/ pc' = "build" /\ Validates(document)
      BY <2>6 DEF Resolve, Refused
    <3>3. QED BY <2>1, <2>2, <3>1, <3>2 DEF SteadyReads
  <2>7. CASE BuildLocal \/ BuildLocalOnly
    <3>1. /\ steady' = steady /\ configuration' = configuration
          /\ pc' \in {"refused", "failed", "plan", "done"}
          /\ pc' = "plan" => pc = "build"
      BY <2>7 DEF BuildLocal, BuildLocalOnly
    <3>2. QED BY <2>1, <2>2, <3>1 DEF SteadyReads
  <2>8. CASE Plan
    <3>1. /\ pc = "plan" /\ steady' = steady /\ configuration' = configuration
          /\ pc' \in {"refused", "failed", "integrate"}
          /\ pc' = "integrate" => TemplateLoads(configuration)
      BY <2>8 DEF Plan
    <3>2. QED BY <2>1, <2>2, <3>1 DEF SteadyReads
  <2>9. QED
    BY <1>3, <2>3, <2>4, <2>5, <2>6, <2>7, <2>8 DEF Publish
<1>4. QED BY <1>1, <1>2, <1>3 DEF Next

-----------------------------------------------------------------------------
(* The theorems.                                                           *)

LEMMA DocumentStep == DocumentInv /\ [Next]_vars => DocumentInv'
BY CheckStep, PrepareStep, DisturbStep, SetupEnds, BeginStep, ReadStep,
   ConfigureStep, ResolveStep, BuildStep, PlanStep, EndStep, StutterStep
DEF Next, Publish

LEMMA DocumentInvariance == Spec => []DocumentInv
BY InitDocument, DocumentStep, PTL DEF Spec

\* Providers, and the configuration they are built from, exist while one
\* publish needs them.
THEOREM DocumentTypeCorrect == Spec => []TypeOK
<1>1. DocumentInv => TypeOK
  BY DEF DocumentInv
<1>2. QED BY <1>1, DocumentInvariance, PTL

\* A publish that begins after Validate, Preflight and Dry Run is not
\* refused unless something changes, whatever the documents are.
THEOREM ChecksSuffice == Spec => []CheckedIsPublished
<1>1. DocumentInv => CheckedIsPublished
  BY DEF DocumentInv, TrustedReads, CheckedIsPublished
<1>2. QED BY <1>1, DocumentInvariance, PTL

\* The remote part is reached only by a project of version 2 with a
\* configuration that was loaded whole, whatever becomes of the file; and when
\* nothing changes, only by one that the preflight has no issue with, but for
\* the values that it judges alone.
THEOREM RemoteNeedsChecks == Spec => []RemoteIsChecked
<1>1. Init => SteadyReads
  BY DEF Init, SteadyReads
<1>2. DocumentInv /\ SteadyReads /\ [Next]_vars => SteadyReads'
  BY SteadyStep
<1>3. DocumentInv /\ SteadyReads => RemoteIsChecked
  <2> SUFFICES ASSUME DocumentInv, SteadyReads, pc = "integrate"
               PROVE  /\ version = 2 /\ LoadsV2(configuration)
                      /\ steady => PreflightIssues(document)
                                      \subseteq Overlooked(document)
    BY DEF RemoteIsChecked
  <2>1. /\ version = 2 /\ LoadsV2(configuration)
        /\ configuration # Unreadable
    BY DEF DocumentInv, Configured
  <2>2. ASSUME steady
        PROVE  PreflightIssues(document) \subseteq Overlooked(document)
    <3>1. /\ configuration = document /\ Supported(document)
          /\ ProvidersBuild(document) /\ credentials
          /\ Validates(document) /\ TemplateLoads(document)
      BY <2>1, <2>2 DEF SteadyReads
    <3>2. document \in Document
      BY <2>1, <3>1 DEF DocumentInv, TypeOK
    <3>3. QED BY <2>1, <3>1, <3>2, TakenIsReady
  <2>3. QED BY <2>1, <2>2
<1>4. QED BY <1>1, <1>2, <1>3, DocumentInvariance, PTL DEF Spec

=============================================================================
