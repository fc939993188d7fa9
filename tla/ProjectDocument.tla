--------------------------- MODULE ProjectDocument ---------------------------
(***************************************************************************)
(* The document of a project, project.json, and everything that judges it: *)
(* the schema, the setup contract, the diagnosis of the configuration, the *)
(* preflight, the dry run, and the checks that `publish` makes by itself,  *)
(* in the desktop application and on the command line                      *)
(* (publisher-app, publisher-desktop/src/composition.rs, publisher-cli).   *)
(*                                                                         *)
(* The same facts are checked by different code in each place, and the     *)
(* document, which anybody may rewrite meanwhile, is read again each time. *)
(*                                                                         *)
(* A field holds the kind of its value:                                    *)
(*   absent, "" empty, only white space (blank), a provider that is not    *)
(*   supported (other), a value that its rule rejects (bad), or good.      *)
(* The half of a repository is "owner/ ": a name that is only white space. *)
(***************************************************************************)
CONSTANTS
    Document,     \* the documents that the project may be given
    Unreadable    \* no file, or a file that is being written

VARIABLES
    document,     \* project.json
    writing,      \* the document that the setup service is writing
    sourceThere,  \* the folder that a document names exists
    templateThere,
    credentials,  \* all four credentials are configured
    local,        \* a local publication is committed
    passed,       \* history: the checks that the present state has passed
    pc,           \* where the publish in progress is
    shell,        \* who runs it: the desktop application or the CLI
    first,        \* its first reading of the document, while it is used
    configuration,\* the document that its configuration was loaded from
    version,      \* the version of the document of its handle
    steady,       \* history: nothing has changed since it began
    trusted       \* history: ... and it began with every check passed

environment == <<sourceThere, templateThere, credentials>>
publish == <<pc, shell, first, configuration, version, steady, trusted>>
vars == <<document, writing, environment, local, passed, publish>>

-----------------------------------------------------------------------------
(* The schema and the contract.                                            *)

Kinds ==
    [version |-> {1, 2},
     source |-> {"absent", "no path", "empty", "blank", "path"},
     repositoryProvider |-> {"other", "good"},
     repository |-> {"bad", "half", "good"},
     bundlePath |-> {"absent", "blank", "bad", "good"},
     hostingProvider |-> {"other", "good"},
     hostingProject |-> {"absent", "empty", "blank", "good"},
     teamId |-> {"absent", "blank", "good"},
     previewProvider |-> {"other", "good"},
     previewUrl |-> {"absent", "bad", "good"},
     highProvider |-> {"other", "good"},
     accountId |-> {"absent", "blank", "good"},
     bucket |-> {"absent", "empty", "blank", "good"},
     highUrl |-> {"absent", "bad", "good"},
     domain |-> {"absent", "bad", "good"}]

ASSUME DocumentAssumption ==
    \A d \in Document : /\ DOMAIN d = DOMAIN Kinds
                        /\ \A f \in DOMAIN d : d[f] \in Kinds[f]
ASSUME UnreadableAssumption == Unreadable \notin Document

RequiredByV2 == {"bundlePath", "hostingProject", "previewUrl", "accountId",
                 "bucket", "highUrl"}

\* The lengths and the fixed fields of the schema are in Kinds already.
SchemaValid(d) == d.version = 2 => \A f \in RequiredByV2 : d[f] # "absent"

\* load_project_document
Loads(d) == d # Unreadable /\ SchemaValid(d)

-----------------------------------------------------------------------------
(* The diagnosis of the configuration.                                     *)

Blank == {"absent", "empty", "blank"}

\* validate_public_base_url: http or https with a public host, and neither
\* credentials nor a query nor a fragment.
UrlIsPublic(kind) == kind = "good"

SourceIssues(d) ==
    IF d.source \in {"no path", "empty", "blank"} THEN {"source"} ELSE {}

RepositoryIssues(d) ==
    IF d.repositoryProvider = "other" THEN {"repositoryProvider"}
    ELSE IF d.repository # "good" THEN {"repository"} ELSE {}

HostingIssues(d) ==
    IF d.hostingProvider = "other" THEN {"hostingProvider"}
    ELSE {f \in {"hostingProject"} : d[f] \in Blank}
         \cup {f \in {"teamId"} : d[f] = "blank"}

PreviewIssues(d) ==
    IF d.previewProvider = "other" THEN {"previewProvider"}
    ELSE {f \in {"previewUrl"} : ~UrlIsPublic(d[f])}

HighResolutionIssues(d) ==
    IF d.highProvider = "other" THEN {"highProvider"}
    ELSE {f \in {"accountId", "bucket"} : d[f] \in Blank}
         \cup {f \in {"highUrl"} : ~UrlIsPublic(d[f])}

DomainIssues(d) == IF d.domain = "bad" THEN {"domain"} ELSE {}

\* validate_setup
ConfigurationIssues(d) ==
    SourceIssues(d) \cup DomainIssues(d) \cup
    IF d.version = 2
    THEN RepositoryIssues(d) \cup HostingIssues(d) \cup PreviewIssues(d)
         \cup HighResolutionIssues(d)
    ELSE {}

-----------------------------------------------------------------------------
(* The folders.                                                            *)

\* resolve_source_dir: no folder, or no path, is an error.
SourceResolves(d) == d.source \notin {"absent", "no path"}

\* ... and is_dir: the empty path is the folder of the project file itself.
SourceIsDir(d) == d.source = "empty" \/ (d.source = "path" /\ sourceThere)

\* from_project_bundle: a path of white space names no folder.
TemplateLoads(d) == d.bundlePath = "good" /\ templateThere

-----------------------------------------------------------------------------
(* The checks that a user may ask for.  Each reads, and changes nothing.   *)

\* validate_project_inner
Validates(d) == Loads(d) /\ SourceResolves(d) /\ SourceIsDir(d)

\* Mutant of PreflightIssues: the readiness of the credentials is left to the panel that shows them.
PreflightIssuesOfFiles(d) ==
    ConfigurationIssues(d)
    \cup {f \in {"source"} : d.source = "path" /\ ~sourceThere}
    \cup {f \in {"bundlePath"} : /\ d.version = 2
                                 /\ d[f] \notin {"absent", "blank"}
                                 /\ ~TemplateLoads(d)}

\* preflight_project: the issues it finds besides those of the configuration.
PreflightIssues(d) ==
    ConfigurationIssues(d)
    \cup {f \in {"source"} : d.source = "path" /\ ~sourceThere}
    \cup IF d.version # 2 THEN {}
         ELSE {f \in {"bundlePath"} : /\ d[f] \notin {"absent", "blank"}
                                      /\ ~TemplateLoads(d)}
              \cup {f \in {"credentials"} : ~credentials}

Ready(d) == Loads(d) /\ PreflightIssues(d) = {}

\* HostingPublicationConfig::new, and that the project is there at all.
HostingConfigured(d) == d.hostingProject = "good" /\ d.teamId # "blank"

\* load_project_v2
LoadsV2(d) ==
    /\ Loads(d) /\ d.version = 2
    /\ d.bundlePath # "bad"
    /\ UrlIsPublic(d.previewUrl) /\ UrlIsPublic(d.highUrl)
    /\ HostingConfigured(d)

\* dry_run_project.  The rest of its plan is the planner's.
Plans(d) == LoadsV2(d) /\ TemplateLoads(d) /\ local

Check(name, holds) ==
    /\ name \notin passed
    /\ holds
    /\ passed' = passed \cup {name}
    /\ UNCHANGED <<document, writing, environment, local, publish>>

Validate == Check("validate", Validates(document))
Preflight == Check("preflight", Ready(document))
DryRun == Check("dry run", Plans(document))

\* prepare_local_publication; the pipeline is LocalPublication's.
PrepareLocal ==
    /\ ~local /\ Validates(document)
    /\ local' = TRUE
    /\ UNCHANGED <<document, writing, environment, passed, publish>>

-----------------------------------------------------------------------------
(* What changes beside them.                                               *)

\* Mutant of Over: the configuration is kept for the next publish.
OverKeepingProviders ==
    /\ pc' = "idle"
    /\ first' = Unreadable
    /\ configuration' = configuration
    /\ version' = 0
    /\ steady' = FALSE
    /\ trusted' = FALSE

\* A publish is over, its variables are gone.
Over ==
    /\ pc' = "idle"
    /\ first' = Unreadable
    /\ configuration' = Unreadable
    /\ version' = 0
    /\ steady' = FALSE
    /\ trusted' = FALSE

\* What the checks, and the publish, have found is no longer so.
Disturbs ==
    /\ passed' = {}
    /\ steady' = FALSE /\ trusted' = FALSE
    /\ UNCHANGED <<pc, shell, first, configuration, version>>

\* onCreateProject: every field of the wizard is trimmed and left out if
\* nothing remains, but the source, which is always there.
Submitted(d) ==
    /\ d.version = 2
    /\ d.source \in {"no path", "path"}
    /\ d.repository # "half"
    /\ \A f \in DOMAIN d \ {"version"} : d[f] \notin {"blank", "empty"}

\* create_project_setup refuses a document that its schema refuses, and
\* then empties the file before it writes it.
BeginSetup ==
    /\ writing = Unreadable
    /\ \E d \in Document :
          /\ Submitted(d) /\ SchemaValid(d)
          /\ writing' = d
    /\ document' = Unreadable
    /\ Disturbs
    /\ UNCHANGED <<environment, local>>

EndSetup ==
    /\ writing # Unreadable
    /\ document' = writing
    /\ writing' = Unreadable
    /\ steady' = FALSE
    /\ UNCHANGED <<environment, local, passed, pc, shell, first, configuration,
                   version, trusted>>

\* The application stops, perhaps with the file half written.
StopApplication ==
    /\ writing # Unreadable
    /\ writing' = Unreadable
    /\ Over
    /\ UNCHANGED <<document, environment, local, passed, shell>>

\* Somebody edits the file with other means.
EditDocument ==
    /\ writing = Unreadable
    /\ document' \in Document \ {document}
    /\ Disturbs
    /\ UNCHANGED <<writing, environment, local>>

\* get_credential_status tells whether all four are there; set_credential or
\* delete_credential has changed that.
CredentialsChange ==
    credentials' = ~credentials /\ UNCHANGED <<sourceThere, templateThere>>

\* A folder comes or goes, a credential is set or removed.
EnvironmentChanges ==
    /\ \/ sourceThere' = ~sourceThere /\ UNCHANGED <<templateThere, credentials>>
       \/ templateThere' = ~templateThere /\ UNCHANGED <<sourceThere, credentials>>
       \/ CredentialsChange
    /\ Disturbs
    /\ UNCHANGED <<document, writing, local>>

-----------------------------------------------------------------------------
(* Publish.                                                                *)

Refused(next) == pc' = next /\ UNCHANGED <<first, configuration, version>>

Begin ==
    /\ pc = "idle"
    /\ pc' = "read"
    /\ shell' \in {"desktop", "cli"}
    /\ steady' = TRUE
    /\ trusted' = (passed = {"validate", "preflight", "dry run"})
    /\ UNCHANGED <<document, writing, environment, local, passed, first,
                   configuration, version>>

\* The document is read; the command line looks at its source at once.
ReadDocument ==
    /\ pc = "read"
    /\ IF Loads(document)
          /\ (shell = "cli" => SourceResolves(document) /\ SourceIsDir(document))
       THEN /\ first' = IF document.version = 2 THEN document ELSE first
            /\ pc' = IF document.version = 2 THEN "configure"
                     ELSE IF shell = "cli" THEN "local only" ELSE "resolve"
            /\ UNCHANGED <<configuration, version>>
       ELSE Refused("refused")
    /\ UNCHANGED <<document, writing, environment, local, passed, shell, steady,
                   trusted>>

\* Mutant of Supported: the provider of the hosting is not looked at.
SupportedStorage(d) ==
    \A f \in {"repositoryProvider", "previewProvider", "highProvider"} :
        d[f] = "good"

\* enforce_supported_providers
Supported(d) ==
    \A f \in {"repositoryProvider", "previewProvider", "highProvider",
              "hostingProvider"} : d[f] = "good"

\* build_providers: what it asks of the configuration.
ProvidersBuild(d) ==
    d.repository \in {"half", "good"} /\ d.bucket \notin {"absent", "empty"}

\* preflight_publication, then build_providers.  The providers are checked
\* on the first reading, the configuration is loaded from a second one.
Configure ==
    /\ pc = "configure"
    /\ IF /\ Supported(first)
          /\ LoadsV2(document)
          /\ credentials
          /\ ProvidersBuild(document)
       THEN /\ configuration' = document
            /\ first' = Unreadable
            /\ pc' = "resolve"
            /\ UNCHANGED version
       ELSE Refused("refused")
    /\ UNCHANGED <<document, writing, environment, local, passed, shell, steady,
                   trusted>>

\* publish_project reads the document for the third time.
Resolve ==
    /\ pc = "resolve"
    /\ IF Validates(document)
       THEN /\ version' = document.version
            /\ pc' = "build"
            /\ UNCHANGED <<first, configuration>>
       ELSE Refused("refused")
    /\ UNCHANGED <<document, writing, environment, local, passed, shell, steady,
                   trusted>>

\* build_local_publication reads it once more, for the title.  The pipeline
\* may fail for reasons of its own.
BuildLocal ==
    /\ pc = "build"
    /\ IF ~Loads(document) THEN pc' = "refused" /\ local' = local
       ELSE \/ pc' = "failed" /\ local' = local
            \/ /\ pc' = IF version = 2 THEN "plan" ELSE "done"
               /\ local' = TRUE
    /\ UNCHANGED <<document, writing, environment, passed, shell, steady,
                   trusted, first, configuration, version>>

\* The command line publishes a version 1 project with its first reading.
BuildLocalOnly ==
    /\ pc = "local only"
    /\ \/ pc' = "failed" /\ local' = local
       \/ pc' = "done" /\ local' = TRUE
    /\ UNCHANGED <<document, writing, environment, passed, shell, steady,
                   trusted, first, configuration, version>>

\* NoopProviders, which refuse every call: what a publish is given that has
\* read a document of version 1, and so loads no configuration.
Noop == configuration = Unreadable

\* prepare_v2_publication; a project may have become one of version 2.
Plan ==
    /\ pc = "plan"
    /\ IF ~Noop /\ TemplateLoads(configuration)
       THEN pc' \in {"integrate", "failed"}
       ELSE pc' = "refused"
    /\ UNCHANGED <<document, writing, environment, local, passed, shell, steady,
                   trusted, first, configuration, version>>

End ==
    /\ pc \in {"integrate", "done", "failed", "refused"}
    /\ Over
    /\ UNCHANGED <<document, writing, environment, local, passed, shell>>

-----------------------------------------------------------------------------

Init ==
    /\ document \in Document \cup {Unreadable}
    /\ writing = Unreadable
    /\ sourceThere \in BOOLEAN
    /\ templateThere \in BOOLEAN
    /\ credentials \in BOOLEAN
    /\ local = FALSE
    /\ passed = {}
    /\ pc = "idle"
    /\ shell = "desktop"
    /\ first = Unreadable
    /\ configuration = Unreadable
    /\ version = 0
    /\ steady = FALSE
    /\ trusted = FALSE

Publish ==
    \/ Begin \/ ReadDocument \/ Configure \/ Resolve \/ BuildLocal
    \/ BuildLocalOnly \/ Plan \/ End

Next ==
    \/ Validate \/ Preflight \/ DryRun \/ PrepareLocal
    \/ BeginSetup \/ EndSetup \/ StopApplication \/ EditDocument
    \/ EnvironmentChanges
    \/ Publish

Spec == Init /\ [][Next]_vars
-----------------------------------------------------------------------------
(* Properties.                                                             *)

PublishOK ==
    /\ pc \in {"idle", "read", "configure", "resolve", "build", "local only",
               "plan", "integrate", "done", "failed", "refused"}
    /\ shell \in {"desktop", "cli"}
    /\ first \in Document \cup {Unreadable}
    /\ configuration \in Document \cup {Unreadable}
    /\ version \in {0, 1, 2}
    \* "Providers exist only for the duration of this invocation."
    /\ first # Unreadable => pc \in {"configure", "refused"}
    /\ configuration # Unreadable =>
          pc \in {"resolve", "build", "plan", "integrate", "done", "failed", "refused"}
    /\ version # 0 => pc \notin {"idle", "read", "configure", "resolve"}

TypeOK ==
    /\ document \in Document \cup {Unreadable}
    /\ writing \in Document \cup {Unreadable}
    /\ {sourceThere, templateThere, credentials, local, steady, trusted}
          \subseteq BOOLEAN
    /\ passed \subseteq {"validate", "preflight", "dry run"}
    /\ PublishOK

\* What the application asks of the user is enough: a publish that begins
\* after Validate, Preflight and Dry Run have passed is not refused unless
\* something changes, though every check is other code over a new reading
\* of the document.
CheckedIsPublished == trusted => pc # "refused"

\* What the preflight objects to and a publication takes: names that are
\* only white space, the folder of the project itself as the photos, and a
\* domain, which it never reads.
Overlooked(d) ==
    {f \in {"accountId", "bucket"} : d[f] = "blank"}
    \cup {f \in {"repository"} : d[f] = "half"}
    \cup {f \in {"source"} : d[f] = "empty"}
    \cup {f \in {"domain"} : d[f] = "bad"}

\* Whatever happens to the file between the readings, the remote part is
\* reached only by a project of version 2 and with a configuration that was
\* loaded whole, never with the providers that "the application layer never
\* invokes".  And when nothing happens, nobody need have asked for a check:
\* but for what is overlooked, the preflight has no issue with a project
\* that the remote part is reached with.
RemoteIsChecked ==
    pc = "integrate" =>
        /\ version = 2 /\ LoadsV2(configuration)
        /\ steady => PreflightIssues(document) \subseteq Overlooked(document)

\* preflight.rs: "True only when every precondition holds", and of the
\* source that "an incoherent or absent one is already a level-2 issue".
ReadyIsPublishable ==
    "preflight" \in passed =>
        /\ SourceResolves(document)
        /\ document.version = 2 => TemplateLoads(document)

\* composition.rs: "Unknown providers are rejected before any configuration
\* object, credential read, or provider is constructed."
OnlySupportedProviders ==
    configuration # Unreadable => Supported(configuration)

=============================================================================
