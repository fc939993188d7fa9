--------------------------- MODULE MCProjectDocument ---------------------------
\* Small instances of ProjectDocument: two good documents, one of each
\* version, and documents that differ from them in one field.
EXTENDS ProjectDocument

Good ==
    [version |-> 2, source |-> "path", repositoryProvider |-> "good",
     repository |-> "good", bundlePath |-> "good", hostingProvider |-> "good",
     hostingProject |-> "good", teamId |-> "good", previewProvider |-> "good",
     previewUrl |-> "good", highProvider |-> "good", accountId |-> "good",
     bucket |-> "good", highUrl |-> "good", domain |-> "good"]

\* A document of version 1 that has nothing that it does not need.
Local ==
    [Good EXCEPT !.version = 1, !.bundlePath = "absent",
                 !.hostingProject = "absent", !.teamId = "absent",
                 !.previewUrl = "absent", !.accountId = "absent",
                 !.bucket = "absent", !.highUrl = "absent", !.domain = "absent"]

\* Every document of version 2 with one field that is not good.
Deviations ==
    UNION {{[Good EXCEPT ![f] = k] : k \in Kinds[f] \ {Good[f]}} :
           f \in DOMAIN Good \ {"version"}}

Documents ==
    {Good, Local, [Local EXCEPT !.source = "absent"],
     [Local EXCEPT !.source = "empty"]} \cup Deviations
=============================================================================
