SPECIFICATION Spec
CONSTANTS
    Document <- Documents
    Unreadable = Unreadable
INVARIANTS
    CheckedIsPublished
    RemoteIsChecked
