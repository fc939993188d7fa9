----------------------------- MODULE ObjectStore -----------------------------
(***************************************************************************)
(* What the StorageProvider contract promises (provider-contracts, put,    *)
(* head and delete): an object is replaced or removed at one moment of the *)
(* call.  A call that answers Ok has done so; one that fails may or may    *)
(* not have.                                                               *)
(***************************************************************************)
CONSTANTS Key, Object, Nothing, Client

VARIABLES
    objects,   \* what `head` finds under each key
    requests,  \* the call of each client: the key, the object and `done`
    answers    \* what its last call has answered, "none" until it has

svars == <<objects, requests, answers>>

Request == [key : Key, object : Object \cup {Nothing}, done : BOOLEAN]

SInit ==
    /\ objects = [k \in Key |-> Nothing]
    /\ requests = [c \in Client |-> Nothing]
    /\ answers = [c \in Client |-> "none"]

Ask(c) ==
    /\ requests[c] = Nothing
    /\ \E k \in Key, o \in Object \cup {Nothing} :
          requests' = [requests EXCEPT
                         ![c] = [key |-> k, object |-> o, done |-> FALSE]]
    /\ answers' = [answers EXCEPT ![c] = "none"]
    /\ UNCHANGED objects

TakeEffect(c) ==
    /\ requests[c] # Nothing /\ ~requests[c].done
    /\ objects' = [objects EXCEPT ![requests[c].key] = requests[c].object]
    /\ requests' = [requests EXCEPT
                      ![c] = [key |-> requests[c].key,
                              object |-> requests[c].object, done |-> TRUE]]
    /\ UNCHANGED answers

\* The call is over, with this answer.
Answer(c, a) ==
    /\ requests' = [requests EXCEPT ![c] = Nothing]
    /\ answers' = [answers EXCEPT ![c] = a]
    /\ UNCHANGED objects

AnswerOk(c) == requests[c] # Nothing /\ requests[c].done /\ Answer(c, "ok")

\* It may have taken effect before.
AnswerError(c) == requests[c] # Nothing /\ Answer(c, "error")

SNext ==
    \E c \in Client : Ask(c) \/ TakeEffect(c) \/ AnswerOk(c) \/ AnswerError(c)

SSpec == SInit /\ [][SNext]_svars

=============================================================================
