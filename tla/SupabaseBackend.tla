--------------------------- MODULE SupabaseBackend ---------------------------
(***************************************************************************)
(* The Supabase storage backend (src/core/src/services/supabase/backend.rs,*)
(* SupabaseBackend's Accessor impl) as the answers its handlers give over  *)
(* the bucket's objects.  The bucket is a set of object keys.  A directory *)
(* is a key ending in '/'; create_dir uploads an empty object under it.    *)
(* Each handler is one or two HTTP requests; a request is atomic at the    *)
(* bucket, and the caller (module Operator) takes one step per request so  *)
(* that other callers interleave between the two requests of stat.         *)
(*                                                                         *)
(* The HTTP layer and parse_error (services/supabase/core.rs, error.rs,    *)
(* not in this tree) are abstracted to: a request may fail with an error   *)
(* of its own, and an error response is mapped to a kind by its status.   *)
(***************************************************************************)
EXTENDS Naturals, FiniteSets

CONSTANTS
    Keys,      \* normalised object keys
    DirKeys,   \* the keys that end in '/'
    RootKey    \* "/"

ASSUME KeysAssumption ==
    IsFiniteSet(Keys) /\ DirKeys \subseteq Keys /\ RootKey \in DirKeys

\* SupabaseBackend::info: the capability record the backend reports.
SupabaseCap ==
    [stat |-> TRUE, read |-> TRUE, write |-> TRUE, create_dir |-> TRUE,
     delete |-> TRUE, list |-> FALSE, list_without_delimiter |-> FALSE,
     list_with_delimiter_slash |-> FALSE, batch |-> FALSE]

\* parse_into_metadata: the entry mode follows the path.
ModeOf(k) == IF k \in DirKeys THEN "DIR" ELSE "FILE"

\* parse_error: a 404 is NotFound, a 409 AlreadyExists, anything else
\* (a success status included) Unexpected.
ErrorKindOf(status) ==
    IF status = 404 THEN "NotFound"
    ELSE IF status = 409 THEN "AlreadyExists" ELSE "Unexpected"

\* The status of HEAD /object/<key> and GET /object/info/<key>.
HeadStatus(store, k) == IF k \in store THEN 200 ELSE 400
InfoStatus(store, k) == IF k \in store THEN 200 ELSE 404

(***************************************************************************)
(* stat: the root is a DIR without a request; otherwise HEAD, and on a     *)
(* non-OK answer a second request, get_object_info, whose answer gives     *)
(* the result.  StatHead is the result of the first request ("more" when  *)
(* the second is needed), StatInfo that of the second.                     *)
(***************************************************************************)
StatHead(store, k) ==
    IF k = RootKey THEN "DIR"
    ELSE IF HeadStatus(store, k) = 200 THEN ModeOf(k) ELSE "more"

StatInfo(store, k) ==
    IF InfoStatus(store, k) = 404 /\ k \in DirKeys THEN "DIR"
    ELSE ErrorKindOf(InfoStatus(store, k))

\* delete: DELETE /object/<key>; success, or a NotFound answer, is Ok.
DeleteStatus(store, k) == IF k \in store THEN 200 ELSE 404

DeleteResult(store, k) ==
    IF DeleteStatus(store, k) = 200 \/ ErrorKindOf(DeleteStatus(store, k)) = "NotFound"
    THEN "Ok" ELSE ErrorKindOf(DeleteStatus(store, k))

\* create_dir: upload an empty object at the key; success, or an
\* AlreadyExists answer, is Ok.
UploadStatus(store, k) == IF k \in store THEN 409 ELSE 200

CreateDirResult(store, k) ==
    IF UploadStatus(store, k) = 200
       \/ ErrorKindOf(UploadStatus(store, k)) = "AlreadyExists"
    THEN "Ok" ELSE ErrorKindOf(UploadStatus(store, k))

\* write: refused without a content length; otherwise a SupabaseWriter.
WriteResult(hasLength) == IF hasLength THEN "Ok" ELSE "Unsupported"
=============================================================================
