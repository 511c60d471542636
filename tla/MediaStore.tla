----------------------------- MODULE MediaStore -----------------------------
(***************************************************************************)
(* One media asset: the same bytes, uploaded to one project by several     *)
(* requests that may name different content types.  The object is written  *)
(* before the row; the row is unique in the bytes' hash.                   *)
(***************************************************************************)
EXTENDS Naturals, FiniteSets

CONSTANTS
    Uploads,        \* requests that upload the bytes
    Viewers,        \* requests that read the asset by its id
    Types           \* the content types they are sent with

ASSUME MediaAssumption == "none" \notin Uploads \cup Types

VARIABLES
    object,         \* the content type of the stored object, "none" if there is none
    asset,          \* the row: whose id it has, and its content type
    upload,         \* each upload: where it is, its type, the id it answered with
    viewer,         \* each read: where it is, the type it answered with
    crossed         \* whether an upload began while another was storing

mediaVars == <<object, asset, upload, viewer, crossed>>

NoAsset == [id |-> "none", type |-> "none"]

MediaInit ==
    /\ object = "none" /\ asset = NoAsset /\ crossed = FALSE
    /\ upload \in [Uploads -> [pc : {"new"}, type : Types, id : {"none"}]]
    /\ viewer = [v \in Viewers |-> [pc |-> "new", type |-> "none"]]

\* Seeded bug: every upload stores the bytes with its own type.
LookUpNothing(u) ==
    /\ upload[u].pc = "new"
    /\ upload' = [upload EXCEPT ![u].pc = "put"]
    /\ crossed' = (crossed \/ \E o \in Uploads : upload[o].pc \in {"put", "insert"})
    /\ UNCHANGED <<object, asset, viewer>>

\* The look-up before storage is touched: the first upload's asset is answered.
LookUpBytes(u) ==
    /\ upload[u].pc = "new"
    /\ upload' = [upload EXCEPT ![u].pc = IF asset = NoAsset THEN "put" ELSE "done",
                                ![u].id = asset.id]
    /\ crossed' = (\/ crossed
                   \/ asset = NoAsset /\ \E o \in Uploads : upload[o].pc \in {"put", "insert"})
    /\ UNCHANGED <<object, asset, viewer>>

PutBytes(u) ==
    /\ upload[u].pc = "put"
    /\ object' = upload[u].type
    /\ upload' = [upload EXCEPT ![u].pc = "insert"]
    /\ UNCHANGED <<asset, viewer, crossed>>

\* Insert, or on conflict return the row there is.
InsertAsset(u) ==
    /\ upload[u].pc = "insert"
    /\ asset' = IF asset = NoAsset THEN [id |-> u, type |-> upload[u].type] ELSE asset
    /\ upload' = [upload EXCEPT ![u].pc = "done", ![u].id = asset'.id]
    /\ UNCHANGED <<object, viewer, crossed>>

\* The store or the database fails, or the process dies; the client retries.
UploadDies(u) ==
    /\ upload[u].pc \in {"put", "insert"}
    /\ upload' = [upload EXCEPT ![u].pc = "new"]
    /\ UNCHANGED <<object, asset, viewer, crossed>>

\* A read, by an id some upload answered with.
FindAsset(v) ==
    /\ viewer[v].pc = "new" /\ \E u \in Uploads : upload[u].id # "none"
    /\ \E u \in Uploads :
          /\ upload[u].id # "none"
          /\ viewer' = [viewer EXCEPT ![v] =
                 IF asset.id = upload[u].id THEN [pc |-> "get", type |-> asset.type]
                                            ELSE [pc |-> "notFound", type |-> "none"]]
    /\ UNCHANGED <<object, asset, upload, crossed>>

GetBytes(v) ==
    /\ viewer[v].pc = "get"
    /\ viewer' = [viewer EXCEPT ![v].pc = IF object = "none" THEN "error" ELSE "served"]
    /\ UNCHANGED <<object, asset, upload, crossed>>

MediaNext ==
    \/ \E u \in Uploads : LookUpBytes(u) \/ PutBytes(u) \/ InsertAsset(u) \/ UploadDies(u)
    \/ \E v \in Viewers : FindAsset(v) \/ GetBytes(v)

MediaSpec == MediaInit /\ [][MediaNext]_mediaVars

(* What the state may be. *)
MediaTypeOK ==
    /\ object \in Types \cup {"none"}
    /\ asset \in [id : Uploads \cup {"none"}, type : Types \cup {"none"}]
    /\ upload \in [Uploads -> [pc : {"new", "put", "insert", "done"}, type : Types,
                               id : Uploads \cup {"none"}]]
    /\ viewer \in [Viewers -> [pc : {"new", "get", "served", "notFound", "error"},
                               type : Types \cup {"none"}]]
    /\ crossed \in BOOLEAN

(* An upload "never leaves a row whose object is missing" (spec/media-v1.md, *)
(* Upload), so every reference an upload answered with is served; all of     *)
(* them name one asset; and the object keeps the type the row has (media.ts, *)
(* the comment on the dedup check), unless first uploads crossed: the last   *)
(* to store writes the object, the first to insert names the asset.          *)
OneAsset ==
    /\ \A v \in Viewers : viewer[v].pc \notin {"error", "notFound"}
    /\ \A u \in Uploads : upload[u].pc = "done" => upload[u].id = asset.id /\ object # "none"
    /\ asset # NoAsset => object = asset.type \/ crossed
=============================================================================
