------------------------------- MODULE Bucket -------------------------------
(***************************************************************************)
(* The bucket prefix push writes, pull reads and prune cleans: one object  *)
(* per path of a tree, and the manifest.  The operators are what S3 does   *)
(* with a request and what the packages conclude from its answer.          *)
(*                                                                         *)
(* A content is what a SHA256 and a size identify.  A manifest maps every  *)
(* path to the file listed for it, or Nil.                                 *)
(***************************************************************************)

CONSTANTS
    Path,           \* the paths files can have in a tree
    ManifestKey,    \* where the manifest is; Build and resolveManifestKey
                    \* refuse a tree with a file there
    Content,        \* the contents of files
    Torn,           \* the body of an object no push wrote
    Mode,           \* permission bits
    Nil             \* no object, no file, no manifest

Key == Path \cup {ManifestKey}

File == [data : Content, mode : Mode]

Manifest == [Path -> File \cup {Nil}]

ASSUME KeyAssumption == ManifestKey \notin Path

Body(k) == IF k = ManifestKey THEN Manifest ELSE Content

\* An object has a full SHA256 stored with it or not (a multipart upload, or
\* one without a checksum), and was modified within prune's -min-age or not.
Object(k) == [body : Body(k) \cup {Torn}, sum : BOOLEAN, fresh : BOOLEAN]

Store(k) == Object(k) \cup {Nil}

ASSUME BodyAssumption ==
    /\ Nil \notin File
    /\ Torn \notin Content \cup Manifest
    /\ \A k \in Key : Nil \notin Object(k)

Paths(m) == {p \in Path : m[p] # Nil}

NoFiles == [p \in Path |-> Nil]

\* What is stored by a put of b that carries its checksum.
Stored(b) == [body |-> b, sum |-> TRUE, fresh |-> TRUE]

\* verifyObject: the stored checksum and size are those of b.
Verifies(o, b) == o # Nil /\ o.sum /\ o.body = b

\* remoteManifest, fetchManifest: a body that decodes and validates.
Decodes(o) == o # Nil /\ o.body # Torn
=============================================================================
