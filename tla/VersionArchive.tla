---------------------------- MODULE VersionArchive ----------------------------
(***************************************************************************)
(* What the document store promises to the rest of the system, whatever     *)
(* sources, robots files and failures do to collection: versions are only   *)
(* appended, a document is open or closed for good, a closed one has no     *)
(* bodies, and only stored versions are handed to the stages.               *)
(***************************************************************************)
EXTENDS Naturals, Sequences

CONSTANTS
    Docs,       \* documents
    Contents    \* contents a document may have

VARIABLES
    access,     \* per document: absent, collected or access_denied
    versions,   \* per document, its versions in the order of version_no
    returned    \* <<document, content>> of the versions the stages were given

Version == [content: Contents, body: BOOLEAN]

ContentsOf(vs) == {vs[i].content : i \in DOMAIN vs}

\* Later holds what earlier holds, in the same places.
Extends(later, earlier) ==
    /\ DOMAIN earlier \subseteq DOMAIN later
    /\ \A i \in DOMAIN earlier : later[i] = earlier[i]

\* No content is stored twice, and bodies are kept of open documents only.
WellFormed(a, vs) ==
    /\ \A i, j \in DOMAIN vs : vs[i].content = vs[j].content => i = j
    /\ \A i \in DOMAIN vs : vs[i].body = (a = "collected")
    /\ a = "absent" => vs = <<>>

AInit ==
    /\ access = [d \in Docs |-> "absent"]
    /\ versions = [d \in Docs |-> <<>>]
    /\ returned = {}

\* A cycle's collection becomes permanent, all of it at once.
Archive ==
    /\ access' \in [Docs -> {"absent", "collected", "access_denied"}]
    /\ versions' \in [Docs -> Seq(Version)]
    /\ \A d \in Docs :
          /\ access[d] \in {"absent", access'[d]}
          /\ Extends(versions'[d], versions[d])
          /\ WellFormed(access'[d], versions'[d])
    /\ returned \subseteq returned'
    /\ \A r \in returned' : r[1] \in Docs /\ r[2] \in ContentsOf(versions'[r[1]])

ArchiveSpec == AInit /\ [][Archive]_<<access, versions, returned>>
===============================================================================
