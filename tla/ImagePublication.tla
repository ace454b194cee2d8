-------------------------- MODULE ImagePublication --------------------------
(***************************************************************************)
(* What pushing through Regstair promises whoever looks at a destination:  *)
(* an image appears there only after all of it was staged in the content   *)
(* store, and stays; a provenance record is written only for an image that *)
(* is there.  PushPath, with its uploads, its blob by blob publication,    *)
(* lost answers and restarts, implements this module.                      *)
(***************************************************************************)
CONSTANT
    Needs(_)      \* the digests an image consists of

VARIABLES
    staged,       \* digests in the content store
    published,    \* images, and where they are
    recorded      \* images with a provenance record

Init == staged = {} /\ published = {} /\ recorded = {}

Stage ==
    /\ staged \subseteq staged'
    /\ UNCHANGED <<published, recorded>>

Publish ==
    /\ published \subseteq published'
    /\ \A i \in published' \ published : Needs(i.manifest) \subseteq staged
    /\ UNCHANGED <<staged, recorded>>

Record ==
    /\ recorded \subseteq recorded'
    /\ recorded' \subseteq published
    /\ UNCHANGED <<staged, published>>

Next == Stage \/ Publish \/ Record

Spec == Init /\ [][Next]_<<staged, published, recorded>>

=============================================================================
