----------------------------- MODULE ImageCache -----------------------------
(***************************************************************************)
(* What the pull cache promises, with every image kept in one step: an     *)
(* image is kept only as it was fetched from an upstream, by whom and for  *)
(* which route, and stays; a request is answered from the cache only with  *)
(* an object of an image kept for its repository and route whose fetch     *)
(* entitles the requester to it.  PullResolver, with its store, bindings   *)
(* and tag mappings written apart by concurrent pulls, implements this     *)
(* module.                                                                 *)
(***************************************************************************)
CONSTANTS
    Objects(_),        \* the digests an image consists of
    Entitled(_, _),    \* whether a principal may be given what a fetch brought
    NoReply            \* a request that has not been answered from the cache

VARIABLES
    fetched,           \* images obtained upstream
    kept,              \* images in the cache
    replies            \* what requests were answered with from the cache

Init ==
    /\ fetched = {} /\ kept = {}
    /\ replies = [p \in DOMAIN replies |-> NoReply]

Fetch ==
    /\ fetched \subseteq fetched'
    /\ UNCHANGED <<kept, replies>>

Keep ==
    /\ kept \subseteq kept'
    /\ kept' \subseteq fetched
    /\ UNCHANGED <<fetched, replies>>

Justifies(image, reply) ==
    /\ image.repo = reply.repo /\ image.route = reply.route
    /\ reply.object \in Objects(image.manifest)
    /\ Entitled(reply.who, image)

\* Replies are given, or forgotten when the next request or process begins.
Reply ==
    /\ DOMAIN replies' = DOMAIN replies
    /\ \A p \in DOMAIN replies :
          replies'[p] \notin {replies[p], NoReply} =>
             \E image \in kept : Justifies(image, replies'[p])
    /\ UNCHANGED <<fetched, kept>>

Next == Fetch \/ Keep \/ Reply

Spec == Init /\ [][Next]_<<fetched, kept, replies>>

=============================================================================
