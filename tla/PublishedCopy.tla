---------------------------- MODULE PublishedCopy ----------------------------
(***************************************************************************)
(* What a reader of an edge client's permission snapshot may rely on,      *)
(* without queries, versions or triggers: somewhere there is a content     *)
(* that others change; the copy published here is always the image of a    *)
(* content that really was there at one moment, or the empty copy of a     *)
(* client that just started; and a copy that is certified current is.      *)
(*                                                                         *)
(* CacheSync implements this specification (CacheSync!PublishesCopies).    *)
(***************************************************************************)
CONSTANTS
    Contents,    \* what the source may hold
    Initially,   \* the contents it may start with
    Image(_),    \* the copy that says what a content says
    EmptyCopy,   \* the copy of a client that just started
    NoContent    \* no candidate was taken

VARIABLES content, candidate, published, certified
vars == <<content, candidate, published, certified>>

Init ==
    /\ content \in Initially
    /\ candidate = NoContent
    /\ published = EmptyCopy
    /\ certified = FALSE

\* The content changes, which revokes the certificate at the same moment.
Write ==
    /\ content' \in Contents
    /\ certified' = FALSE
    /\ UNCHANGED <<candidate, published>>

\* A moment is chosen: its content may be published, once or never.
Take ==
    /\ candidate' = content
    /\ UNCHANGED <<content, published, certified>>

Publish ==
    /\ candidate \in Contents
    /\ published' = Image(candidate)
    /\ UNCHANGED <<content, candidate, certified>>

\* The copy is certified if what it was made from is still the content.
Finish ==
    /\ candidate \in Contents
    /\ published = Image(candidate)
    /\ candidate' = NoContent
    /\ certified' \in {FALSE, candidate = content}
    /\ UNCHANGED <<content, published>>

GiveUp ==
    /\ candidate' = NoContent
    /\ UNCHANGED <<content, published, certified>>

\* The certificate may be withdrawn for no reason, to force a new copy.
Doubt ==
    /\ certified' = FALSE
    /\ UNCHANGED <<content, candidate, published>>

StartAgain ==
    /\ candidate' = NoContent
    /\ published' = EmptyCopy
    /\ certified' = FALSE
    /\ UNCHANGED content

Next == Write \/ Take \/ Publish \/ Finish \/ GiveUp \/ Doubt \/ StartAgain

Spec == Init /\ [][Next]_vars
=============================================================================
