----------------------------- MODULE KbSyncProps -----------------------------
(***************************************************************************)
(* What the hub promises of a source and its copy.                         *)
(***************************************************************************)
EXTENDS KbSync

\* Provided no edit brings back a content that was there before: when the
\* hub takes the copy for up to date (between cycles, the source's hash is the
\* cached one) and nobody edited the copy since it was pulled, the copy is the
\* source's tree, whatever was edited while it was fetched.
UpToDateIsAlike ==
    Fresh /\ pc = "idle" /\ lastHash = source /\ touched = {} => central = source

\* Under the same proviso, source and copy become alike once the edits stop,
\* from whatever failed, half-done or interrupted pull or push.
BecomeAlike == Fresh /\ Push => <>[](pc = "idle" => central = source)

\* The hub does not push for ever: once the edits stop, the pushes do.
PushesStop == <>[](pc # "post")

-----------------------------------------------------------------------------
(* Claims of the comments and documents *)

\* Pulling once more what was pulled before changes nothing: what it removes is
\* that very tree.
RepullIsIdempotent ==
    [][pc = "replace" /\ pc' = "rename" /\ tar = pulled
           => central \in {None, pulled}]_vars
=============================================================================
