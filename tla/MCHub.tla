------------------------------- MODULE MCHub -------------------------------
(* Small instances of Hub.                                                  *)
EXTENDS HubProps, TLC

CONSTANTS kb, mail

\* Two entries; kb being "kb" and mail being "kb-mail", the name of one starts
\* with the other's.
Related == (kb :> {mail} @@ mail :> {})
=============================================================================
