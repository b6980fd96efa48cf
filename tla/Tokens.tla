------------------------------- MODULE Tokens -------------------------------
(***************************************************************************)
(* What the device registry promises to the write path: an abstract        *)
(* specification, with no table, cache, crash or administrator.            *)
(*                                                                         *)
(* A token is granted once.  While it is honoured, requests that present   *)
(* it are let in; once it is not, it never is again.                       *)
(***************************************************************************)
CONSTANT Token

VARIABLES
  granted,   \* the tokens handed out so far
  honoured   \* those of them that let a request in

Init == granted = {} /\ honoured = {}

\* New tokens are granted, and any number of tokens stop being honoured.
Change ==
  /\ granted \subseteq granted' /\ granted' \subseteq Token
  /\ honoured' \subseteq honoured \cup (granted' \ granted)

Spec == Init /\ [][Change]_<<granted, honoured>>
=============================================================================
