--------------------------- MODULE RequestService ---------------------------
(***************************************************************************)
(* What the language server promises about LSP requests, with everything   *)
(* about threads, snapshots and cancellation left out: a request that was  *)
(* received is open until it is answered, and it is answered once.         *)
(*                                                                         *)
(* RequestLifecycle refines this module, with `open` the entries of        *)
(* lsp_server's ReqQueue::incoming and `answered` the requests a response  *)
(* was written for.                                                        *)
(***************************************************************************)
CONSTANT Requests    \* the request ids

VARIABLES
    open,            \* received, not answered yet
    answered         \* answered

vars == <<open, answered>>

Init ==
    /\ open = {}
    /\ answered = {}

(* The server accepts a request it has not seen. *)
Receive(r) ==
    /\ r \notin open \cup answered
    /\ open' = open \cup {r}
    /\ UNCHANGED answered

(* The server answers an open request. *)
Answer(r) ==
    /\ r \in open
    /\ open' = open \ {r}
    /\ answered' = answered \cup {r}

(* A request the receiving handler answers itself (a synchronous handler,  *)
(* or parameters that do not parse).                                       *)
ReceiveAndAnswer(r) ==
    /\ r \notin open \cup answered
    /\ answered' = answered \cup {r}
    /\ UNCHANGED open

Next == \E r \in Requests : Receive(r) \/ Answer(r) \/ ReceiveAndAnswer(r)

Spec == Init /\ [][Next]_vars
=============================================================================
