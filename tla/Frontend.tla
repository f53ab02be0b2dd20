------------------------------ MODULE Frontend ------------------------------
(***************************************************************************)
(* What a page of the browser shows, for one run of TLC: the events it is  *)
(* sent (EventStream), and what the chat screen makes of them              *)
(* (ChatScreen).                                                           *)
(*                                                                         *)
(* As in Workbench, a behaviour takes one part and the other stays as it   *)
(* began.  A part that is not taken owes no step.                          *)
(***************************************************************************)
EXTENDS EventStream, ChatScreen

VARIABLE part      \* the module this behaviour is about

FrontendInit ==
  /\ part \in {"stream", "chat"}
  /\ Init /\ (part # "stream" => page.screen = "chat")
  /\ ChatInit

FrontendNext ==
  /\ UNCHANGED part
  /\ \/ part = "stream" /\ Next /\ UNCHANGED chatVars
     \/ part = "chat" /\ ChatNext /\ UNCHANGED vars

(* The publisher and the handler are goroutines with work to do.  The      *)
(* network, the operator and restarts are not fair, and nothing below      *)
(* asks the page to reconnect.                                             *)
FrontendSpec ==
  /\ FrontendInit /\ [][FrontendNext]_<<part, vars, chatVars>>
  /\ WF_vars(part = "stream" /\ StreamStep)
  /\ \A e \in Ids : WF_vars(part = "stream" /\ Publish(e))
=============================================================================
