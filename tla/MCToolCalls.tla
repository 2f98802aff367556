----------------------------- MODULE MCToolCalls -----------------------------
(* Instances of ToolCalls for TLC. *)
EXTENDS ToolCalls

MCContexts == [approval : {"OnFailure", "OnRequest"}, sandbox : {"workspace"}]
MCRequests ==
  {Read} \union [tool : {"shell"}, command : {"other"}, escalated : BOOLEAN]
         \union [tool : {"patch"}, paths : {{"out"}, {"in", "out"}}]
=============================================================================
