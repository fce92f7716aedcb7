---------------------------- MODULE MCGuiControl ---------------------------
(* Small instances of GuiControl for TLC.                                  *)
EXTENDS GuiControl

AnyAndPrompt  == {{}, {"workers", "events"}}
PromptEvents  == {{"events", "status"}}
=============================================================================
