---------------------------- MODULE MCChatSession ----------------------------
(* Two calls of the user, two answers of the model, a controller that may be *)
(* replaced once.                                                            *)
EXTENDS ChatSession
==============================================================================
