------------------------------- MODULE Bridge -------------------------------
(***************************************************************************)
(* What the extension's background script and its script in a chat page    *)
(* share (packages/v2-extension/src/entrypoints/content.ts passes messages *)
(* between them): the results of a chat's answer with tool calls reach the  *)
(* page together, as one tool_result message.                               *)
(***************************************************************************)
CONSTANTS
    Batches,    \* answers with tool calls, and the messages with their results
    None        \* null

ASSUME NoneIsNoBatch == None \notin Batches
=============================================================================
