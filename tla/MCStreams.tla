------------------------------ MODULE MCStreams ------------------------------
(***************************************************************************)
(* Every adapter, with counts that grow, shrink, come in one line or in    *)
(* two, or never come, in streams and in single answers.                   *)
(***************************************************************************)
EXTENDS Calls

MCKinds == {"openai", "anthropic", "gemini", "mock"}
MCAdapters == MCKinds \cup {"ollama"}
=============================================================================
