----------------------------- MODULE MCGeneration -----------------------------
EXTENDS Generation

CONSTANTS primary, gemini

OneAccount == <<primary>>
GeminiAccount == <<gemini>>

(* config/model_routing.yaml: Gemini first, then OpenAI. *)
GeminiFirst == <<Gemini, OpenAI>>
================================================================================
