------------------------------ MODULE MCStartup ------------------------------
(* A finite choice of texts for Startup. *)
EXTENDS Startup

SomeAppEnvTexts == {"", "prod", "development", "staging", "test"}
SomeVercelTexts == {"", "unheard of", "development", "preview", "production"}
=============================================================================
