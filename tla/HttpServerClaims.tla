--------------------------- MODULE HttpServerClaims ---------------------------
(***************************************************************************)
(* What a comment of the configuration server says of it, where the code   *)
(* does otherwise.                                                         *)
(***************************************************************************)
EXTENDS HttpServer

\* A configuration is accepted when its whole body was parsed: "Keeps parsing body
\* until received expected length" (http_post_completed()).
ParsesWholeBody == conn = "rebooting" /\ ~ polled => delivered = Len(Characters(request))

===============================================================================
